------------------------- MODULE AgentPartsProofs -------------------------
(*************************************************************************)
(* Proofs about the parts of an agent's run: the shared agent of the     *)
(* factory and the tools it is built with, the calls of a provider, a    *)
(* batch, the patterns that compose agents, what its hooks are told, the *)
(* skills in its prompt, and the assistant, each of every size.          *)
(*************************************************************************)
EXTENDS FactoryAgent, ProviderCalls, BatchRun, ReasoningLoops, AgentHooks,
        AgentBuild, SkillCatalog, SenseiApp,
        FiniteSetTheorems, SequenceTheorems, WellFoundedInduction, TLAPS

-----------------------------------------------------------------------------
(***************************************************************************)
(* The shared agent: it is its one run's while that runs, and as it was    *)
(* built in between.                                                       *)
(***************************************************************************)
USE AgentAssumption

SomeRun == Runs \cup {NoRun}
SomeTier == Tiers \cup {BaseTier}
Kinds == RunModes \cup {"stream"}
Outcomes == {"none", "ok", "failed", "cancelled", "lost"}
Awaited == {"new", "started", "calling", "tools", "ending", "done"}

Agents == [llm : Providers, tier : SomeTier, trace : SomeRun, callbacks : SomeRun]
Locals == [kind : Kinds, tier : SomeTier, wanted : SomeTier, callbacks : SomeRun,
           primary : Providers, index : Providers, model : SomeTier, recorder : SomeRun,
           listener : SomeRun, served : Providers, round : Nat, outcome : Outcomes,
           trace : SomeRun]

AgentTypeOK ==
    /\ mode \in Modes
    /\ agent \in Agents
    /\ awaits \in [Runs -> Awaited]
    /\ run \in [Runs -> Locals]
    /\ overlap \in BOOLEAN

\* What agent a is while r alone is in progress, except for its provider.
Lent(r, a) ==
    /\ a.tier = run[r].wanted
    /\ run[r].kind # "adaptive" => run[r].wanted = BaseTier
    /\ run[r].kind = "adaptive" => run[r].tier = BaseTier
    /\ run[r].kind = "stream" => run[r].callbacks = NoRun
    /\ a.trace = (IF run[r].kind = "run" THEN r ELSE NoRun)
    /\ a.callbacks = (IF run[r].kind = "stream" THEN r ELSE NoRun)

\* The run that is alone: failover is at the provider it says, in the loop, and has
\* put the primary back, or not taken it, outside.
Alone(r) ==
    /\ Lent(r, agent)
    /\ awaits[r] = "started" => run[r].index = 0
    /\ ~InLoop(r) => agent.llm = 0
    /\ InLoop(r) =>
         /\ run[r].primary = 0
         /\ agent.llm = run[r].index
         /\ run[r].served = run[r].index
         /\ run[r].model = run[r].wanted
         /\ run[r].recorder = agent.trace
         /\ run[r].listener = agent.callbacks

AgentInv ==
    /\ AgentTypeOK
    /\ \A r \in Runs : awaits[r] = "new" => run[r] = NewRun
    /\ ~overlap =>
         /\ \A r, s \in InFlight : r = s
         /\ InFlight = {} => agent = AsBuilt
         /\ \A r \in InFlight : Alone(r)

\* It says what SoloRunOwnsTheAgent says.
LEMMA AgentInvSuffices == AgentInv => SoloRunOwnsTheAgent
<1> SUFFICES ASSUME AgentInv, ~overlap, NEW r \in Runs, InLoop(r)
             PROVE  /\ run[r].served = run[r].index
                    /\ run[r].model = run[r].wanted
                    /\ run[r].recorder = (IF run[r].kind = "run" THEN r ELSE NoRun)
                    /\ run[r].listener = (IF run[r].kind = "stream" THEN r ELSE NoRun)
  BY DEF AgentInv, SoloRunOwnsTheAgent
<1>1. r \in InFlight
  BY DEF InFlight, InLoop
<1>2. Alone(r)
  BY <1>1 DEF AgentInv
<1> QED
  BY <1>2 DEF Alone, Lent

LEMMA BuiltTypes == AsBuilt \in Agents /\ NewRun \in Locals
  BY DEF AsBuilt, Agents, NewRun, Locals, Providers, SomeRun, SomeTier, Kinds, RunModes, Outcomes

LEMMA AgentInit == FactoryInit => AgentInv
<1> SUFFICES ASSUME FactoryInit PROVE AgentInv
  OBVIOUS
<1>1. AgentTypeOK
  BY BuiltTypes DEF FactoryInit, AgentTypeOK, Awaited
<1>2. InFlight = {}
  BY DEF FactoryInit, InFlight
<1> QED
  BY <1>1, <1>2 DEF AgentInv, FactoryInit

\* Putting back keeps an agent an agent, and what a run was lent is as it was built.
LEMMA PutBackType ==
  ASSUME AgentTypeOK, NEW r \in Runs, NEW a \in Agents
  PROVE  PutBack(r, a) \in Agents
  BY DEF AgentTypeOK, PutBack, Agents, Locals, Kinds, RunModes, SomeRun

LEMMA PutBackRestores ==
  ASSUME AgentTypeOK, NEW r \in Runs, NEW a \in Agents, Lent(r, a), a.llm = 0
  PROVE  PutBack(r, a) = AsBuilt
<1>1. run[r].kind \in Kinds
  BY DEF AgentTypeOK, Locals
<1>2. a = [llm |-> a.llm, tier |-> a.tier, trace |-> a.trace, callbacks |-> a.callbacks]
  BY DEF Agents
<1> QED
  BY <1>1, <1>2 DEF Lent, PutBack, AsBuilt, Kinds, RunModes, Agents

-----------------------------------------------------------------------------
(* Types. *)

LEMMA BeginTypes ==
  ASSUME AgentTypeOK, NEW r \in Runs,
         BeginRun(r) \/ BeginAdaptive(r) \/ BeginStream(r) \/ BeginSample(r)
  PROVE  AgentTypeOK'
<1> USE DEF AgentTypeOK
<1>1. overlap' \in BOOLEAN
  BY Zenon DEF BeginRun, BeginAdaptive, BeginStream, BeginSample, Begin
<1>2. mode' = mode /\ awaits' \in [Runs -> Awaited]
  BY DEF BeginRun, BeginAdaptive, BeginStream, BeginSample, Begin, Awaited
<1>3. agent' \in Agents /\ run' \in [Runs -> Locals]
  <2>1. /\ run[r] \in Locals /\ agent \in Agents
        /\ agent.tier \in SomeTier /\ agent.callbacks \in SomeRun /\ r \in SomeRun
    BY DEF Agents, Locals, SomeRun
  <2>2. CASE BeginRun(r)
    <3>1. [run[r] EXCEPT !.kind = "run", !.wanted = agent.tier] \in Locals
      BY <2>1 DEF Locals, Kinds, RunModes
    <3>2. [agent EXCEPT !.trace = r] \in Agents
      BY <2>1 DEF Agents
    <3>3. run' = [run EXCEPT ![r] = [run[r] EXCEPT !.kind = "run", !.wanted = agent.tier]]
      BY <2>1, <2>2 DEF BeginRun, Locals
    <3> QED
      BY <2>2, <3>1, <3>2, <3>3 DEF BeginRun
  <2>3. CASE BeginAdaptive(r)
    <3> PICK tier \in Tiers :
          /\ agent' = [agent EXCEPT !.tier = tier]
          /\ run' = [run EXCEPT ![r].kind = "adaptive", ![r].wanted = tier,
                                ![r].tier = agent.tier]
      BY <2>3 DEF BeginAdaptive
    <3>1. [run[r] EXCEPT !.kind = "adaptive", !.wanted = tier, !.tier = agent.tier] \in Locals
      BY <2>1 DEF Locals, Kinds, RunModes, SomeTier
    <3>2. [agent EXCEPT !.tier = tier] \in Agents
      BY <2>1 DEF Agents, SomeTier
    <3>3. run' = [run EXCEPT ![r] = [run[r] EXCEPT !.kind = "adaptive", !.wanted = tier,
                                                   !.tier = agent.tier]]
      BY <2>1 DEF Locals
    <3> QED
      BY <3>1, <3>2, <3>3
  <2>4. CASE BeginStream(r)
    <3>1. [run[r] EXCEPT !.kind = "stream", !.wanted = agent.tier,
                         !.callbacks = agent.callbacks] \in Locals
      BY <2>1 DEF Locals, Kinds
    <3>2. [agent EXCEPT !.callbacks = r] \in Agents
      BY <2>1 DEF Agents
    <3>3. run' = [run EXCEPT ![r] = [run[r] EXCEPT !.kind = "stream", !.wanted = agent.tier,
                                                   !.callbacks = agent.callbacks]]
      BY <2>1, <2>4 DEF BeginStream, Locals
    <3> QED
      BY <2>4, <3>1, <3>2, <3>3 DEF BeginStream
  <2>5. CASE BeginSample(r)
    <3>1. [run[r] EXCEPT !.kind = "sample", !.wanted = agent.tier] \in Locals
      BY <2>1 DEF Locals, Kinds, RunModes
    <3>2. run' = [run EXCEPT ![r] = [run[r] EXCEPT !.kind = "sample", !.wanted = agent.tier]]
      BY <2>1, <2>5 DEF BeginSample, Locals
    <3> QED
      BY <2>1, <2>5, <3>1, <3>2 DEF BeginSample
  <2> QED
    BY <2>2, <2>3, <2>4, <2>5
<1> QED
  BY <1>1, <1>2, <1>3

LEMMA AttemptTypes ==
  ASSUME AgentTypeOK, NEW r \in Runs, NEW llm \in Providers, NEW locals \in Locals,
         Attempt(r, llm, locals)
  PROVE  /\ agent' \in Agents /\ run' \in [Runs -> Locals]
         /\ awaits' \in [Runs -> Awaited]
<1>1. agent' \in Agents /\ awaits' \in [Runs -> Awaited]
  BY DEF AgentTypeOK, Attempt, Agents, Awaited
<1>2. [locals EXCEPT !.recorder = agent.trace, !.listener = agent.callbacks,
                     !.served = llm, !.round = 1] \in Locals
  BY DEF AgentTypeOK, Agents, Locals
<1> QED
  BY <1>1, <1>2 DEF AgentTypeOK, Attempt

LEMMA StepTypes ==
  ASSUME AgentTypeOK, NEW r \in Runs, RunStep(r) \/ Cancelled(r)
  PROVE  AgentTypeOK'
<1> USE DEF AgentTypeOK
<1>1. run[r] \in Locals /\ agent \in Agents
  OBVIOUS
<1>2. CASE EnterLoop(r)
  <2>1. [run[r] EXCEPT !.model = agent.tier, !.primary = agent.llm] \in Locals
    BY ZenonT(40) DEF Agents, Locals
  <2>2. agent.llm \in Providers
    BY DEF Agents
  <2> QED
    BY <1>2, <2>1, <2>2, AttemptTypes DEF EnterLoop
<1>3. CASE RunRefused(r)
  BY <1>3 DEF RunRefused, Locals, Outcomes, Awaited
<1>4. CASE CallTools(r)
  BY <1>4 DEF CallTools, Awaited
<1>5. CASE CallAgain(r)
  BY <1>5 DEF CallAgain, Locals, Agents, Awaited
<1>6. CASE Answers(r)
  BY <1>6 DEF Answers, Locals, Agents, Outcomes, Awaited
<1>7. CASE FailsOver(r)
  <2>1. run[r].index + 1 \in Providers /\ [run[r] EXCEPT !.index = @ + 1] \in Locals
    BY <1>7 DEF FailsOver, Locals, Providers
  <2> QED
    BY <1>7, <2>1, AttemptTypes DEF FailsOver
<1>8. CASE AllFailed(r)
  BY <1>8 DEF AllFailed, Locals, Agents, Outcomes, Awaited
<1>9. ASSUME NEW result \in Outcomes, NEW trace \in SomeRun, NEW a \in Agents,
             Finish(r, result, trace), agent' = PutBack(r, a)
      PROVE  AgentTypeOK'
  <2>1. [NewRun EXCEPT !.kind = run[r].kind, !.outcome = result, !.trace = trace] \in Locals
    BY BuiltTypes DEF Locals
  <2>2. agent' \in Agents
    BY <1>9, PutBackType
  <2> QED
    BY <1>9, <2>1, <2>2 DEF Finish, Awaited
<1>10. CASE CallEnds(r)
  <2>1. agent.trace \in SomeRun /\ run[r].outcome \in Outcomes /\ NoRun \in SomeRun
    BY DEF Agents, Locals, SomeRun
  <2> QED
    BY <1>1, <1>9, <1>10, <2>1 DEF CallEnds, Outcomes
<1>11. CASE Cancelled(r)
  <2>1. [agent EXCEPT !.llm = run[r].primary] \in Agents
    BY DEF Agents, Locals
  <2> QED
    BY <1>1, <1>9, <1>11, <2>1 DEF Cancelled, Outcomes, SomeRun
<1> QED
  BY <1>2, <1>3, <1>4, <1>5, <1>6, <1>7, <1>8, <1>10, <1>11 DEF RunStep

LEMMA TypesStep == AgentTypeOK /\ [FactoryNext]_factoryVars => AgentTypeOK'
<1> SUFFICES ASSUME AgentTypeOK, [FactoryNext]_factoryVars PROVE AgentTypeOK'
  OBVIOUS
<1>1. CASE UNCHANGED factoryVars
  BY <1>1 DEF factoryVars, AgentTypeOK
<1> QED
  BY <1>1, BeginTypes, StepTypes DEF FactoryNext, Caller, AllDone

-----------------------------------------------------------------------------
(* The agent is lent to one run. *)

\* A run that begins alone takes the agent as it was built.
LEMMA BeginKeepsInv ==
  ASSUME AgentInv, NEW r \in Runs,
         BeginRun(r) \/ BeginAdaptive(r) \/ BeginStream(r) \/ BeginSample(r)
  PROVE  AgentInv'
<1> USE DEF AgentInv, AgentTypeOK
<1>1. /\ Begin(r) /\ run[r] = NewRun /\ AgentTypeOK'
      /\ \A s \in Runs \ {r} : run'[s] = run[s] /\ awaits'[s] = awaits[s]
      /\ awaits'[r] = "started"
  BY BeginTypes DEF BeginRun, BeginAdaptive, BeginStream, BeginSample, Begin
<1>2. ASSUME ~overlap'
      PROVE  /\ InFlight' = {r} /\ Alone(r)'
  <2>1. InFlight = {} /\ agent = AsBuilt
    BY <1>1, <1>2 DEF Begin
  <2>2. InFlight' = {r}
    BY <1>1, <2>1 DEF InFlight
  <2>3. run[r] \in Locals /\ agent \in Agents
    OBVIOUS
  <2>4. CASE BeginRun(r)
    <3>1. run'[r] = [run[r] EXCEPT !.kind = "run", !.wanted = agent.tier]
      BY <2>3, <2>4 DEF BeginRun, Locals
    <3>2. agent' = [agent EXCEPT !.trace = r]
      BY <2>4 DEF BeginRun
    <3> QED
      BY <1>1, <2>1, <2>2, <3>1, <3>2 DEF Alone, Lent, InLoop, NewRun, AsBuilt
  <2>5. CASE BeginAdaptive(r)
    <3>1. PICK tier \in Tiers :
            /\ agent' = [agent EXCEPT !.tier = tier]
            /\ run' = [run EXCEPT ![r].kind = "adaptive", ![r].wanted = tier,
                                  ![r].tier = agent.tier]
      BY <2>5 DEF BeginAdaptive
    <3>2. run'[r] = [run[r] EXCEPT !.kind = "adaptive", !.wanted = tier, !.tier = agent.tier]
      BY <2>3, <3>1 DEF Locals
    <3> QED
      BY <1>1, <2>1, <2>2, <3>1, <3>2 DEF Alone, Lent, InLoop, NewRun, AsBuilt
  <2>6. CASE BeginStream(r)
    <3>1. run'[r] = [run[r] EXCEPT !.kind = "stream", !.wanted = agent.tier,
                                   !.callbacks = agent.callbacks]
      BY <2>3, <2>6 DEF BeginStream, Locals
    <3>2. agent' = [agent EXCEPT !.callbacks = r]
      BY <2>6 DEF BeginStream
    <3> QED
      BY <1>1, <2>1, <2>2, <3>1, <3>2 DEF Alone, Lent, InLoop, NewRun, AsBuilt
  <2>7. CASE BeginSample(r)
    <3>1. run'[r] = [run[r] EXCEPT !.kind = "sample", !.wanted = agent.tier] /\ agent' = agent
      BY <2>3, <2>7 DEF BeginSample, Locals
    <3> QED
      BY <1>1, <2>1, <2>2, <3>1 DEF Alone, Lent, InLoop, NewRun, AsBuilt
  <2> QED
    BY <1>1, <2>2, <2>4, <2>5, <2>6, <2>7
<1> QED
  BY <1>1, <1>2

\* What a step of a run that stays in progress has to show.
LEMMA StaysInv ==
  ASSUME AgentInv, AgentTypeOK', NEW r \in InFlight, overlap' = overlap,
         awaits'[r] \notin {"new", "done"},
         \A s \in Runs \ {r} : run'[s] = run[s] /\ awaits'[s] = awaits[s],
         ~overlap /\ Alone(r) => Alone(r)'
  PROVE  AgentInv'
<1>1. InFlight' = InFlight
  BY DEF InFlight
<1> QED
  BY <1>1 DEF AgentInv, InFlight

\* And what one that ends.
LEMMA EndsInv ==
  ASSUME AgentInv, AgentTypeOK', NEW r \in InFlight, overlap' = overlap,
         awaits'[r] = "done",
         \A s \in Runs \ {r} : run'[s] = run[s] /\ awaits'[s] = awaits[s],
         ~overlap /\ Alone(r) => agent' = AsBuilt
  PROVE  AgentInv'
<1>1. InFlight' = InFlight \ {r}
  BY DEF InFlight
<1>2. ~overlap => InFlight' = {}
  BY <1>1 DEF AgentInv
<1> QED
  BY <1>1, <1>2 DEF AgentInv, InFlight

LEMMA StepKeepsInv ==
  ASSUME AgentInv, NEW r \in Runs, RunStep(r) \/ Cancelled(r)
  PROVE  AgentInv'
<1> USE DEF AgentInv, AgentTypeOK
<1>1. /\ AgentTypeOK' /\ run[r] \in Locals /\ agent \in Agents
  BY StepTypes
<1>2. CASE EnterLoop(r)
  <2>1. ASSUME Alone(r) PROVE Alone(r)'
    BY <1>1, <1>2, <2>1 DEF EnterLoop, Attempt, Alone, Lent, InLoop, Locals, Agents
  <2> QED
    BY <1>1, <1>2, <2>1, StaysInv DEF EnterLoop, Attempt, InFlight
<1>3. CASE RunRefused(r)
  <2>1. ASSUME Alone(r) PROVE Alone(r)'
    BY <1>1, <1>3, <2>1 DEF RunRefused, Alone, Lent, InLoop, Locals
  <2> QED
    BY <1>1, <1>3, <2>1, StaysInv DEF RunRefused, InFlight
<1>4. CASE CallTools(r)
  <2>1. ASSUME Alone(r) PROVE Alone(r)'
    BY <1>1, <1>4, <2>1 DEF CallTools, Alone, Lent, InLoop
  <2> QED
    BY <1>1, <1>4, <2>1, StaysInv DEF CallTools, InFlight
<1>5. CASE CallAgain(r)
  <2>1. ASSUME Alone(r) PROVE Alone(r)'
    BY <1>1, <1>5, <2>1 DEF CallAgain, Alone, Lent, InLoop, Locals
  <2> QED
    BY <1>1, <1>5, <2>1, StaysInv DEF CallAgain, InFlight
<1>6. CASE Answers(r)
  <2>1. ASSUME Alone(r) PROVE Alone(r)'
    BY <1>1, <1>6, <2>1 DEF Answers, Alone, Lent, InLoop, Locals, Agents
  <2> QED
    BY <1>1, <1>6, <2>1, StaysInv DEF Answers, InFlight
<1>7. CASE FailsOver(r)
  <2>1. ASSUME Alone(r) PROVE Alone(r)'
    BY <1>1, <1>7, <2>1 DEF FailsOver, Attempt, Alone, Lent, InLoop, Locals, Agents
  <2> QED
    BY <1>1, <1>7, <2>1, StaysInv DEF FailsOver, Attempt, InFlight, InLoop
<1>8. CASE AllFailed(r)
  <2>1. ASSUME Alone(r) PROVE Alone(r)'
    BY <1>1, <1>8, <2>1 DEF AllFailed, Alone, Lent, InLoop, Locals, Agents
  <2> QED
    BY <1>1, <1>8, <2>1, StaysInv DEF AllFailed, InFlight, InLoop
<1>9. CASE CallEnds(r)
  <2>1. ASSUME Alone(r) PROVE agent' = AsBuilt
    <3>1. Lent(r, agent) /\ agent.llm = 0
      BY <1>9, <2>1 DEF CallEnds, Alone, InLoop
    <3> QED
      BY <1>1, <1>9, <3>1, PutBackRestores DEF CallEnds
  <2>2. /\ r \in InFlight /\ overlap' = overlap /\ awaits'[r] = "done"
        /\ \A s \in Runs \ {r} : run'[s] = run[s] /\ awaits'[s] = awaits[s]
    BY <1>9 DEF CallEnds, Finish, InFlight
  <2> QED
    BY <1>1, <2>1, <2>2, EndsInv
<1>10. CASE Cancelled(r)
  <2> DEFINE a == IF InLoop(r) THEN [agent EXCEPT !.llm = run[r].primary] ELSE agent
  <2>1. ASSUME Alone(r) PROVE agent' = AsBuilt
    <3>1. Lent(r, a) /\ a.llm = 0 /\ a \in Agents
      BY <1>1, <2>1 DEF Alone, Lent, Agents, Locals
    <3> QED
      BY <1>1, <1>10, <3>1, PutBackRestores DEF Cancelled
  <2>2. /\ r \in InFlight /\ overlap' = overlap /\ awaits'[r] = "done"
        /\ \A s \in Runs \ {r} : run'[s] = run[s] /\ awaits'[s] = awaits[s]
    BY <1>10 DEF Cancelled, Finish
  <2> QED
    BY <1>1, <2>1, <2>2, EndsInv
<1> QED
  BY <1>2, <1>3, <1>4, <1>5, <1>6, <1>7, <1>8, <1>9, <1>10 DEF RunStep

LEMMA AgentInvStep == AgentInv /\ [FactoryNext]_factoryVars => AgentInv'
<1> SUFFICES ASSUME AgentInv, [FactoryNext]_factoryVars PROVE AgentInv'
  OBVIOUS
<1>1. ASSUME UNCHANGED factoryVars PROVE AgentInv'
  BY <1>1 DEF factoryVars, AgentInv, AgentTypeOK, InFlight, Alone, Lent, InLoop
<1> QED
  BY <1>1, BeginKeepsInv, StepKeepsInv DEF FactoryNext, Caller, AllDone

-----------------------------------------------------------------------------
\* The shared agent and the locals of its runs are of their types, however runs
\* overlap, fail over and end.
THEOREM AgentTypeCorrect == FactorySpec => []AgentTypeOK
<1>1. FactoryInit => AgentTypeOK
  BY AgentInit DEF AgentInv
<1> QED
  BY <1>1, TypesStep, PTL DEF FactorySpec

\* Used by one run at a time, the agent serves, records and tells that run alone, and
\* is as it was built between runs, however they ended (agent.py run, _run_adaptive,
\* stream; _internal_agent.py _react_loop_with_failover).
THEOREM SoloRunCorrect == FactorySpec => []SoloRunOwnsTheAgent
  BY AgentInit, AgentInvStep, AgentInvSuffices, PTL DEF FactorySpec

HIDE AgentAssumption

-----------------------------------------------------------------------------
(***************************************************************************)
(* Calls of a provider.                                                    *)
(***************************************************************************)
Chains == {<<"anthropic">>, <<"openai">>, <<"anthropic", "openai">>, <<"openai", "anthropic">>}
SentRequests == [carries : SUBSET (Parameters \cup {"cot"}), known : BOOLEAN]
ProviderCallRecords ==
    [what : {"nothing", "complete", "stream", "embed"}, model : Models \cup {"none"},
     thinking : BOOLEAN, at : {1, 2}, sent : Seq(SentRequests), chunks : Nat, outage : BOOLEAN,
     answer : {"none", "response", "retryable", "fatal", "degraded", "NotImplementedError"},
     native : BOOLEAN, cot : BOOLEAN]

\* What a request to Anthropic carries: the first, and the one of a retry.
FirstSane(call, sent) ==
    /\ "cot" \notin sent.carries /\ ("thinking" \in sent.carries <=> call.thinking)
    /\ sent.known \/ call.thinking => "temperature" \notin sent.carries
SecondSane(call, sent) ==
    /\ "thinking" \notin sent.carries /\ ("cot" \in sent.carries <=> call.thinking)
    /\ ~sent.known

\* A call of complete whose provider is p.
CompleteOK(call, p) ==
    /\ call.answer \in {"none", "response"} => Len(call.sent) \in {1, 2}
    /\ Len(call.sent) <= 2
    /\ p = "anthropic" => /\ Len(call.sent) > 0 => FirstSane(call, call.sent[1])
                          /\ Len(call.sent) = 2 => SecondSane(call, call.sent[2])
    /\ p = "openai" /\ Len(call.sent) > 0 => "thinking" \notin call.sent[1].carries
    /\ ~call.outage => call.answer \in {"none", "response"} /\ call.at = 1
    \* A provider that is well is not refused a second time.
    /\ ~call.outage /\ Len(call.sent) = 2 =>
          call.sent[2].carries \cap Parameters \subseteq IF p = "anthropic" THEN {"max_tokens"} ELSE {}
    /\ call.answer = "response" /\ p = "anthropic" =>
          /\ call.native <=> (call.thinking /\ Len(call.sent) = 1)
          /\ call.cot <=> (call.thinking /\ Len(call.sent) = 2)

CallSane(call) ==
    /\ call.at \in DOMAIN chain
    /\ call.what = "complete" => CompleteOK(call, chain[call.at])
    /\ call.what # "complete" => Len(call.sent) <= 1
    /\ call.what \in {"complete", "stream"} => call.model \in Models
    /\ call.what = "stream" /\ call.answer = "none" => Len(call.sent) = 1

ProviderInv ==
    /\ chain \in Chains
    /\ rejected \subseteq {m \in Models : "temperature" \in Refuses[m]}
    /\ asked \in [Callers -> ProviderCallRecords]
    /\ \A c \in Callers : CallSane(asked[c])

LEMMA ChainFacts ==
  ASSUME chain \in Chains
  PROVE  /\ DOMAIN chain = 1 .. Len(chain) /\ Len(chain) \in {1, 2}
         /\ \A at \in DOMAIN chain : chain[at] \in {"anthropic", "openai"} /\ at \in {1, 2}
BY DEF Chains

LEMMA NoRequestYetSane ==
  ASSUME chain \in Chains
  PROVE  NoRequestYet \in ProviderCallRecords /\ CallSane(NoRequestYet)
<1>1. NoRequestYet \in ProviderCallRecords
  BY DEF NoRequestYet, ProviderCallRecords
<1>2. NoRequestYet.at = 1 /\ NoRequestYet.what = "nothing" /\ Len(NoRequestYet.sent) = 0
  BY DEF NoRequestYet
<1> QED
  BY <1>1, <1>2, ChainFacts DEF CallSane

LEMMA ProviderInitial == ProviderInit => ProviderInv
<1> SUFFICES ASSUME ProviderInit PROVE ProviderInv
  OBVIOUS
<1>1. chain \in Chains
  BY DEF ProviderInit, Chains
<1> QED
  BY <1>1, NoRequestYetSane DEF ProviderInit, ProviderInv

\* The call of one caller moves.
LEMMA CallMoves ==
  ASSUME ProviderInv, NEW c \in Callers, NEW d \in ProviderCallRecords, CallSane(d),
         asked' = [asked EXCEPT ![c] = d], chain' = chain,
         rejected' \subseteq {m \in Models : "temperature" \in Refuses[m]}
  PROVE  ProviderInv'
<1>1. asked' \in [Callers -> ProviderCallRecords]
  BY DEF ProviderInv
<1>2. ASSUME NEW b \in Callers PROVE CallSane(asked'[b])
  BY DEF ProviderInv
<1>3. \A call : CallSane(call) => CallSane(call)'
  BY DEF CallSane
<1> QED
  BY <1>1, <1>2 DEF ProviderInv, CallSane

\* The first request of a call to a provider.
LEMMA FirstSent ==
  ASSUME ProviderInv, NEW what \in {"complete", "stream"}, NEW model \in Models,
         NEW thinking \in BOOLEAN, NEW at \in DOMAIN chain
  PROVE  LET s == Sent(FirstRequest(chain[at], what, model, thinking), model)
         IN  /\ s \in SentRequests
             /\ what = "complete" /\ chain[at] = "anthropic" =>
                  /\ "cot" \notin s.carries /\ ("thinking" \in s.carries <=> thinking)
                  /\ s.known \/ thinking => "temperature" \notin s.carries
             /\ chain[at] = "openai" => "thinking" \notin s.carries
<1> DEFINE f == FirstRequest(chain[at], what, model, thinking)
           s == Sent(f, model)
<1>1. f \in SUBSET (Parameters \cup {"cot"})
  BY ChainFacts DEF FirstRequest, Parameters, ProviderInv
<1>2. what = "complete" /\ chain[at] = "anthropic" =>
        f = {"max_tokens"} \union (IF thinking THEN {"thinking"}
                                   ELSE IF model \in rejected THEN {} ELSE {"temperature"})
  BY DEF FirstRequest
<1>3. chain[at] = "openai" => "thinking" \notin f
  BY DEF FirstRequest
<1>4. s.carries = f /\ s = [carries |-> f, known |-> model \in rejected]
  BY DEF Sent
<1>5. s.known <=> model \in rejected
  BY Zenon DEF Sent
<1>6. s \in SentRequests
  BY <1>1, <1>4 DEF SentRequests
<1> HIDE DEF s, f
<1> QED
  BY <1>2, <1>3, <1>4, <1>5, <1>6 DEF s, f

\* A call by its fields, which is how the provers see through the steps.
CallOf(what, model, thinking, at, sent, chunks, outage, answer, native, cot) ==
    [what |-> what, model |-> model, thinking |-> thinking, at |-> at, sent |-> sent,
     chunks |-> chunks, outage |-> outage, answer |-> answer, native |-> native, cot |-> cot]

LEMMA CallIsOfFields ==
  ASSUME NEW call \in ProviderCallRecords
  PROVE  call = CallOf(call.what, call.model, call.thinking, call.at, call.sent, call.chunks,
                       call.outage, call.answer, call.native, call.cot)
BY DEF CallOf, ProviderCallRecords

LEMMA OutageSet ==
  ASSUME NEW what, NEW model, NEW thinking, NEW at, NEW sent, NEW chunks, NEW outage,
         NEW answer, NEW native, NEW cot, NEW o
  PROVE  [CallOf(what, model, thinking, at, sent, chunks, outage, answer, native, cot)
            EXCEPT !.outage = o] =
         CallOf(what, model, thinking, at, sent, chunks, o, answer, native, cot)
BY DEF CallOf

LEMMA NotKnown ==
  ASSUME NEW carries, NEW x, x = [carries |-> carries, known |-> FALSE] PROVE ~x.known
BY Zenon

LEMMA SecondRequest ==
  ASSUME NEW S, NEW sent \in Seq(S), Len(sent) = 1, NEW x \in S
  PROVE  /\ Append(sent, x) \in Seq(S) /\ Len(Append(sent, x)) = 2
         /\ Append(sent, x)[1] = sent[1] /\ Append(sent, x)[2] = x
<1>1. 1 \in 1 .. Len(sent) /\ Len(sent) + 1 = 2
  OBVIOUS
<1>2. Append(sent, x) \in Seq(S) /\ Len(Append(sent, x)) = Len(sent) + 1
  BY AppendProperties
<1>3. Append(sent, x)[1] = sent[1]
  <2>1. \A n \in 1 .. Len(sent) : Append(sent, x)[n] = sent[n]
    BY AppendProperties
  <2> QED
    BY <1>1, <2>1, Zenon
<1>4. Append(sent, x)[Len(sent) + 1] = x
  BY AppendProperties
<1> QED
  BY <1>1, <1>2, <1>3, <1>4, Zenon

\* What CompleteOK asks of a call whose second request is under way.
LEMMA SecondIsOK ==
  ASSUME NEW call, NEW p, Len(call.sent) = 2, call.answer = "none",
         p = "anthropic" => FirstSane(call, call.sent[1]) /\ SecondSane(call, call.sent[2]),
         p = "openai" => "thinking" \notin call.sent[1].carries,
         ~call.outage => call.at = 1,
         call.outage \/ call.sent[2].carries \cap Parameters
                            \subseteq IF p = "anthropic" THEN {"max_tokens"} ELSE {}
  PROVE  CompleteOK(call, p)
BY DEF CompleteOK

\* The first request of complete was refused, or failed, and a second is sent.
LEMMA RetryIsOK ==
  ASSUME NEW call \in ProviderCallRecords, NEW p, NEW x \in SentRequests, NEW outage \in BOOLEAN,
         CompleteOK(call, p), call.answer = "none", ~(Len(call.sent) > 1),
         p = "anthropic" => SecondSane(call, x),
         call.outage => outage,
         outage \/ x.carries \cap Parameters
                      \subseteq IF p = "anthropic" THEN {"max_tokens"} ELSE {}
  PROVE  LET d == CallOf(call.what, call.model, call.thinking, call.at, Append(call.sent, x),
                         call.chunks, outage, call.answer, call.native, call.cot)
         IN  /\ d \in ProviderCallRecords /\ CompleteOK(d, p)
             /\ d.what = call.what /\ d.at = call.at /\ d.model = call.model
<1> DEFINE s == Append(call.sent, x)
           d == CallOf(call.what, call.model, call.thinking, call.at, s, call.chunks, outage,
                       call.answer, call.native, call.cot)
<1>1. /\ call.what \in {"nothing", "complete", "stream", "embed"}
      /\ call.model \in Models \cup {"none"} /\ call.thinking \in BOOLEAN /\ call.at \in {1, 2}
      /\ call.chunks \in Nat /\ call.native \in BOOLEAN /\ call.cot \in BOOLEAN
      /\ call.answer \in {"none", "response", "retryable", "fatal", "degraded", "NotImplementedError"}
      /\ call.sent \in Seq(SentRequests)
  BY DEF ProviderCallRecords
<1>2. Len(call.sent) = 1
  BY DEF CompleteOK
<1>3. s \in Seq(SentRequests) /\ Len(s) = 2 /\ s[1] = call.sent[1] /\ s[2] = x
  BY <1>1, <1>2, SecondRequest
<1> HIDE DEF s
<1>4. d \in ProviderCallRecords
  BY <1>1, <1>3 DEF CallOf, ProviderCallRecords
<1>5. /\ d.sent = s /\ d.what = call.what /\ d.at = call.at
      /\ d.model = call.model /\ d.answer = call.answer
  BY DEF CallOf
<1>6. (d.outage <=> outage) /\ (d.thinking <=> call.thinking)
  BY <1>1, Zenon DEF CallOf
<1> HIDE DEF d
<1>7. p = "anthropic" => FirstSane(d, d.sent[1]) /\ SecondSane(d, d.sent[2])
  BY <1>2, <1>3, <1>5, <1>6 DEF CompleteOK, FirstSane, SecondSane
<1>8. p = "openai" => "thinking" \notin d.sent[1].carries
  BY <1>2, <1>3, <1>5 DEF CompleteOK
<1>9. ~d.outage => d.at = 1
  BY <1>5, <1>6 DEF CompleteOK
<1>10. d.outage \/ d.sent[2].carries \cap Parameters
                     \subseteq IF p = "anthropic" THEN {"max_tokens"} ELSE {}
  BY <1>3, <1>5, <1>6
<1>11. CompleteOK(d, p)
  BY <1>3, <1>5, <1>7, <1>8, <1>9, <1>10, SecondIsOK
<1> QED
  BY <1>4, <1>5, <1>11 DEF d, s
\* The fields of the call of a caller.
LEMMA AskedFields ==
  ASSUME ProviderInv, NEW c \in Callers
  PROVE  LET call == asked[c] IN
           /\ call \in ProviderCallRecords /\ CallSane(call)
           /\ call.what \in {"nothing", "complete", "stream", "embed"}
           /\ call.model \in Models \cup {"none"} /\ call.thinking \in BOOLEAN
           /\ call.at \in {1, 2} /\ call.sent \in Seq(SentRequests)
           /\ call.chunks \in Nat /\ call.native \in BOOLEAN /\ call.cot \in BOOLEAN
           /\ call.outage \in BOOLEAN
           /\ call.answer \in {"none", "response", "retryable", "fatal", "degraded",
                              "NotImplementedError"}
<1>1. asked[c] \in ProviderCallRecords /\ CallSane(asked[c])
  BY DEF ProviderInv
<1> QED
  BY <1>1 DEF ProviderCallRecords

\* A second request of complete is as CallSane wants it.
LEMMA RetryStep ==
  ASSUME ProviderInv, NEW c \in Callers, UnderWay(c), asked[c].what = "complete", ~Retried(c),
         NEW carries \in SUBSET (Parameters \cup {"cot"}), NEW outage \in BOOLEAN, NEW x,
         x = [carries |-> carries, known |-> FALSE],
         asked' = [asked EXCEPT ![c] =
                     CallOf(asked[c].what, asked[c].model, asked[c].thinking, asked[c].at,
                            Append(asked[c].sent, x), asked[c].chunks, outage,
                            asked[c].answer, asked[c].native, asked[c].cot)],
         chain' = chain, rejected' \subseteq {m \in Models : "temperature" \in Refuses[m]},
         Provider(c) = "anthropic" => /\ "thinking" \notin carries
                                      /\ "cot" \in carries <=> asked[c].thinking,
         asked[c].outage => outage,
         outage \/ carries \cap Parameters
                      \subseteq IF Provider(c) = "anthropic" THEN {"max_tokens"} ELSE {}
  PROVE  ProviderInv'
<1> DEFINE call == asked[c]
           p == chain[call.at]
           d == CallOf(call.what, call.model, call.thinking, call.at, Append(call.sent, x),
                       call.chunks, outage, call.answer, call.native, call.cot)
<1>1. call \in ProviderCallRecords /\ CallSane(call)
  BY AskedFields
<1>2. x \in SentRequests /\ x.carries = carries
  BY DEF SentRequests
<1>3. ~x.known
  BY NotKnown, Zenon
<1>4. call.answer = "none" /\ CompleteOK(call, p) /\ ~(Len(call.sent) > 1)
  BY <1>1 DEF UnderWay, CallSane, Retried
<1>5. p = "anthropic" => SecondSane(call, x)
  BY <1>2, <1>3 DEF SecondSane, Provider
<1>6. outage \/ x.carries \cap Parameters
                   \subseteq IF p = "anthropic" THEN {"max_tokens"} ELSE {}
  BY <1>2 DEF Provider
<1> HIDE DEF p
<1>7. /\ d \in ProviderCallRecords /\ CompleteOK(d, p)
      /\ d.what = call.what /\ d.at = call.at /\ d.model = call.model
  BY <1>1, <1>2, <1>4, <1>5, <1>6, RetryIsOK
<1>8. asked' = [asked EXCEPT ![c] = d]
  OBVIOUS
<1> HIDE DEF d
<1>9. CallSane(d)
  BY <1>1, <1>7 DEF CallSane, p
<1> QED
  BY <1>7, <1>8, <1>9, CallMoves

LEMMA RetryFields ==
  ASSUME ProviderInv, NEW c \in Callers, NEW carries, Retry(c, carries)
  PROVE  asked' = [asked EXCEPT ![c] =
                     CallOf(asked[c].what, asked[c].model, asked[c].thinking, asked[c].at,
                            Append(asked[c].sent, [carries |-> carries, known |-> FALSE]),
                            asked[c].chunks, asked[c].outage,
                            asked[c].answer, asked[c].native, asked[c].cot)]
<1> DEFINE call == asked[c]
           s == Append(call.sent, [carries |-> carries, known |-> FALSE])
<1>1. asked' = [asked EXCEPT ![c] = [call EXCEPT !.sent = s]]
  BY DEF Retry
<1> HIDE DEF s
<1>2. [call EXCEPT !.sent = s] =
        CallOf(call.what, call.model, call.thinking, call.at, s, call.chunks, call.outage,
               call.answer, call.native, call.cot)
  BY AskedFields DEF CallOf, ProviderCallRecords
<1> QED
  BY <1>1, <1>2 DEF s
\* The one request that has been sent when complete is not yet retried.
LEMMA FirstRequestSent ==
  ASSUME ProviderInv, NEW c \in Callers, UnderWay(c), asked[c].what = "complete", ~Retried(c)
  PROVE  /\ LastSent(c) = asked[c].sent[1].carries
         /\ LastSent(c) \in SUBSET (Parameters \cup {"cot"})
         /\ Provider(c) \in {"anthropic", "openai"}
         /\ Provider(c) = "anthropic" => FirstSane(asked[c], asked[c].sent[1])
         /\ Provider(c) = "openai" => "thinking" \notin LastSent(c)
<1> DEFINE call == asked[c]
<1>1. CallSane(call) /\ call.sent \in Seq(SentRequests) /\ call.answer = "none"
  BY AskedFields DEF UnderWay
<1>2. CompleteOK(call, Provider(c)) /\ Provider(c) \in {"anthropic", "openai"}
  BY <1>1, ChainFacts DEF CallSane, Provider, ProviderInv
<1>3. Len(call.sent) = 1
  BY <1>1, <1>2, SMTT(30) DEF CompleteOK, Retried
<1>4. Last(call.sent) = call.sent[1] /\ call.sent[1] \in SentRequests
  BY <1>1, <1>3 DEF Last
<1> QED
  BY <1>2, <1>3, <1>4 DEF CompleteOK, LastSent, SentRequests

LEMMA LearnStep == \A c \in Callers : ProviderInv /\ LearnTemperature(c) => ProviderInv'
<1> SUFFICES ASSUME NEW c \in Callers, ProviderInv, LearnTemperature(c) PROVE ProviderInv'
  OBVIOUS
<1> DEFINE call == asked[c]
           carries == LastSent(c) \ {"temperature"}
           x == [carries |-> carries, known |-> FALSE]
<1>1. UnderWay(c) /\ call.what = "complete" /\ ~Retried(c) /\ Provider(c) = "anthropic"
      /\ "temperature" \in LastSent(c) /\ "temperature" \in Refuses[call.model]
      /\ chain' = chain /\ rejected' = rejected \cup {call.model}
  BY DEF LearnTemperature, Rejects
<1>2. Retry(c, carries)
  BY DEF LearnTemperature, Without
<1>3. FirstSane(call, call.sent[1]) /\ LastSent(c) = call.sent[1].carries
      /\ LastSent(c) \in SUBSET (Parameters \cup {"cot"})
  BY <1>1, FirstRequestSent
<1>4. /\ carries \in SUBSET (Parameters \cup {"cot"}) /\ ~call.thinking
      /\ "thinking" \notin carries /\ "cot" \notin carries
      /\ carries \cap Parameters \subseteq {"max_tokens"}
  BY <1>1, <1>3 DEF FirstSane, Parameters
<1>5. call.model \in Models
  BY <1>1, AskedFields DEF CallSane
<1>6. rejected' \subseteq {m \in Models : "temperature" \in Refuses[m]}
  BY <1>1, <1>5 DEF ProviderInv
<1>7. call.outage \in BOOLEAN
  BY AskedFields
<1> HIDE DEF carries
<1>8. asked' = [asked EXCEPT ![c] =
                  CallOf(call.what, call.model, call.thinking, call.at, Append(call.sent, x),
                         call.chunks, call.outage, call.answer, call.native, call.cot)]
  BY <1>2, RetryFields
<1> QED
  BY <1>1, <1>4, <1>6, <1>7, <1>8, RetryStep

LEMMA CoTStep == \A c \in Callers : ProviderInv /\ FallBackToCoT(c) => ProviderInv'
<1> SUFFICES ASSUME NEW c \in Callers, ProviderInv, FallBackToCoT(c) PROVE ProviderInv'
  OBVIOUS
<1> DEFINE call == asked[c]
           carries == (LastSent(c) \ {"thinking"}) \cup {"cot"}
           x == [carries |-> carries, known |-> FALSE]
<1>1. UnderWay(c) /\ call.what = "complete" /\ ~Retried(c) /\ Provider(c) = "anthropic"
      /\ "thinking" \in LastSent(c) /\ chain' = chain /\ rejected' = rejected
  BY DEF FallBackToCoT, Rejects
<1>2. Retry(c, carries)
  BY DEF FallBackToCoT, Without
<1>3. FirstSane(call, call.sent[1]) /\ LastSent(c) = call.sent[1].carries
      /\ LastSent(c) \in SUBSET (Parameters \cup {"cot"})
  BY <1>1, FirstRequestSent
<1>4. /\ carries \in SUBSET (Parameters \cup {"cot"}) /\ call.thinking
      /\ "thinking" \notin carries /\ "cot" \in carries
      /\ carries \cap Parameters \subseteq {"max_tokens"}
  BY <1>1, <1>3 DEF FirstSane, Parameters
<1>5. rejected' \subseteq {m \in Models : "temperature" \in Refuses[m]}
  BY <1>1 DEF ProviderInv
<1>6. call.outage \in BOOLEAN
  BY AskedFields
<1> HIDE DEF carries
<1>7. asked' = [asked EXCEPT ![c] =
                  CallOf(call.what, call.model, call.thinking, call.at, Append(call.sent, x),
                         call.chunks, call.outage, call.answer, call.native, call.cot)]
  BY <1>2, RetryFields
<1> QED
  BY <1>1, <1>4, <1>5, <1>6, <1>7, RetryStep

LEMMA DropStep == \A c \in Callers : ProviderInv /\ DropUnsupported(c) => ProviderInv'
<1> SUFFICES ASSUME NEW c \in Callers, ProviderInv, DropUnsupported(c) PROVE ProviderInv'
  OBVIOUS
<1> DEFINE call == asked[c]
           carries == LastSent(c) \ {"temperature", "max_tokens"}
           x == [carries |-> carries, known |-> FALSE]
<1>1. UnderWay(c) /\ call.what = "complete" /\ ~Retried(c) /\ Provider(c) = "openai"
      /\ chain' = chain /\ rejected' = rejected
  BY DEF DropUnsupported, Rejects
<1>2. Retry(c, carries)
  BY DEF DropUnsupported, Without
<1>3. "thinking" \notin LastSent(c) /\ LastSent(c) \in SUBSET (Parameters \cup {"cot"})
  BY <1>1, FirstRequestSent
<1>4. /\ carries \in SUBSET (Parameters \cup {"cot"})
      /\ carries \cap Parameters \subseteq {}
  BY <1>3 DEF Parameters
<1>5. rejected' \subseteq {m \in Models : "temperature" \in Refuses[m]}
  BY <1>1 DEF ProviderInv
<1>6. call.outage \in BOOLEAN
  BY AskedFields
<1> HIDE DEF carries
<1>7. asked' = [asked EXCEPT ![c] =
                  CallOf(call.what, call.model, call.thinking, call.at, Append(call.sent, x),
                         call.chunks, call.outage, call.answer, call.native, call.cot)]
  BY <1>2, RetryFields
<1> QED
  BY <1>1, <1>4, <1>5, <1>6, <1>7, RetryStep

LEMMA InjectStep == \A c \in Callers : ProviderInv /\ InjectCoT(c) => ProviderInv'
<1> SUFFICES ASSUME NEW c \in Callers, ProviderInv, InjectCoT(c) PROVE ProviderInv'
  OBVIOUS
<1> DEFINE call == asked[c]
           carries == LastSent(c) \cup {"cot"}
           x == [carries |-> carries, known |-> FALSE]
           s == Append(call.sent, x)
           o == TRUE
<1>1. UnderWay(c) /\ call.what = "complete" /\ ~Retried(c) /\ Provider(c) = "openai"
      /\ chain' = chain /\ rejected' = rejected
  BY DEF InjectCoT
<1>2. asked' = [asked EXCEPT ![c] = [[call EXCEPT !.sent = s] EXCEPT !.outage = o]] /\ o \in BOOLEAN /\ o
  BY AskedFields DEF InjectCoT, ProviderInv
<1>3. carries \in SUBSET (Parameters \cup {"cot"})
  BY <1>1, FirstRequestSent
<1>4. rejected' \subseteq {m \in Models : "temperature" \in Refuses[m]}
  BY <1>1 DEF ProviderInv
<1> HIDE DEF s, o
<1>5. [call EXCEPT !.sent = s] =
        CallOf(call.what, call.model, call.thinking, call.at, s, call.chunks, call.outage,
               call.answer, call.native, call.cot)
  BY AskedFields DEF CallOf, ProviderCallRecords
<1>6. [CallOf(call.what, call.model, call.thinking, call.at, s, call.chunks, call.outage,
              call.answer, call.native, call.cot) EXCEPT !.outage = o] =
        CallOf(call.what, call.model, call.thinking, call.at, s, call.chunks, o,
               call.answer, call.native, call.cot)
  BY OutageSet
<1> HIDE DEF carries
<1>7. asked' = [asked EXCEPT ![c] =
                  CallOf(call.what, call.model, call.thinking, call.at, Append(call.sent, x),
                         call.chunks, o, call.answer, call.native, call.cot)]
  BY <1>2, <1>5, <1>6 DEF s
<1> QED
  BY <1>1, <1>2, <1>3, <1>4, <1>7, RetryStep

\* A provider is asked for the first time: the request is the first of complete or stream.
LEMMA ReachedIsOK ==
  ASSUME ProviderInv, NEW what \in {"complete", "stream"}, NEW model \in Models,
         NEW thinking \in BOOLEAN, NEW at \in DOMAIN chain, NEW chunks \in Nat,
         NEW outage \in BOOLEAN, NEW native \in BOOLEAN, NEW cot \in BOOLEAN,
         what = "complete" => outage \/ at = 1
  PROVE  LET d == CallOf(what, model, thinking, at,
                         <<Sent(FirstRequest(chain[at], what, model, thinking), model)>>,
                         chunks, outage, "none", native, cot)
         IN  d \in ProviderCallRecords /\ CallSane(d)
<1> DEFINE x == Sent(FirstRequest(chain[at], what, model, thinking), model)
           s == <<x>>
           p == chain[at]
           d == CallOf(what, model, thinking, at, s, chunks, outage, "none", native, cot)
<1>1. /\ x \in SentRequests
      /\ what = "complete" /\ p = "anthropic" =>
           /\ "cot" \notin x.carries /\ ("thinking" \in x.carries <=> thinking)
           /\ x.known \/ thinking => "temperature" \notin x.carries
      /\ p = "openai" => "thinking" \notin x.carries
  BY FirstSent
<1> HIDE DEF x
<1>2. s \in Seq(SentRequests) /\ Len(s) = 1 /\ s[1] = x
  BY <1>1
<1>3. at \in {1, 2}
  BY ChainFacts DEF ProviderInv
<1> HIDE DEF s, p
<1>4. d \in ProviderCallRecords
  BY <1>2, <1>3 DEF CallOf, ProviderCallRecords
<1>5. d.sent = s /\ d.what = what /\ d.at = at /\ d.model = model /\ d.answer = "none"
  BY DEF CallOf
<1>6. (d.outage <=> outage) /\ (d.thinking <=> thinking)
  BY Zenon DEF CallOf
<1> HIDE DEF d
<1>7. d.what = "complete" => CompleteOK(d, p)
  <2> SUFFICES ASSUME what = "complete" PROVE CompleteOK(d, p)
    BY <1>5
  <2>1. p = "anthropic" => FirstSane(d, d.sent[1])
    BY <1>1, <1>2, <1>5, <1>6 DEF FirstSane
  <2>2. p = "openai" => "thinking" \notin d.sent[1].carries
    BY <1>1, <1>2, <1>5
  <2>3. ~d.outage => d.at = 1
    BY <1>5, <1>6
  <2>4. Len(d.sent) = 1
    BY <1>2, <1>5
  <2> QED
    BY <1>5, <2>1, <2>2, <2>3, <2>4 DEF CompleteOK
<1>8. d.at \in DOMAIN chain /\ Len(d.sent) = 1 /\ d.model \in Models /\ chain[d.at] = p
  BY <1>2, <1>5 DEF p
<1>9. CallSane(d)
  BY <1>7, <1>8 DEF CallSane
<1> QED
  BY <1>4, <1>9 DEF d, s, x, p

LEMMA ReachFields ==
  ASSUME NEW what, NEW model, NEW thinking, NEW was, NEW sent, NEW chunks, NEW outage,
         NEW answer, NEW native, NEW cot, NEW at
  PROVE  Reach(CallOf(what, model, thinking, was, sent, chunks, outage, answer, native, cot), at) =
         CallOf(what, model, thinking, at,
                <<Sent(FirstRequest(chain[at], what, model, thinking), model)>>,
                chunks, outage, answer, native, cot)
<1> DEFINE call == CallOf(what, model, thinking, was, sent, chunks, outage, answer, native, cot)
           s == <<Sent(FirstRequest(chain[at], call.what, call.model, call.thinking), call.model)>>
<1>1. Reach(call, at) = [[call EXCEPT !.at = at] EXCEPT !.sent = s]
  <2> HIDE DEF call
  <2> QED
    BY DEF Reach
<1>2. call.what = what /\ call.model = model /\ call.thinking = thinking
  BY DEF CallOf
<1>3. [call EXCEPT !.at = at] =
        CallOf(what, model, thinking, at, sent, chunks, outage, answer, native, cot)
  BY DEF CallOf
<1> HIDE DEF s
<1>4. [CallOf(what, model, thinking, at, sent, chunks, outage, answer, native, cot)
         EXCEPT !.sent = s] =
      CallOf(what, model, thinking, at, s, chunks, outage, answer, native, cot)
  BY DEF CallOf
<1> QED
  BY <1>1, <1>2, <1>3, <1>4 DEF s

LEMMA CallStep == \A c \in Callers : ProviderInv /\ Call(c) => ProviderInv'
<1> SUFFICES ASSUME NEW c \in Callers, ProviderInv, Call(c) PROVE ProviderInv'
  OBVIOUS
<1>1. PICK what \in {"complete", "stream"}, model \in Models, thinking \in BOOLEAN :
        asked' = [asked EXCEPT ![c] =
           Reach([NoRequestYet EXCEPT !.what = what, !.model = model, !.thinking = thinking], 1)]
  BY DEF Call
<1> DEFINE no == FALSE
           e  == <<>>
<1>2. NoRequestYet = CallOf("nothing", "none", no, 1, e, 0, no, "none", no, no) /\ no \in BOOLEAN
  BY Zenon DEF NoRequestYet, CallOf
<1> HIDE DEF no, e
<1>3. [NoRequestYet EXCEPT !.what = what] = CallOf(what, "none", no, 1, e, 0, no, "none", no, no)
  BY <1>2 DEF CallOf
<1>4. [CallOf(what, "none", no, 1, e, 0, no, "none", no, no) EXCEPT !.model = model]
        = CallOf(what, model, no, 1, e, 0, no, "none", no, no)
  BY DEF CallOf
<1>5. [CallOf(what, model, no, 1, e, 0, no, "none", no, no) EXCEPT !.thinking = thinking]
        = CallOf(what, model, thinking, 1, e, 0, no, "none", no, no)
  BY DEF CallOf
<1>6. [NoRequestYet EXCEPT !.what = what, !.model = model, !.thinking = thinking]
        = CallOf(what, model, thinking, 1, e, 0, no, "none", no, no)
  <2>1. [NoRequestYet EXCEPT !.what = what, !.model = model, !.thinking = thinking]
          = [[[NoRequestYet EXCEPT !.what = what] EXCEPT !.model = model] EXCEPT !.thinking = thinking]
    BY <1>2 DEF CallOf
  <2> QED
    BY <2>1, <1>3, <1>4, <1>5
<1> DEFINE d == CallOf(what, model, thinking, 1,
                       <<Sent(FirstRequest(chain[1], what, model, thinking), model)>>,
                       0, no, "none", no, no)
<1>7. asked' = [asked EXCEPT ![c] = d]
  <2>1. Reach(CallOf(what, model, thinking, 1, e, 0, no, "none", no, no), 1) = d
    BY ReachFields
  <2> HIDE DEF d
  <2> QED
    BY <1>1, <1>6, <2>1
<1>8. d \in ProviderCallRecords /\ CallSane(d)
  BY <1>2, ReachedIsOK, ChainFacts DEF ProviderInv
<1> HIDE DEF d
<1>9. chain' = chain /\ rejected' \subseteq {m \in Models : "temperature" \in Refuses[m]}
  BY DEF Call, ProviderInv
<1> QED
  BY <1>7, <1>8, <1>9, CallMoves

LEMMA TakeStep == \A c \in Callers : ProviderInv /\ Take(c) => ProviderInv'
<1> SUFFICES ASSUME NEW c \in Callers, ProviderInv, Take(c) PROVE ProviderInv'
  OBVIOUS
<1>1. asked' = [asked EXCEPT ![c] = NoRequestYet] /\ chain' = chain /\ rejected' = rejected
  BY DEF Take
<1>2. NoRequestYet \in ProviderCallRecords /\ CallSane(NoRequestYet)
  BY NoRequestYetSane DEF ProviderInv
<1>3. rejected' \subseteq {m \in Models : "temperature" \in Refuses[m]}
  BY <1>1 DEF ProviderInv
<1> HIDE DEF Take
<1> QED
  BY <1>1, <1>2, <1>3, CallMoves

LEMMA ChunkStep == \A c \in Callers : ProviderInv /\ Chunk(c) => ProviderInv'
<1> SUFFICES ASSUME NEW c \in Callers, ProviderInv, Chunk(c) PROVE ProviderInv'
  OBVIOUS
<1> DEFINE call == asked[c]
           d == CallOf(call.what, call.model, call.thinking, call.at, call.sent, call.chunks + 1,
                       call.outage, call.answer, call.native, call.cot)
<1>1. /\ asked' = [asked EXCEPT ![c] = [call EXCEPT !.chunks = call.chunks + 1]]
      /\ chain' = chain /\ rejected' = rejected /\ call.what = "stream" /\ call.answer = "none"
  BY DEF Chunk, UnderWay
<1>2. [call EXCEPT !.chunks = call.chunks + 1] = d
  BY AskedFields DEF CallOf, ProviderCallRecords
<1>3. d \in ProviderCallRecords
  BY AskedFields DEF CallOf, ProviderCallRecords
<1>4. /\ d.what = call.what /\ d.model = call.model /\ d.at = call.at /\ d.sent = call.sent
      /\ d.answer = call.answer
  BY DEF CallOf
<1> HIDE DEF d
<1>5. CallSane(d)
  BY <1>1, <1>4, AskedFields DEF CallSane
<1>6. rejected' \subseteq {m \in Models : "temperature" \in Refuses[m]}
  BY <1>1 DEF ProviderInv
<1> QED
  BY <1>1, <1>2, <1>3, <1>5, <1>6, CallMoves

LEMMA EmbedStep == \A c \in Callers : ProviderInv /\ Embed(c) => ProviderInv'
<1> SUFFICES ASSUME NEW c \in Callers, ProviderInv, Embed(c) PROVE ProviderInv'
  OBVIOUS
<1> DEFINE x == Sent({}, "none")
           no == FALSE
           s == IF chain[1] = "anthropic" THEN <<>> ELSE <<x>>
           a == IF chain[1] = "anthropic" THEN "NotImplementedError" ELSE "none"
           d == CallOf("embed", "none", no, 1, s, 0, no, a, no, no)
<1>1. x \in SentRequests
  BY DEF Sent, SentRequests
<1>2. s \in Seq(SentRequests) /\ Len(s) <= 1 /\ a \in {"none", "NotImplementedError"}
  <2> HIDE DEF x
  <2> QED
    BY <1>1
<1>3. NoRequestYet = CallOf("nothing", "none", no, 1, <<>>, 0, no, "none", no, no) /\ no \in BOOLEAN
  BY Zenon DEF NoRequestYet, CallOf
<1> HIDE DEF no, x
<1>4. asked' = [asked EXCEPT ![c] = d]
  <2>1. CASE chain[1] = "anthropic"
    <3>1. asked' = [asked EXCEPT ![c] = [[NoRequestYet EXCEPT !.what = "embed"]
                                            EXCEPT !.answer = "NotImplementedError"]]
      BY <2>1 DEF Embed
    <3>2. [NoRequestYet EXCEPT !.what = "embed"]
             = CallOf("embed", "none", no, 1, <<>>, 0, no, "none", no, no)
      BY <1>3 DEF CallOf
    <3>3. [CallOf("embed", "none", no, 1, <<>>, 0, no, "none", no, no)
             EXCEPT !.answer = "NotImplementedError"] = d
      BY <2>1 DEF CallOf
    <3> QED
      BY <3>1, <3>2, <3>3
  <2>2. CASE chain[1] # "anthropic"
    <3>1. asked' = [asked EXCEPT ![c] = [[NoRequestYet EXCEPT !.what = "embed"] EXCEPT !.sent = <<x>>]]
      BY <2>2 DEF Embed, x
    <3>2. [NoRequestYet EXCEPT !.what = "embed"]
             = CallOf("embed", "none", no, 1, <<>>, 0, no, "none", no, no)
      BY <1>3 DEF CallOf
    <3>3. [CallOf("embed", "none", no, 1, <<>>, 0, no, "none", no, no) EXCEPT !.sent = <<x>>] = d
      BY <2>2 DEF CallOf
    <3> QED
      BY <3>1, <3>2, <3>3
  <2> QED
    BY <2>1, <2>2
<1> HIDE DEF s, a
<1>5. d \in ProviderCallRecords
  BY <1>2, <1>3 DEF CallOf, ProviderCallRecords
<1>6. d.what = "embed" /\ d.at = 1 /\ d.sent = s
  BY DEF CallOf
<1> HIDE DEF d
<1>7. CallSane(d)
  BY <1>2, <1>6, ChainFacts DEF CallSane, ProviderInv
<1>8. chain' = chain /\ rejected' \subseteq {m \in Models : "temperature" \in Refuses[m]}
  BY DEF Embed, ProviderInv
<1> QED
  BY <1>4, <1>5, <1>7, <1>8, CallMoves

LEMMA RespondStep == \A c \in Callers : ProviderInv /\ Respond(c) => ProviderInv'
<1> SUFFICES ASSUME NEW c \in Callers, ProviderInv, Respond(c) PROVE ProviderInv'
  OBVIOUS
<1> DEFINE call == asked[c]
           p == Provider(c)
           native == call.what = "complete" /\ call.thinking /\ p = "anthropic" /\ ~Retried(c)
           cot == "cot" \in LastSent(c)
           d == CallOf(call.what, call.model, call.thinking, call.at, call.sent, call.chunks,
                       call.outage, "response", native, cot)
<1>1. CallSane(call) /\ call.answer = "none" /\ chain' = chain /\ rejected' = rejected
  BY AskedFields DEF Respond, UnderWay
<1>2. native \in BOOLEAN /\ cot \in BOOLEAN
  OBVIOUS
<1>3. asked' = [asked EXCEPT ![c] = [[[call EXCEPT !.answer = "response"] EXCEPT !.native = native]
                                        EXCEPT !.cot = cot]]
  BY AskedFields DEF Respond, ProviderInv
<1>4. native <=> (call.what = "complete" /\ call.thinking /\ p = "anthropic" /\ ~Retried(c))
  OBVIOUS
<1>5. cot <=> "cot" \in LastSent(c)
  OBVIOUS
<1> HIDE DEF native, cot, p
<1>6. [call EXCEPT !.answer = "response"] =
        CallOf(call.what, call.model, call.thinking, call.at, call.sent, call.chunks,
               call.outage, "response", call.native, call.cot)
  BY AskedFields DEF CallOf, ProviderCallRecords
<1>7. [CallOf(call.what, call.model, call.thinking, call.at, call.sent, call.chunks,
              call.outage, "response", call.native, call.cot) EXCEPT !.native = native] =
        CallOf(call.what, call.model, call.thinking, call.at, call.sent, call.chunks,
               call.outage, "response", native, call.cot)
  BY DEF CallOf
<1>8. [CallOf(call.what, call.model, call.thinking, call.at, call.sent, call.chunks,
              call.outage, "response", native, call.cot) EXCEPT !.cot = cot] = d
  BY DEF CallOf
<1>9. asked' = [asked EXCEPT ![c] = d]
  BY <1>3, <1>6, <1>7, <1>8
<1>10. d \in ProviderCallRecords
  BY <1>2, AskedFields DEF CallOf, ProviderCallRecords
<1>11. /\ d.what = call.what /\ d.model = call.model /\ d.at = call.at /\ d.sent = call.sent
       /\ d.answer = "response"
  BY DEF CallOf
<1>12. (d.outage <=> call.outage) /\ (d.thinking <=> call.thinking)
       /\ (d.native <=> native) /\ (d.cot <=> cot)
  BY <1>2, AskedFields, Zenon DEF CallOf
<1> HIDE DEF d
<1>13. d.what = "complete" => CompleteOK(d, p)
  <2> SUFFICES ASSUME call.what = "complete" PROVE CompleteOK(d, p)
    BY <1>11
  <2>1. CompleteOK(call, p)
    BY <1>1 DEF CallSane, p, Provider
  <2>2. Len(call.sent) \in {1, 2}
    BY <1>1, <2>1 DEF CompleteOK
  <2>3. Len(call.sent) \in {1, 2} /\ (Retried(c) <=> Len(call.sent) = 2)
    <3>1. Retried(c) <=> Len(call.sent) > 1
      BY Zenon DEF Retried
    <3>2. \A n \in {1, 2} : n > 1 <=> n = 2
      OBVIOUS
    <3> QED
      BY <2>2, <3>1, <3>2, Zenon
  <2>4. LastSent(c) = call.sent[Len(call.sent)].carries
    BY <2>3, AskedFields DEF LastSent, Last
  <2>5. p = "anthropic" => FirstSane(call, call.sent[1]) /\ (Len(call.sent) = 2 => SecondSane(call, call.sent[2]))
    BY <2>1, <2>3 DEF CompleteOK
  <2>6. p = "anthropic" => (d.native <=> (d.thinking /\ Len(d.sent) = 1))
    BY <1>4, <1>11, <1>12, <2>3
  <2>7. p = "anthropic" => (d.cot <=> (d.thinking /\ Len(d.sent) = 2))
    BY <1>5, <1>11, <1>12, <2>3, <2>4, <2>5 DEF FirstSane, SecondSane
  <2>8. p = "anthropic" => FirstSane(d, d.sent[1]) /\ (Len(d.sent) = 2 => SecondSane(d, d.sent[2]))
    BY <1>11, <1>12, <2>5 DEF FirstSane, SecondSane
  <2>9. ~d.outage => d.at = 1 /\ (Len(d.sent) = 2 =>
          d.sent[2].carries \cap Parameters \subseteq IF p = "anthropic" THEN {"max_tokens"} ELSE {})
    BY <1>11, <1>12, <2>1 DEF CompleteOK
  <2>10. (p = "openai" /\ Len(d.sent) > 0 => "thinking" \notin d.sent[1].carries)
        /\ Len(d.sent) \in {1, 2} /\ Len(d.sent) <= 2
    BY <1>11, <2>1, <2>3 DEF CompleteOK
  <2> QED
    BY <1>11, <2>6, <2>7, <2>8, <2>9, <2>10 DEF CompleteOK
<1>14. CallSane(d)
  BY <1>1, <1>11, <1>13 DEF CallSane, p, Provider
<1>15. rejected' \subseteq {m \in Models : "temperature" \in Refuses[m]}
  BY <1>1 DEF ProviderInv
<1> QED
  BY <1>1, <1>9, <1>10, <1>14, <1>15, CallMoves

\* complete raises for an outage only.
LEMMA FailureOfComplete ==
  ASSUME ProviderInv, NEW c \in Callers, UnderWay(c), asked[c].what = "complete",
         ~asked[c].outage, ~Absorbed(c, "refused"), NEW parameter \in Parameters,
         Rejects(c, parameter)
  PROVE  FALSE
<1> DEFINE call == asked[c]
<1>1. CallSane(call) /\ call.answer = "none" /\ call.sent \in Seq(SentRequests)
  BY AskedFields DEF UnderWay
<1>2. Retried(c)
  BY DEF Absorbed
<1>3. CompleteOK(call, Provider(c))
  BY <1>1 DEF CallSane, Provider
<1>4. Len(call.sent) = 2
  BY <1>1, <1>2, <1>3 DEF CompleteOK, Retried
<1>5. LastSent(c) = call.sent[2].carries
  BY <1>1, <1>4 DEF LastSent, Last
<1>6. parameter \in LastSent(c) /\ (parameter = "max_tokens" => Provider(c) = "openai")
  BY DEF Rejects
<1>7. call.sent[2].carries \cap Parameters
        \subseteq IF Provider(c) = "anthropic" THEN {"max_tokens"} ELSE {}
  BY <1>3, <1>4 DEF CompleteOK
<1>8. CASE Provider(c) = "anthropic"
  BY <1>5, <1>6, <1>7, <1>8
<1>9. CASE Provider(c) # "anthropic"
  BY <1>5, <1>6, <1>7, <1>9
<1> QED
  BY <1>8, <1>9

LEMMA RaisedIsOK ==
  ASSUME NEW call \in ProviderCallRecords, CallSane(call), call.answer = "none",
         NEW o \in BOOLEAN, call.what = "complete" => o,
         NEW a \in {"retryable", "fatal", "degraded"}
  PROVE  LET d == CallOf(call.what, call.model, call.thinking, call.at, call.sent, call.chunks, o,
                         a, call.native, call.cot)
         IN  d \in ProviderCallRecords /\ CallSane(d)
<1> DEFINE d == CallOf(call.what, call.model, call.thinking, call.at, call.sent, call.chunks, o,
                       a, call.native, call.cot)
           p == chain[call.at]
<1>1. d \in ProviderCallRecords
  BY DEF CallOf, ProviderCallRecords
<1>2. /\ d.what = call.what /\ d.model = call.model /\ d.at = call.at /\ d.sent = call.sent
      /\ d.answer = a
  BY DEF CallOf
<1>3. (d.outage <=> o) /\ (d.thinking <=> call.thinking)
  <2>1. call.thinking \in BOOLEAN
    BY DEF ProviderCallRecords
  <2> QED
    BY <2>1, Zenon DEF CallOf
<1> HIDE DEF d, p
<1>4. d.what = "complete" => CompleteOK(d, p)
  <2> SUFFICES ASSUME call.what = "complete" PROVE CompleteOK(d, p)
    BY <1>2
  <2>1. CompleteOK(call, p)
    BY DEF CallSane, p
  <2>2. p = "anthropic" => /\ Len(d.sent) > 0 => FirstSane(d, d.sent[1])
                           /\ Len(d.sent) = 2 => SecondSane(d, d.sent[2])
    BY <1>2, <1>3, <2>1 DEF CompleteOK, FirstSane, SecondSane
  <2>3. Len(d.sent) <= 2 /\ (p = "openai" /\ Len(d.sent) > 0 => "thinking" \notin d.sent[1].carries)
    BY <1>2, <2>1 DEF CompleteOK
  <2>4. d.outage /\ d.answer \notin {"none", "response"}
    BY <1>2, <1>3
  <2> QED
    BY <2>2, <2>3, <2>4 DEF CompleteOK
<1>5. CallSane(d)
  BY <1>2, <1>4 DEF CallSane, p
<1> QED
  BY <1>1, <1>5 DEF d

LEMMA FailStep == \A c \in Callers : ProviderInv /\ Fail(c) => ProviderInv'
<1> SUFFICES ASSUME NEW c \in Callers, ProviderInv, Fail(c) PROVE ProviderInv'
  OBVIOUS
<1> DEFINE call == asked[c]
<1>1. PICK fault \in {"refused", "busy", "broken"} :
        /\ UnderWay(c) /\ ~Absorbed(c, fault)
        /\ fault = "refused" => \E parameter \in Parameters : Rejects(c, parameter)
        /\ asked' = [asked EXCEPT ![c] =
               RaisedBy([call EXCEPT !.outage = @ \/ fault # "refused"], fault)]
        /\ UNCHANGED <<chain, rejected>>
  BY DEF Fail
<1> DEFINE o == call.outage \/ fault # "refused"
           q == CallOf(call.what, call.model, call.thinking, call.at, call.sent, call.chunks,
                       o, call.answer, call.native, call.cot)
<1>2. o \in BOOLEAN
  OBVIOUS
<1>3. call.what = "complete" => o
  <2> SUFFICES ASSUME call.what = "complete", ~call.outage, fault = "refused" PROVE FALSE
    OBVIOUS
  <2> QED
    BY <1>1, FailureOfComplete
<1>4. /\ call \in ProviderCallRecords /\ CallSane(call) /\ call.answer = "none"
      /\ call.what # "nothing"
  BY <1>1, AskedFields DEF UnderWay
<1>5. asked' = [asked EXCEPT ![c] = RaisedBy([call EXCEPT !.outage = o], fault)]
  BY <1>1
<1> HIDE DEF o
<1>6. [call EXCEPT !.outage = o] = q
  BY <1>4 DEF CallOf, ProviderCallRecords
<1>7. q.what = call.what /\ q.at = call.at
  BY DEF CallOf
<1>8. chain' = chain /\ rejected' \subseteq {m \in Models : "temperature" \in Refuses[m]}
  BY <1>1 DEF ProviderInv
<1>9. asked' = [asked EXCEPT ![c] = RaisedBy(q, fault)]
  BY <1>5, <1>6
<1>10. ASSUME NEW a \in {"retryable", "fatal", "degraded"}, RaisedBy(q, fault) = [q EXCEPT !.answer = a]
       PROVE  ProviderInv'
  <2> DEFINE d == CallOf(call.what, call.model, call.thinking, call.at, call.sent, call.chunks,
                         o, a, call.native, call.cot)
  <2>1. [q EXCEPT !.answer = a] = d
    BY DEF CallOf
  <2>2. d \in ProviderCallRecords /\ CallSane(d)
    BY <1>2, <1>3, <1>4, RaisedIsOK
  <2>3. asked' = [asked EXCEPT ![c] = d]
    BY <1>9, <1>10, <2>1
  <2> HIDE DEF d
  <2> QED
    BY <1>8, <2>2, <2>3, CallMoves
<1>11. CASE q.what # "complete" \/ Len(chain) = 1 \/ Tier(fault) = "fatal"
  <2>1. RaisedBy(q, fault) = [q EXCEPT !.answer = Tier(fault)]
    <3> HIDE DEF q
    <3> QED
      BY <1>11 DEF RaisedBy
  <2>2. Tier(fault) \in {"retryable", "fatal", "degraded"}
    BY DEF Tier
  <2> QED
    BY <1>10, <2>1, <2>2
<1>12. CASE ~(q.what # "complete" \/ Len(chain) = 1 \/ Tier(fault) = "fatal") /\ q.at < Len(chain)
  <2> DEFINE at == q.at + 1
             d == CallOf(call.what, call.model, call.thinking, at,
                         <<Sent(FirstRequest(chain[at], call.what, call.model, call.thinking),
                                call.model)>>,
                         call.chunks, o, call.answer, call.native, call.cot)
  <2>1. RaisedBy(q, fault) = Reach(q, at)
    <3> HIDE DEF q
    <3> QED
      BY <1>12 DEF RaisedBy
  <2>2. at \in DOMAIN chain
    BY <1>4, <1>7, <1>12, ChainFacts DEF ProviderInv, CallSane
  <2> HIDE DEF at
  <2>3. Reach(q, at) = d
    BY ReachFields
  <2>4. d \in ProviderCallRecords /\ CallSane(d)
    <3>1. call.what \in {"complete", "stream"} /\ call.model \in Models /\ call.thinking \in BOOLEAN
          /\ call.chunks \in Nat /\ call.native \in BOOLEAN /\ call.cot \in BOOLEAN
      BY <1>4, <1>7, <1>12 DEF CallSane, ProviderCallRecords
    <3> QED
      BY <1>2, <1>3, <1>4, <2>2, <3>1, ReachedIsOK
  <2>5. asked' = [asked EXCEPT ![c] = d]
    BY <1>9, <2>1, <2>3
  <2> HIDE DEF d
  <2> QED
    BY <1>8, <2>4, <2>5, CallMoves
<1>13. CASE ~(q.what # "complete" \/ Len(chain) = 1 \/ Tier(fault) = "fatal") /\ ~(q.at < Len(chain))
  <2>1. RaisedBy(q, fault) = [q EXCEPT !.answer = "degraded"]
    <3> HIDE DEF q
    <3> QED
      BY <1>13 DEF RaisedBy
  <2> QED
    BY <1>10, <2>1
<1> QED
  BY <1>11, <1>12, <1>13

LEMMA ProviderStep == ProviderInv /\ [ProviderNext]_providerVars => ProviderInv'
<1> SUFFICES ASSUME ProviderInv, [ProviderNext]_providerVars PROVE ProviderInv'
  OBVIOUS
<1>1. CASE UNCHANGED providerVars
  BY <1>1 DEF providerVars, ProviderInv, CallSane
<1>2. CASE ProviderNext
  BY <1>2, CallStep, EmbedStep, LearnStep, CoTStep, DropStep, InjectStep, FailStep, RespondStep,
     ChunkStep, TakeStep DEF ProviderNext
<1> QED
  BY <1>1, <1>2

LEMMA ProviderInvAbsorbs == ProviderInv => RefusalsAreAbsorbed
<1> SUFFICES ASSUME ProviderInv PROVE RefusalsAreAbsorbed
  OBVIOUS
<1>1. \A m \in rejected : "temperature" \in Refuses[m]
  BY DEF ProviderInv
<1>2. ASSUME NEW c \in Callers
      PROVE  LET call == asked[c] IN
          /\ Len(call.sent) <= 2
          /\ call.what = "complete" /\ Provider(c) = "anthropic" =>
                \A n \in DOMAIN call.sent :
                    call.sent[n].known => "temperature" \notin call.sent[n].carries
          /\ call.what = "complete" /\ ~call.outage =>
                call.answer \in {"none", "response"} /\ call.at = 1
          /\ call.answer = "response" /\ call.what = "complete" /\ Provider(c) = "anthropic" =>
                /\ call.thinking <=> call.native \/ call.cot
                /\ ~(call.native /\ call.cot)
                /\ call.native <=> "thinking" \in LastSent(c)
  <2> DEFINE call == asked[c]
             p == Provider(c)
  <2>1. CallSane(call) /\ call.sent \in Seq(SentRequests)
    BY AskedFields
  <2>2. call.what = "complete" => CompleteOK(call, p)
    BY <2>1 DEF CallSane, Provider
  <2> HIDE DEF p
  <2>3. Len(call.sent) <= 2
    BY <2>1, <2>2 DEF CallSane, CompleteOK
  <2>4. call.what = "complete" /\ p = "anthropic" =>
          \A n \in DOMAIN call.sent :
              call.sent[n].known => "temperature" \notin call.sent[n].carries
    <3> SUFFICES ASSUME call.what = "complete", p = "anthropic", NEW n \in DOMAIN call.sent,
                        call.sent[n].known
                 PROVE  "temperature" \notin call.sent[n].carries
      OBVIOUS
    <3>1. n \in {1, 2} /\ Len(call.sent) >= n
      <4>1. DOMAIN call.sent = 1 .. Len(call.sent) /\ Len(call.sent) \in Nat
        BY <2>1
      <4> QED
        BY <2>3, <4>1
    <3>2. n = 2 => Len(call.sent) = 2
      <4>1. Len(call.sent) \in Nat
        BY <2>1
      <4>2. \A k \in Nat : k <= 2 /\ k >= 2 => k = 2
        OBVIOUS
      <4> QED
        BY <2>3, <3>1, <4>1, <4>2, Zenon
    <3>3. CASE n = 1
      BY <2>2, <3>1, <3>3 DEF CompleteOK, FirstSane
    <3>4. CASE n = 2
      BY <2>2, <3>2, <3>4 DEF CompleteOK, SecondSane
    <3> QED
      BY <3>1, <3>3, <3>4
  <2>5. call.what = "complete" /\ ~call.outage => call.answer \in {"none", "response"} /\ call.at = 1
    BY <2>2 DEF CompleteOK
  <2>6. ASSUME call.answer = "response", call.what = "complete", p = "anthropic"
        PROVE  /\ call.thinking <=> call.native \/ call.cot
               /\ ~(call.native /\ call.cot)
               /\ call.native <=> "thinking" \in LastSent(c)
    <3>1. /\ call.native <=> (call.thinking /\ Len(call.sent) = 1)
          /\ call.cot <=> (call.thinking /\ Len(call.sent) = 2)
          /\ Len(call.sent) \in {1, 2}
      BY <2>2, <2>6 DEF CompleteOK
    <3>2. LastSent(c) = call.sent[Len(call.sent)].carries
      BY <2>1, <3>1 DEF LastSent, Last
    <3>3. CASE Len(call.sent) = 1
      <4>1. FirstSane(call, call.sent[1])
        BY <2>2, <2>6, <3>3 DEF CompleteOK
      <4> QED
        BY <3>1, <3>2, <3>3, <4>1 DEF FirstSane
    <3>4. CASE Len(call.sent) = 2
      <4>1. SecondSane(call, call.sent[2])
        BY <2>2, <2>6, <3>4 DEF CompleteOK
      <4> QED
        BY <3>1, <3>2, <3>4, <4>1 DEF SecondSane
    <3> QED
      BY <3>1, <3>3, <3>4
  <2> QED
    BY <2>3, <2>4, <2>5, <2>6 DEF p
<1> QED
  BY <1>1, <1>2 DEF RefusalsAreAbsorbed

\* What a model refuses costs a call of complete one more request and never its answer,
\* however many callers share a provider and whatever models refuse.
THEOREM RefusalsCorrect == ProviderSpec => []RefusalsAreAbsorbed
<1>1. ProviderInit => ProviderInv
  BY ProviderInitial
<1>2. ProviderInv /\ [ProviderNext]_providerVars => ProviderInv'
  BY ProviderStep
<1>3. ProviderInv => RefusalsAreAbsorbed
  BY ProviderInvAbsorbs
<1> QED
  BY <1>1, <1>2, <1>3, PTL DEF ProviderSpec

-----------------------------------------------------------------------------
(***************************************************************************)
(* Batches.                                                                *)
(***************************************************************************)
SlotStates == {"waiting", "running", "cancelling", "answered", "failed", "cancelled"}

BatchTypeOK ==
    /\ batchMode \in {"gather", "openai_batch"} /\ onError \in {"raise", "collect"}
    /\ \E n \in Nat : inputs \in [1 .. n -> GivenIds \cup {NoId}]
    /\ slot \in [Slots -> SlotStates]
    /\ batchResult = NoResultYet \/ batchResult = RaisedAs \/ batchResult.is = "returned"

\* A line of the output file is of one input, and no two are of the same.
LinesAreOfInputs ==
    /\ \E n \in Nat : DOMAIN outputLines = 1 .. n
    /\ \A k \in DOMAIN outputLines :
          /\ outputLines[k].answers \in Slots
          /\ outputLines[k].id = Id(outputLines[k].answers)
    /\ \A k, l \in DOMAIN outputLines : outputLines[k].answers = outputLines[l].answers => k = l

BatchInv ==
    /\ BatchTypeOK /\ LinesAreOfInputs
    /\ batchMode = "openai_batch" => RunsAtWork = {}
    /\ InputsAreAnswered

LEMMA SlotFacts ==
  ASSUME BatchTypeOK
  PROVE  /\ IsFiniteSet(Slots) /\ \A n \in Slots : n \in Nat \ {0}
         /\ IsFiniteSet(RunsAtWork) /\ Cardinality(RunsAtWork) \in Nat
         /\ RunsAtWork \subseteq Slots
<1>1. PICK n \in Nat : inputs \in [1 .. n -> GivenIds \cup {NoId}]
  BY DEF BatchTypeOK
<1>2. Slots = 1 .. n
  BY <1>1 DEF Slots
<1>3. IsFiniteSet(Slots)
  BY <1>2, FS_Interval
<1>4. RunsAtWork \subseteq Slots
  BY DEF RunsAtWork, In
<1>5. IsFiniteSet(RunsAtWork)
  BY <1>3, <1>4, FS_Subset
<1> QED
  BY <1>2, <1>3, <1>4, <1>5, FS_CardinalityType

LEMMA BatchInitial == BatchInit => BatchInv
<1> SUFFICES ASSUME BatchInit PROVE BatchInv
  OBVIOUS
<1>1. PICK n \in 0 .. MaxInputs : inputs \in [1 .. n -> GivenIds \cup {NoId}]
  BY DEF BatchInit
<1>2. n \in Nat
  BY BatchAssumption
<1>3. BatchTypeOK
  BY <1>1, <1>2 DEF BatchInit, BatchTypeOK, SlotStates, ReturnedAs, NoResultYet
<1>4. LinesAreOfInputs
  <2>1. DOMAIN outputLines = 1 .. 0
    BY DEF BatchInit
  <2> QED
    BY <2>1 DEF LinesAreOfInputs
<1>5. RunsAtWork = {}
  BY DEF BatchInit, RunsAtWork, In
<1>6. Cardinality(RunsAtWork) <= MaxConcurrent
  BY <1>5, BatchAssumption, FS_EmptySet
<1>7. batchResult.is = "returned" => Slots = {} /\ batchResult.results = <<>>
  BY DEF BatchInit, ReturnedAs, NoResultYet, Slots
<1>8. InputsAreAnswered
  <2>1. DOMAIN <<>> = {}
    OBVIOUS
  <2>2. batchResult.is = "returned" => DOMAIN batchResult.results = Slots /\ \A m \in Slots : FALSE
    BY <1>7, <2>1
  <2> QED
    BY <1>5, <1>6, <2>2 DEF InputsAreAnswered
<1> QED
  BY <1>3, <1>4, <1>5, <1>8 DEF BatchInv

\* Runs move while there is no result: no more of them than the semaphore lets in.
LEMMA GatherMoves ==
  ASSUME BatchInv, Gathering, slot' \in [Slots -> SlotStates],
         Cardinality(RunsAtWork') <= MaxConcurrent
  PROVE  BatchInv'
<1>1. /\ batchResult' = NoResultYet /\ batchMode' = "gather" /\ inputs' = inputs
      /\ onError' = onError /\ outputLines' = outputLines
  BY DEF Gathering
<1>2. BatchTypeOK'
  BY <1>1 DEF BatchInv, BatchTypeOK, Slots, NoResultYet
<1>3. LinesAreOfInputs'
  BY <1>1 DEF BatchInv, LinesAreOfInputs, Slots, Id
<1>4. Cardinality(RunsAtWork)' <= MaxConcurrent
  OBVIOUS
<1>5. InputsAreAnswered'
  BY <1>1, <1>4 DEF InputsAreAnswered, NoResultYet
<1> QED
  BY <1>1, <1>2, <1>3, <1>5 DEF BatchInv

\* Runs that end are at work no longer.
LEMMA GatherShrinks ==
  ASSUME BatchInv, Gathering, slot' \in [Slots -> SlotStates], RunsAtWork' \subseteq RunsAtWork
  PROVE  BatchInv'
<1>1. IsFiniteSet(RunsAtWork)
  BY SlotFacts DEF BatchInv
<1>2. IsFiniteSet(RunsAtWork') /\ Cardinality(RunsAtWork') <= Cardinality(RunsAtWork)
  BY <1>1, FS_Subset
<1>3. Cardinality(RunsAtWork) \in Nat /\ Cardinality(RunsAtWork') \in Nat
  BY <1>1, <1>2, FS_CardinalityType
<1>4. Cardinality(RunsAtWork) <= MaxConcurrent
  BY DEF BatchInv, InputsAreAnswered
<1>5. Cardinality(RunsAtWork') <= MaxConcurrent
  BY <1>2, <1>3, <1>4, BatchAssumption
<1> QED
  BY <1>5, GatherMoves

LEMMA EnterStep == \A n \in Slots : BatchInv /\ Enter(n) => BatchInv'
<1> SUFFICES ASSUME NEW n \in Slots, BatchInv, Enter(n) PROVE BatchInv'
  OBVIOUS
<1>1. slot \in [Slots -> SlotStates] /\ slot' = [slot EXCEPT ![n] = "running"] /\ slot[n] = "waiting"
      /\ Gathering /\ inputs' = inputs
  BY DEF BatchInv, BatchTypeOK, Enter, Gathering, In
<1>2. slot' \in [Slots -> SlotStates]
  BY <1>1 DEF SlotStates
<1>3. Slots' = Slots
  BY <1>1 DEF Slots
<1>4. RunsAtWork' = RunsAtWork \cup {n} /\ n \notin RunsAtWork
  BY <1>1, <1>3 DEF RunsAtWork, In
<1>5. IsFiniteSet(RunsAtWork) /\ Cardinality(RunsAtWork) \in Nat
  BY SlotFacts DEF BatchInv
<1>6. Cardinality(RunsAtWork') = Cardinality(RunsAtWork) + 1
  BY <1>4, <1>5, FS_AddElement
<1>7. Cardinality(RunsAtWork) < MaxConcurrent
  BY DEF Enter
<1>8. Cardinality(RunsAtWork') <= MaxConcurrent
  BY <1>5, <1>6, <1>7, BatchAssumption
<1> QED
  BY <1>1, <1>2, <1>8, GatherMoves

LEMMA RunSteps ==
  \A n \in Slots : BatchInv /\ (RunReturns(n) \/ RunRaises(n) \/ RunEnds(n)) => BatchInv'
<1> SUFFICES ASSUME NEW n \in Slots, BatchInv, RunReturns(n) \/ RunRaises(n) \/ RunEnds(n)
             PROVE  BatchInv'
  OBVIOUS
<1>1. Gathering /\ slot \in [Slots -> SlotStates]
  BY DEF RunReturns, RunRaises, RunEnds, BatchInv, BatchTypeOK
<1>2. Slots' = Slots
  BY <1>1 DEF Gathering, Slots
<1>3. CASE \E status \in {"answered", "failed", "cancelled"} : slot' = [slot EXCEPT ![n] = status]
  <2>1. slot' \in [Slots -> SlotStates]
    BY <1>1, <1>3 DEF SlotStates
  <2>2. RunsAtWork' \subseteq RunsAtWork
    BY <1>1, <1>2, <1>3 DEF RunsAtWork, In
  <2> QED
    BY <1>1, <2>1, <2>2, GatherShrinks
<1>4. CASE slot' = CancelRest(n)
  <2>1. slot' \in [Slots -> SlotStates]
    BY <1>1, <1>4 DEF SlotStates, CancelRest
  <2>2. RunsAtWork' \subseteq RunsAtWork
    BY <1>1, <1>2, <1>4 DEF RunsAtWork, In, CancelRest
  <2> QED
    BY <1>1, <2>1, <2>2, GatherShrinks
<1> QED
  BY <1>3, <1>4 DEF RunReturns, RunRaises, RunEnds

LEMMA GatherEndsStep == BatchInv /\ GatherEnds => BatchInv'
<1> SUFFICES ASSUME BatchInv, GatherEnds PROVE BatchInv'
  OBVIOUS
<1> DEFINE results == [n \in Slots |-> IF slot[n] = "failed" THEN Error(Id(n)) ELSE Answer(Id(n), n)]
<1>1. /\ batchMode' = "gather" /\ inputs' = inputs /\ onError' = onError /\ slot' = slot
      /\ outputLines' = outputLines /\ onError \in {"raise", "collect"}
  BY DEF GatherEnds, BatchInv, BatchTypeOK
<1>2. RunsAtWork = {} /\ RunsAtWork' = {}
  BY <1>1 DEF GatherEnds, RunsAtWork, In, Slots
<1>3. \/ batchResult' = RaisedAs
      \/ /\ batchResult' = ReturnedAs(results)
         /\ onError = "raise" => In("failed") = {}
  BY DEF GatherEnds
<1>4. BatchTypeOK'
  BY <1>1, <1>3 DEF BatchInv, BatchTypeOK, Slots, ReturnedAs
<1>5. LinesAreOfInputs'
  BY <1>1 DEF BatchInv, LinesAreOfInputs, Slots, Id
<1>6. Cardinality(RunsAtWork)' <= MaxConcurrent
  BY <1>2, FS_EmptySet, BatchAssumption
<1>7. CASE batchResult' = RaisedAs
  <2>1. batchResult'.is # "returned"
    BY <1>7 DEF RaisedAs
  <2> QED
    BY <1>1, <1>2, <1>4, <1>5, <1>6, <2>1 DEF BatchInv, InputsAreAnswered
<1>8. CASE batchResult' = ReturnedAs(results) /\ (onError = "raise" => In("failed") = {})
  <2>1. batchResult'.results = results
    BY <1>8 DEF ReturnedAs
  <2>2. Slots' = Slots /\ \A n : Id(n)' = Id(n)
    BY <1>1 DEF Slots, Id
  <2>3. DOMAIN results = Slots
    OBVIOUS
  <2>4. ASSUME NEW n \in Slots
        PROVE  /\ results[n].id = Id(n)
               /\ results[n].answers # 0 => results[n].answers = n
               /\ results[n].answers = 0 => onError = "collect" /\ slot[n] = "failed"
    <3>1. n # 0
      BY <2>4, SlotFacts DEF BatchInv
    <3> QED
      BY <1>1, <1>8, <2>4, <3>1 DEF Error, Answer, In
  <2> HIDE DEF results
  <2>5. InputsAreAnswered'
    BY <1>1, <1>2, <1>6, <2>1, <2>2, <2>3, <2>4 DEF InputsAreAnswered
  <2> QED
    BY <1>1, <1>2, <1>4, <1>5, <2>5 DEF BatchInv
<1> QED
  BY <1>3, <1>7, <1>8

\* A step of the job that gives no result, or raises.
LEMMA JobGoesOn ==
  ASSUME BatchInv, NEW from, NEW to, Goes(from, to), LinesAreOfInputs',
         batchResult' = NoResultYet \/ batchResult' = RaisedAs
  PROVE  BatchInv'
<1>1. /\ batchMode' = "openai_batch" /\ inputs' = inputs /\ onError' = onError /\ slot' = slot
      /\ batchMode = "openai_batch"
  BY DEF Goes
<1>2. RunsAtWork = {} /\ RunsAtWork' = {}
  BY <1>1 DEF BatchInv, RunsAtWork, In, Slots
<1>3. BatchTypeOK'
  BY <1>1 DEF BatchInv, BatchTypeOK, Slots
<1>4. Cardinality(RunsAtWork)' <= MaxConcurrent
  BY <1>2, FS_EmptySet, BatchAssumption
<1>5. batchResult'.is # "returned"
  BY DEF RaisedAs, NoResultYet
<1>6. InputsAreAnswered'
  BY <1>2, <1>4, <1>5 DEF InputsAreAnswered
<1> QED
  BY <1>1, <1>2, <1>3, <1>6 DEF BatchInv

LEMMA JobSteps ==
  BatchInv /\ (Upload \/ Create \/ Sleep \/ Wake \/ PollEnds \/ ClientRaises) => BatchInv'
<1> SUFFICES ASSUME BatchInv, Upload \/ Create \/ Sleep \/ Wake \/ PollEnds \/ ClientRaises
             PROVE  BatchInv'
  OBVIOUS
<1>1. /\ \E from, to : Goes(from, to)
      /\ outputLines' = outputLines
      /\ batchResult' = NoResultYet \/ batchResult' = RaisedAs
  BY DEF Upload, Create, Sleep, Wake, PollEnds, ClientRaises, KeepResult, Goes
<1>2. PICK from, to : Goes(from, to)
  BY <1>1
<1>3. LinesAreOfInputs'
  BY <1>1, <1>2 DEF Goes, BatchInv, LinesAreOfInputs, Slots, Id
<1> QED
  BY <1>1, <1>2, <1>3, JobGoesOn

LEMMA DownloadStep == BatchInv /\ Download => BatchInv'
<1> SUFFICES ASSUME BatchInv, Download PROVE BatchInv'
  OBVIOUS
<1>1. Goes("completed", "read") /\ batchResult' = NoResultYet /\ inputs' = inputs
  BY DEF Download, Goes
<1>2. PICK ps \in SUBSET Slots :
        outputLines' \in {[k \in 1 .. Cardinality(ps) |->
                            [id |-> Id(order[k]), answers |-> order[k], err |-> order[k] \in bad]]
                         : order \in SetToSeqs(ps), bad \in SUBSET ps}
  BY SMTT(30) DEF Download, Files
<1>3. PICK order \in SetToSeqs(ps), bad \in SUBSET ps :
        outputLines' = [k \in 1 .. Cardinality(ps) |->
                          [id |-> Id(order[k]), answers |-> order[k], err |-> order[k] \in bad]]
  BY <1>2, SMTT(30)
<1>4. IsFiniteSet(ps)
  BY SlotFacts, FS_Subset DEF BatchInv
<1>5. Cardinality(ps) \in Nat
  BY <1>4, FS_CardinalityType
<1>6. /\ order \in [1 .. Cardinality(ps) -> ps]
      /\ \A i, j \in 1 .. Cardinality(ps) : i # j => order[i] # order[j]
  BY DEF SetToSeqs
<1>7. DOMAIN outputLines' = 1 .. Cardinality(ps)
  BY <1>3
<1>8. ASSUME NEW k \in DOMAIN outputLines'
      PROVE  /\ outputLines'[k].answers = order[k] /\ order[k] \in Slots
             /\ outputLines'[k].id = Id(order[k]) /\ k \in 1 .. Cardinality(ps)
  BY <1>3, <1>6, <1>7, <1>8
<1>9. Slots' = Slots /\ \A n : Id(n)' = Id(n)
  BY <1>1 DEF Slots, Id
<1>10. LinesAreOfInputs'
  BY <1>5, <1>6, <1>7, <1>8, <1>9 DEF LinesAreOfInputs
<1> QED
  BY <1>1, <1>10, JobGoesOn

\* The last of the lines that have an id.
LEMMA LastLine ==
  ASSUME NEW n \in Nat, NEW P \in SUBSET (1 .. n), P # {}
  PROVE  Max(P) \in P
<1> DEFINE R == OpToRel(<, Nat)
           Q == {n - i : i \in P}
<1>1. IsWellFoundedOn(R, Nat)
  BY NatLessThanWellFounded
<1>2. \A x, y \in Nat : x < y => <<x, y>> \in R
  BY DEF OpToRel
<1> HIDE DEF R
<1>3. \A i \in P : i \in Nat /\ n - i \in Nat /\ n - i \in Q
  OBVIOUS
<1>4. Q \subseteq Nat /\ Q # {}
  BY <1>3
<1>5. PICK q \in Q : \A y \in Q : ~(<<y, q>> \in R)
  BY <1>1, <1>4, WFMin
<1>6. PICK p \in P : q = n - p
  OBVIOUS
<1> HIDE DEF Q
<1>7. ASSUME NEW i \in P PROVE p >= i
  <2>1. ~(n - i < n - p)
    BY <1>2, <1>3, <1>5, <1>6
  <2> QED
    BY <1>3, <2>1
<1> QED
  BY <1>7 DEF Max

\* An item is the answer of a good line with the id of its input, or an error; and there
\* is none only if no good line answers an input that has its id alone.
LEMMA ItemIsOfLines ==
  ASSUME BatchInv, NEW n \in Slots
  PROVE  /\ Item(n).id = Id(n)
         /\ Item(n).answers = 0 => Item(n) = Error(Id(n))
         /\ Item(n).answers # 0 => /\ Id(Item(n).answers) = Id(n)
                                   /\ OnlyOneWithItsId(n) => Item(n).answers = n
         /\ Item(n).answers = 0 /\ OnlyOneWithItsId(n) =>
               \A k \in DOMAIN outputLines : outputLines[k].answers = n => outputLines[k].err
<1> DEFINE of   == {k \in DOMAIN outputLines : outputLines[k].id = Id(n)}
           line == outputLines[Max(of)]
<1>1. PICK m \in Nat : DOMAIN outputLines = 1 .. m
  BY DEF BatchInv, LinesAreOfInputs
<1>2. of # {} => Max(of) \in of
  <2>1. of \in SUBSET (1 .. m)
    BY <1>1
  <2> QED
    BY <2>1, LastLine
<1>3. Item(n) = IF of = {} \/ line.err THEN Error(Id(n)) ELSE Answer(Id(n), line.answers)
  BY DEF Item
<1>4. \A k \in DOMAIN outputLines : /\ outputLines[k].answers \in Slots
                                    /\ outputLines[k].id = Id(outputLines[k].answers)
  BY DEF BatchInv, LinesAreOfInputs
<1>5. \A p \in Slots : p # 0
  BY SlotFacts DEF BatchInv
<1>6. ASSUME of # {}
      PROVE  line.answers \in Slots /\ Id(line.answers) = Id(n) /\ line.answers # 0
  BY <1>2, <1>4, <1>5, <1>6
<1>7. ASSUME OnlyOneWithItsId(n), NEW k \in DOMAIN outputLines, outputLines[k].answers = n
      PROVE  of # {} /\ line = outputLines[k]
  <2>1. k \in of
    BY <1>4, <1>7
  <2>2. \A l \in of : outputLines[l].answers = n
    BY <1>4, <1>7 DEF OnlyOneWithItsId
  <2>3. \A l \in of : l = k
    BY <1>7, <2>2 DEF BatchInv, LinesAreOfInputs
  <2> QED
    BY <1>2, <2>1, <2>3
<1> HIDE DEF of, line
<1>8. CASE of = {} \/ line.err
  <2>1. Item(n).id = Id(n) /\ Item(n).answers = 0 /\ Item(n) = Error(Id(n))
    BY <1>3, <1>8 DEF Error
  <2> QED
    BY <1>7, <1>8, <2>1
<1>9. CASE ~(of = {} \/ line.err)
  <2>1. Item(n).id = Id(n) /\ Item(n).answers = line.answers
    BY <1>3, <1>9 DEF Answer
  <2>2. line.answers \in Slots /\ Id(line.answers) = Id(n) /\ line.answers # 0
    BY <1>6, <1>9
  <2> QED
    BY <2>1, <2>2 DEF OnlyOneWithItsId
<1> QED
  BY <1>8, <1>9

LEMMA BuildStep == BatchInv /\ BuildResults => BatchInv'
<1> SUFFICES ASSUME BatchInv, BuildResults PROVE BatchInv'
  OBVIOUS
<1> DEFINE items == [n \in Slots |-> Item(n)]
           bad   == \E n \in Slots : items[n] = Error(Id(n))
<1>1. /\ batchMode = "openai_batch" /\ batchMode' = "openai_batch" /\ inputs' = inputs
      /\ onError' = onError /\ slot' = slot /\ outputLines' = outputLines
      /\ Goes("read", "built") /\ onError \in {"raise", "collect"}
  BY DEF BuildResults, Goes, BatchInv, BatchTypeOK
<1>2. batchResult' = IF bad /\ onError = "raise" THEN RaisedAs ELSE ReturnedAs(items)
  BY DEF BuildResults
<1>3. LinesAreOfInputs'
  BY <1>1 DEF BatchInv, LinesAreOfInputs, Slots, Id
<1>4. CASE bad /\ onError = "raise"
  BY <1>1, <1>2, <1>3, <1>4, JobGoesOn
<1>5. CASE ~(bad /\ onError = "raise")
  <2>1. batchResult'.results = items /\ batchResult'.is = "returned"
    BY <1>2, <1>5 DEF ReturnedAs
  <2>2. RunsAtWork = {} /\ RunsAtWork' = {}
    BY <1>1 DEF BatchInv, RunsAtWork, In, Slots
  <2>3. BatchTypeOK'
    BY <1>1, <2>1 DEF BatchInv, BatchTypeOK, Slots
  <2>4. Cardinality(RunsAtWork)' <= MaxConcurrent
    BY <2>2, FS_EmptySet, BatchAssumption
  <2>5. Slots' = Slots /\ (\A n : Id(n)' = Id(n)) /\ (\A n : OnlyOneWithItsId(n)' <=> OnlyOneWithItsId(n))
    BY <1>1 DEF Slots, Id, OnlyOneWithItsId
  <2>6. ASSUME NEW n \in Slots
        PROVE  /\ items[n].id = Id(n)
               /\ items[n].answers # 0 => /\ Id(items[n].answers) = Id(n)
                                          /\ OnlyOneWithItsId(n) => items[n].answers = n
               /\ items[n].answers = 0 =>
                     /\ onError = "collect"
                     /\ OnlyOneWithItsId(n) => \A k \in DOMAIN outputLines :
                            outputLines[k].answers = n => outputLines[k].err
    <3>1. items[n] = Item(n)
      BY <2>6
    <3>2. items[n].answers = 0 => onError = "collect"
      BY <1>1, <1>5, <2>6, <3>1, ItemIsOfLines
    <3> QED
      BY <3>1, <3>2, ItemIsOfLines
  <2>7. DOMAIN items = Slots
    OBVIOUS
  <2> HIDE DEF items
  <2>8. InputsAreAnswered'
    BY <1>1, <2>1, <2>2, <2>4, <2>5, <2>6, <2>7 DEF InputsAreAnswered
  <2> QED
    BY <1>1, <1>3, <2>2, <2>3, <2>8 DEF BatchInv
<1> QED
  BY <1>4, <1>5

LEMMA BatchStep == BatchInv /\ [BatchNext]_batchVars => BatchInv'
<1> SUFFICES ASSUME BatchInv, [BatchNext]_batchVars PROVE BatchInv'
  OBVIOUS
<1>1. CASE UNCHANGED batchVars
  <2> USE <1>1 DEF batchVars
  <2>1. /\ Slots' = Slots /\ RunsAtWork' = RunsAtWork /\ (\A n : Id(n)' = Id(n))
        /\ \A n : OnlyOneWithItsId(n)' <=> OnlyOneWithItsId(n)
    BY DEF Slots, RunsAtWork, In, Id, OnlyOneWithItsId
  <2>2. BatchTypeOK'
    BY <2>1 DEF BatchInv, BatchTypeOK
  <2>3. LinesAreOfInputs'
    BY <2>1 DEF BatchInv, LinesAreOfInputs
  <2>4. Cardinality(RunsAtWork)' <= MaxConcurrent
    BY <2>1 DEF BatchInv, InputsAreAnswered
  <2>5. InputsAreAnswered'
    BY <2>1, <2>4 DEF BatchInv, InputsAreAnswered
  <2> QED
    BY <2>1, <2>2, <2>3, <2>5 DEF BatchInv
<1>2. CASE BatchNext
  BY <1>2, EnterStep, RunSteps, GatherEndsStep, JobSteps, DownloadStep, BuildStep DEF BatchNext
<1> QED
  BY <1>1, <1>2

\* The results of a batch are those of its inputs, for any list of inputs, any number of
\* runs at once and any order of the output file.
THEOREM BatchCorrect == BatchSpec => []InputsAreAnswered
<1>1. BatchInit => BatchInv
  BY BatchInitial
<1>2. BatchInv /\ [BatchNext]_batchVars => BatchInv'
  BY BatchStep
<1>3. BatchInv => InputsAreAnswered
  BY DEF BatchInv
<1> QED
  BY <1>1, <1>2, <1>3, PTL DEF BatchSpec

-----------------------------------------------------------------------------
(***************************************************************************)
(* Strategies, facades and workers.                                        *)
(***************************************************************************)
VerdictsGiven == [passed : BOOLEAN, confidence : 0 .. 100]
Drafts == [said : Said, verdict : VerdictsGiven]
WorkerStates == {Running, Failed, Canceled} \cup {Has(said) : said \in Said}

Loops == {"chain", "react", "evaluator_optimizer", "evaluator", "optimizer"}
SideBySide == {"parallel", "best_of_n"} \cup Grouped

ReasoningTypeOK ==
    /\ drafts \in Seq(Drafts)
    /\ \E n \in Nat : worker \in [1 .. n -> WorkerStates]
    /\ outcome.status \in {"open", "raised", "returned"}
    /\ outcome.status = "open" => outcome = Unanswered
    /\ drafts # <<>> => pattern \in Loops
    /\ worker # <<>> => pattern \in SideBySide
    /\ pattern = "none" => outcome.status # "returned"

\* Who is cancelled had a companion that failed; and best-of-n ends with the first one.
FailuresShow ==
    /\ WorkersAre("cancelled") # {} => pattern \in Grouped /\ WorkersAre("failed") # {}
    /\ pattern = "best_of_n" /\ WorkersAre("failed") # {} => outcome.status = "raised"

\* What is kept as the best is the leader, if there is one.
IsDraft(best, d) == best.said = d.said /\ best.confidence = d.verdict.confidence

BestIsLeader ==
    /\ drafts = <<>> => bestSoFar = NothingBest
    /\ pattern = "evaluator_optimizer" =>
          \/ bestSoFar = NothingBest /\ \A n \in DOMAIN drafts : drafts[n].verdict.confidence = 0
          \/ \E n \in DOMAIN drafts : /\ Leads(n, drafts) /\ IsDraft(bestSoFar, drafts[n])
                                      /\ drafts[n].verdict.confidence > 0
    /\ pattern = "optimizer" /\ drafts # <<>> =>
          \E n \in DOMAIN drafts : Leads(n, drafts) /\ IsDraft(bestSoFar, drafts[n])

\* A loop goes on after drafts that did not end it.
NoneEnded ==
    outcome.status = "open" =>
        /\ \A n \in DOMAIN drafts : ~drafts[n].verdict.passed
        /\ pattern = "react" => \A n \in DOMAIN drafts : drafts[n].said \notin Finals
        /\ refineLog = <<>>

ReasoningInv ==
    ReasoningTypeOK /\ FailuresShow /\ BestIsLeader /\ NoneEnded /\ AnswerIsTheBest

\* What a draft is.
LEMMA DraftsAre ==
  ASSUME NEW ds \in Seq(Drafts)
  PROVE  \A k \in DOMAIN ds :
             /\ ds[k] \in Drafts /\ ds[k].said \in Said /\ ds[k].verdict \in VerdictsGiven
             /\ ds[k].verdict.passed \in BOOLEAN
             /\ ds[k].verdict.confidence \in 0 .. 100 /\ ds[k].verdict.confidence \in Nat
<1> TAKE k \in DOMAIN ds
<1>1. ds[k] \in Drafts
  OBVIOUS
<1>2. ds[k].said \in Said /\ ds[k].verdict \in VerdictsGiven
  BY <1>1 DEF Drafts
<1>3. ds[k].verdict.passed \in BOOLEAN /\ ds[k].verdict.confidence \in 0 .. 100
  BY <1>2 DEF VerdictsGiven
<1>4. \A i \in 0 .. 100 : i \in Nat
  OBVIOUS
<1> QED
  BY <1>1, <1>2, <1>3, <1>4

\* There is one leader at most.
LEMMA OneLeader ==
  ASSUME NEW ds \in Seq(Drafts), NEW n \in DOMAIN ds, Leads(n, ds),
         NEW m \in DOMAIN ds, Leads(m, ds)
  PROVE  m = n
<1>1. n \in Nat \ {0} /\ m \in Nat \ {0}
  OBVIOUS
<1>2. \A k \in DOMAIN ds : ds[k].verdict.confidence \in Nat
  BY DraftsAre
<1>3. ~(m < n)
  <2> SUFFICES ASSUME m < n PROVE FALSE
    OBVIOUS
  <2>1. m \in 1 .. n - 1
    BY <1>1
  <2>2. ds[m].verdict.confidence < ds[n].verdict.confidence
    BY <2>1 DEF Leads
  <2>3. ds[n].verdict.confidence <= ds[m].verdict.confidence
    BY DEF Leads
  <2> QED
    BY <1>2, <2>2, <2>3
<1>4. ~(n < m)
  <2> SUFFICES ASSUME n < m PROVE FALSE
    OBVIOUS
  <2>1. n \in 1 .. m - 1
    BY <1>1
  <2>2. ds[n].verdict.confidence < ds[m].verdict.confidence
    BY <2>1 DEF Leads
  <2>3. ds[m].verdict.confidence <= ds[n].verdict.confidence
    BY DEF Leads
  <2> QED
    BY <1>2, <2>2, <2>3
<1> QED
  BY <1>1, <1>3, <1>4

LEMMA LeaderIs ==
  ASSUME NEW ds \in Seq(Drafts), NEW n \in DOMAIN ds, Leads(n, ds)
  PROVE  (CHOOSE m \in DOMAIN ds : Leads(m, ds)) = n
BY OneLeader

\* How a further draft changes who leads.
LEMMA LeadGoesOn ==
  ASSUME NEW ds \in Seq(Drafts), NEW d \in Drafts, NEW s, s = Append(ds, d)
  PROVE  /\ s \in Seq(Drafts) /\ s # <<>> /\ Len(s) = Len(ds) + 1 /\ Len(s) \in DOMAIN s
         /\ s[Len(s)] = d /\ Last(s) = d
         /\ \A n \in DOMAIN ds : n \in DOMAIN s /\ s[n] = ds[n]
         /\ \A n \in DOMAIN s : n \in DOMAIN ds \/ n = Len(s)
         /\ \A n \in DOMAIN ds : Leads(n, ds) /\ ~(d.verdict.confidence > ds[n].verdict.confidence)
                                    => Leads(n, s)
         /\ \A n \in DOMAIN ds : Leads(n, ds) /\ d.verdict.confidence > ds[n].verdict.confidence
                                    => Leads(Len(s), s)
         /\ d.verdict.confidence > 0 /\ (\A n \in DOMAIN ds : ds[n].verdict.confidence = 0)
               => Leads(Len(s), s)
         /\ ds = <<>> => Leads(Len(s), s)
<1>1. Len(ds) \in Nat /\ DOMAIN ds = 1 .. Len(ds)
  OBVIOUS
<1>2. s \in Seq(Drafts) /\ s # <<>> /\ Len(s) = Len(ds) + 1 /\ s[Len(s)] = d
  <2>1. /\ Append(ds, d) \in Seq(Drafts) /\ Append(ds, d) # <<>> /\ Len(Append(ds, d)) = Len(ds) + 1
        /\ Append(ds, d)[Len(ds) + 1] = d
    BY AppendProperties
  <2> QED
    BY <2>1
<1>3. \A n \in 1 .. Len(ds) : s[n] = ds[n]
  BY AppendProperties
<1>4. DOMAIN s = 1 .. Len(ds) + 1
  BY <1>2
<1>5. Last(s) = d
  BY <1>2 DEF Last
<1> HIDE DEF Drafts
<1>6. \A n \in DOMAIN ds : n \in DOMAIN s /\ s[n] = ds[n]
  BY <1>1, <1>3, <1>4
<1>7. \A n \in DOMAIN s : n \in DOMAIN ds \/ n = Len(s)
  BY <1>1, <1>2, <1>4
<1>8. (\A k \in DOMAIN ds : ds[k].verdict.confidence \in Nat) /\ d.verdict.confidence \in Nat
  <2>1. d.verdict \in VerdictsGiven
    BY DEF Drafts
  <2>2. d.verdict.confidence \in 0 .. 100
    BY <2>1 DEF VerdictsGiven
  <2>3. \A k \in DOMAIN ds : ds[k].verdict.confidence \in Nat
    BY DraftsAre
  <2>4. \A i \in 0 .. 100 : i \in Nat
    OBVIOUS
  <2>5. d.verdict.confidence \in Nat
    BY <2>2, <2>4
  <2> QED
    BY <2>3, <2>5
<1> DEFINE of(k) == ds[k].verdict.confidence
           new   == d.verdict.confidence
<1>9. (\A k \in DOMAIN ds : s[k].verdict.confidence = of(k)) /\ s[Len(s)].verdict.confidence = new
  BY <1>2, <1>6
<1>10. (\A k \in DOMAIN ds : of(k) \in Nat) /\ new \in Nat
  BY <1>8
<1> HIDE DEF of, new
<1>11. ASSUME NEW n \in DOMAIN ds, Leads(n, ds), ~(new > of(n)) PROVE Leads(n, s)
  <2>1. \A k \in DOMAIN ds : of(k) <= of(n)
    BY <1>11 DEF Leads, of
  <2>2. \A k \in 1 .. n - 1 : k \in DOMAIN ds /\ of(k) < of(n)
    BY <1>1, <1>11 DEF Leads, of
  <2>3. \A k \in DOMAIN s : s[k].verdict.confidence <= s[n].verdict.confidence
    BY <1>7, <1>9, <1>10, <1>11, <2>1
  <2>4. \A k \in 1 .. n - 1 : s[k].verdict.confidence < s[n].verdict.confidence
    BY <1>9, <1>11, <2>2
  <2> QED
    BY <2>3, <2>4 DEF Leads
<1>12. ASSUME \A k \in DOMAIN ds : of(k) < new PROVE Leads(Len(s), s)
  <2>1. \A k \in DOMAIN s : s[k].verdict.confidence <= s[Len(s)].verdict.confidence
    BY <1>7, <1>9, <1>10, <1>12
  <2>2. \A k \in 1 .. Len(s) - 1 : k \in DOMAIN ds
    BY <1>1, <1>2
  <2>3. \A k \in 1 .. Len(s) - 1 : s[k].verdict.confidence < s[Len(s)].verdict.confidence
    BY <1>9, <1>12, <2>2
  <2> QED
    BY <2>1, <2>3 DEF Leads
<1>13. ASSUME NEW n \in DOMAIN ds, Leads(n, ds), new > of(n) PROVE Leads(Len(s), s)
  <2>1. \A k \in DOMAIN ds : of(k) <= of(n)
    BY <1>13 DEF Leads, of
  <2>2. \A k \in DOMAIN ds : of(k) < new
    BY <1>10, <1>13, <2>1
  <2> QED
    BY <1>12, <2>2
<1>14. new > 0 /\ (\A k \in DOMAIN ds : of(k) = 0) => Leads(Len(s), s)
  BY <1>10, <1>12
<1>15. ds = <<>> => Leads(Len(s), s)
  BY <1>1, <1>12
<1> QED
  BY <1>1, <1>2, <1>4, <1>5, <1>6, <1>7, <1>11, <1>13, <1>14, <1>15 DEF of, new

-----------------------------------------------------------------------------
\* What a verifier says is a verdict; a pipeline's confidence is one of its results'.
LEMMA VerdictsAreGiven == Verdicts \subseteq VerdictsGiven
<1>1. \A p \in BOOLEAN, c \in 0 .. 100 : Verdict(p, c) \in VerdictsGiven
  BY DEF Verdict, VerdictsGiven
<1>2. Rejected \in VerdictsGiven
  BY DEF Rejected, Verdict, VerdictsGiven
<1>3. Judged \subseteq VerdictsGiven
  <2>1. \A s \in Scores : s \in 0 .. 100 /\ (s >= PassMark) \in BOOLEAN
    BY ReasoningAssumption
  <2>2. \A s \in Scores : Verdict(s >= PassMark, s) \in VerdictsGiven
    BY <1>1, <2>1
  <2> QED
    BY <1>2, <2>2, Zenon DEF Judged
<1>4. \A c \in 0 .. 100 : Verdict(TRUE, c) \in VerdictsGiven /\ Verdict(FALSE, c) \in VerdictsGiven
  BY DEF Verdict, VerdictsGiven
<1>5. {0, 50, 100} \subseteq 0 .. 100
  OBVIOUS
<1>6. Plain \subseteq VerdictsGiven
  <2>1. Verdict(TRUE, 100) \in VerdictsGiven
    BY <1>4, <1>5
  <2> QED
    BY <1>2, <2>1, Zenon DEF Plain
<1>7. Ruled \subseteq VerdictsGiven
  <2>1. \A n \in 1 .. 5 : 100 - 20 * n \in 0 .. 100
    <3> TAKE n \in 1 .. 5
    <3>1. 20 * n <= 100 /\ 20 * n >= 0 /\ 20 * n \in Int
      OBVIOUS
    <3> QED
      BY <3>1
  <2>2. Verdict(TRUE, 100) \in VerdictsGiven /\ Verdict(TRUE, 50) \in VerdictsGiven
    BY <1>4, <1>5
  <2>3. \A n \in 1 .. 5 : Verdict(FALSE, 100 - 20 * n) \in VerdictsGiven
    BY <1>4, <2>1
  <2> QED
    BY <1>2, <2>2, <2>3, Zenon DEF Ruled
<1>8. Solved \subseteq VerdictsGiven
  <2>1. /\ Verdict(TRUE, 100) \in VerdictsGiven /\ Verdict(FALSE, 100) \in VerdictsGiven
        /\ Verdict(FALSE, 50) \in VerdictsGiven
    BY <1>4, <1>5
  <2> QED
    BY <1>2, <2>1, Zenon DEF Solved
<1>9. ASSUME NEW a \in VerdictsGiven, NEW b \in VerdictsGiven
      PROVE  Piped({a, b}) \subseteq VerdictsGiven
  <2> DEFINE cs == {r.confidence : r \in {a, b}}
  <2>1. cs = {a.confidence, b.confidence} /\ a.confidence \in 0 .. 100 /\ b.confidence \in 0 .. 100
    BY DEF VerdictsGiven
  <2>2. \E x \in cs : \A y \in cs : x <= y
    BY <2>1, SMTT(30)
  <2>3. \E x \in cs : \A y \in cs : x >= y
    BY <2>1, SMTT(30)
  <2>4. Min(cs) \in cs /\ Max(cs) \in cs
    BY <2>2, <2>3 DEF Min, Max
  <2>5. Min(cs) \in 0 .. 100 /\ Max(cs) \in 0 .. 100
    BY <2>1, <2>4
  <2>6. (\A r \in {a, b} : r.passed) \in BOOLEAN /\ (\E r \in {a, b} : r.passed) \in BOOLEAN
    OBVIOUS
  <2> HIDE DEF cs
  <2>7. Piped({a, b}) = {Verdict(\A r \in {a, b} : r.passed, Min(cs)),
                         Verdict(\E r \in {a, b} : r.passed, Max(cs))}
    BY DEF Piped, cs
  <2> QED
    BY <1>1, <2>5, <2>6, <2>7
<1> QED
  <2>1. \A a \in Judged, b \in Plain : Piped({a, b}) \subseteq VerdictsGiven
    BY <1>3, <1>6, <1>9
  <2> SUFFICES ASSUME NEW v \in Verdicts PROVE v \in VerdictsGiven
    OBVIOUS
  <2>2. \/ v \in Judged \/ v \in Plain \/ v \in Ruled \/ v \in Solved
        \/ \E a \in Judged, b \in Plain : v \in Piped({a, b})
    BY DEF Verdicts
  <2> QED
    BY <1>3, <1>6, <1>7, <1>8, <2>1, <2>2, Zenon

LEMMA DraftsMade ==
  /\ \A said \in Said, v \in Verdicts : DraftOf(said, v) \in Drafts
  /\ \A said \in Said, v \in Plain : DraftOf(said, v) \in Drafts
  /\ \A said \in Said : DraftOf(said, Rejected) \in Drafts
  /\ \A said \in Said, score \in Scores : DraftOf(said, Verdict(FALSE, score)) \in Drafts
<1>1. \A said \in Said, v \in VerdictsGiven : DraftOf(said, v) \in Drafts
  BY DEF DraftOf, Drafts
<1>2. Plain \subseteq Verdicts /\ Rejected \in Plain
  BY DEF Plain, Verdicts
<1>3. \A score \in Scores : Verdict(FALSE, score) \in VerdictsGiven
  BY ReasoningAssumption DEF Verdict, VerdictsGiven
<1> QED
  BY <1>1, <1>2, <1>3, VerdictsAreGiven

-----------------------------------------------------------------------------
\* Before a pattern has begun there is neither a draft nor a worker.
LEMMA NothingBegun ==
  ASSUME ReasoningTypeOK
  PROVE  /\ pattern \notin Loops => drafts = <<>>
         /\ pattern \notin SideBySide => worker = <<>>
         /\ pattern \in Loops => worker = <<>>
         /\ pattern \in SideBySide => drafts = <<>>
         /\ WorkersAre("running") \subseteq DOMAIN worker
<1>1. \A p \in Loops : p \notin SideBySide
  BY DEF Loops, SideBySide, Grouped
<1> QED
  BY <1>1 DEF ReasoningTypeOK, WorkersAre

LEMMA NoneAtWork ==
  ASSUME worker = <<>>
  PROVE  \A is : WorkersAre(is) = {}
BY DEF WorkersAre

LEMMA ReasoningStarts ==
  ASSUME ReasoningInit
  PROVE  ReasoningInv
<1>1. /\ pattern = "none" /\ drafts = <<>> /\ bestSoFar = NothingBest /\ worker = <<>>
      /\ refineLog = <<>> /\ outcome = Unanswered
  BY DEF ReasoningInit
<1>2. outcome.status = "open"
  BY <1>1 DEF Unanswered
<1>3. ReasoningTypeOK
  <2>1. drafts \in Seq(Drafts)
    BY <1>1
  <2>2. \E n \in Nat : worker \in [1 .. n -> WorkerStates]
    <3>1. worker \in [1 .. 0 -> WorkerStates]
      BY <1>1
    <3> QED
      BY <3>1
  <2> QED
    BY <1>1, <1>2, <2>1, <2>2 DEF ReasoningTypeOK
<1>4. FailuresShow
  BY <1>1, NoneAtWork DEF FailuresShow
<1>5. BestIsLeader /\ NoneEnded
  BY <1>1, <1>2 DEF BestIsLeader, NoneEnded
<1>6. AnswerIsTheBest
  BY <1>1, <1>2, NoneAtWork DEF AnswerIsTheBest, LoopReturnsTheBest, WorkersAreAwaited
<1> QED
  BY <1>3, <1>4, <1>5, <1>6 DEF ReasoningInv

\* A request that is passed on, refused, or answered without a draft and a worker.
LEMMA NothingStarted ==
  ASSUME ReasoningTypeOK, drafts = <<>>, worker = <<>>, bestSoFar = NothingBest,
         refineLog = <<>>, pattern' = "none" => outcome'.status # "returned",
         outcome' = Unanswered \/ (outcome'.status \in {"raised", "returned"}),
         pattern' \notin Grouped \cup {"best_of_n"} \/ outcome'.status # "returned",
         UNCHANGED <<drafts, bestSoFar, worker, refineLog>>
  PROVE  ReasoningInv'
<1>1. outcome'.status \in {"open", "raised", "returned"} /\ (outcome'.status = "open" => outcome' = Unanswered)
  BY DEF Unanswered
<1>2. ReasoningTypeOK'
  BY <1>1 DEF ReasoningTypeOK
<1>3. \A is : WorkersAre(is)' = {}
  BY DEF WorkersAre
<1>4. FailuresShow' /\ BestIsLeader' /\ NoneEnded'
  BY <1>3 DEF FailuresShow, BestIsLeader, NoneEnded
<1>5. AnswerIsTheBest'
  BY <1>3 DEF AnswerIsTheBest, LoopReturnsTheBest, WorkersAreAwaited
<1> QED
  BY <1>2, <1>4, <1>5 DEF ReasoningInv

LEMMA PassedOn ==
  ASSUME ReasoningInv, Handle \/ CallFacade \/ Route \/ RouteByCategory
  PROVE  ReasoningInv'
<1>1. pattern \in {"none", "router", "hierarchical_router"} /\ outcome = Unanswered
  BY DEF Handle, CallFacade, Route, RouteByCategory
<1>2. pattern \notin Loops /\ pattern \notin SideBySide
  BY <1>1 DEF Loops, SideBySide, Grouped
<1>3. drafts = <<>> /\ worker = <<>> /\ bestSoFar = NothingBest /\ refineLog = <<>>
  BY <1>1, <1>2, NothingBegun DEF ReasoningInv, BestIsLeader, NoneEnded, Unanswered
<1>4. outcome' \in {Unanswered, Raised} /\ UNCHANGED <<drafts, bestSoFar, worker, refineLog>>
  BY <1>1 DEF Handle, CallFacade, Route, RouteByCategory
<1>5. Unanswered.status = "open" /\ Raised.status = "raised"
  BY DEF Raised, Unanswered
<1>6. ReasoningTypeOK
  BY DEF ReasoningInv
<1>7. outcome'.status # "returned"
  BY <1>4, <1>5
<1>8. outcome' = Unanswered \/ (outcome'.status \in {"raised", "returned"})
  BY <1>4, <1>5
<1> QED
  BY <1>3, <1>4, <1>6, <1>7, <1>8, NothingStarted

LEMMA AnsweredAtOnce ==
  ASSUME ReasoningInv, DirectAnswer \/ ThinkingAnswer \/ AdaptiveAnswer
  PROVE  ReasoningInv'
<1>1. pattern \in {"direct", "thinking", "adaptive"} /\ outcome = Unanswered /\ pattern' = pattern
  BY DEF DirectAnswer, ThinkingAnswer, AdaptiveAnswer, AtWork, SaidOnce
<1>2. pattern \notin Loops /\ pattern \notin SideBySide /\ pattern # "none"
  BY <1>1 DEF Loops, SideBySide, Grouped
<1>3. drafts = <<>> /\ worker = <<>> /\ bestSoFar = NothingBest /\ refineLog = <<>>
  BY <1>1, <1>2, NothingBegun DEF ReasoningInv, BestIsLeader, NoneEnded, Unanswered
<1>4. /\ \E said, confidence : outcome' = Returned(said, confidence)
      /\ UNCHANGED <<drafts, bestSoFar, worker, refineLog>>
  BY DEF DirectAnswer, ThinkingAnswer, AdaptiveAnswer, AtWork, SaidOnce
<1>5. outcome'.status = "returned"
  BY <1>4 DEF Returned
<1>6. ReasoningTypeOK
  BY DEF ReasoningInv
<1>7. pattern' \notin Grouped \cup {"best_of_n"}
  BY <1>1 DEF Grouped
<1> QED
  BY <1>1, <1>2, <1>3, <1>4, <1>5, <1>6, <1>7, NothingStarted

-----------------------------------------------------------------------------
\* A loop at work has no worker and has ended with none of its drafts.
LEMMA LoopAtWork ==
  ASSUME ReasoningInv, pattern \in Loops, outcome = Unanswered
  PROVE  /\ drafts \in Seq(Drafts) /\ worker = <<>> /\ refineLog = <<>>
         /\ \A n \in DOMAIN drafts : ~drafts[n].verdict.passed
         /\ pattern = "react" => \A n \in DOMAIN drafts : drafts[n].said \notin Finals
<1>1. ReasoningTypeOK /\ NoneEnded /\ outcome.status = "open"
  BY DEF ReasoningInv, Unanswered
<1> QED
  BY <1>1, NothingBegun DEF ReasoningTypeOK, NoneEnded

\* What a further draft leaves as it is, in every loop.
LEMMA DraftAdded ==
  ASSUME ReasoningInv, pattern \in Loops, outcome = Unanswered, NEW d \in Drafts,
         drafts' = Append(drafts, d), UNCHANGED <<pattern, worker>>,
         outcome'.status \in {"open", "returned"},
         outcome'.status = "open" => outcome' = Unanswered /\ ~d.verdict.passed /\ refineLog' = <<>>,
         pattern = "react" /\ d.said \in Finals => outcome'.status # "open"
  PROVE  ReasoningTypeOK' /\ FailuresShow' /\ NoneEnded' /\ WorkersAreAwaited'
<1>1. /\ drafts \in Seq(Drafts) /\ worker = <<>>
      /\ \A n \in DOMAIN drafts : ~drafts[n].verdict.passed
      /\ pattern = "react" => \A n \in DOMAIN drafts : drafts[n].said \notin Finals
  BY LoopAtWork
<1>2. /\ drafts' \in Seq(Drafts) /\ drafts'[Len(drafts')] = d
      /\ \A n \in DOMAIN drafts : n \in DOMAIN drafts' /\ drafts'[n] = drafts[n]
      /\ \A n \in DOMAIN drafts' : n \in DOMAIN drafts \/ n = Len(drafts')
  BY <1>1, LeadGoesOn
<1>3. /\ pattern' = pattern /\ worker' = <<>> /\ pattern # "none"
      /\ pattern \notin Grouped \cup {"best_of_n"}
  BY <1>1 DEF Loops, Grouped
<1>4. \A is : WorkersAre(is)' = {}
  BY <1>3 DEF WorkersAre
<1>5. ReasoningTypeOK'
  BY <1>1, <1>2, <1>3 DEF ReasoningInv, ReasoningTypeOK
<1>6. FailuresShow' /\ WorkersAreAwaited'
  BY <1>3, <1>4 DEF FailuresShow, WorkersAreAwaited
<1>7. ASSUME outcome'.status = "open"
      PROVE  /\ \A n \in DOMAIN drafts' : ~drafts'[n].verdict.passed
             /\ pattern = "react" => \A n \in DOMAIN drafts' : drafts'[n].said \notin Finals
  BY <1>1, <1>2, <1>7
<1>8. NoneEnded'
  BY <1>3, <1>7 DEF NoneEnded
<1> QED
  BY <1>5, <1>6, <1>8

\* A loop that ends with this draft ends with its first one that passes.
LEMMA LoopStops ==
  ASSUME ReasoningInv, pattern \in Loops, outcome = Unanswered, NEW d \in Drafts,
         drafts' = Append(drafts, d)
  PROVE  /\ Last(drafts') = d /\ drafts' # <<>> /\ drafts' \in Seq(Drafts)
         /\ {n \in DOMAIN drafts' : drafts'[n].verdict.passed}
                = IF d.verdict.passed THEN {Len(drafts')} ELSE {}
         /\ pattern = "react" => \A n \in 1 .. Len(drafts') - 1 : drafts'[n].said \notin Finals
<1>1. /\ drafts \in Seq(Drafts)
      /\ \A n \in DOMAIN drafts : ~drafts[n].verdict.passed
      /\ pattern = "react" => \A n \in DOMAIN drafts : drafts[n].said \notin Finals
  BY LoopAtWork
<1>2. /\ \A n \in DOMAIN drafts : n \in DOMAIN drafts' /\ drafts'[n] = drafts[n]
      /\ \A n \in DOMAIN drafts' : n \in DOMAIN drafts \/ n = Len(drafts')
  BY <1>1, LeadGoesOn
<1>3. /\ drafts' \in Seq(Drafts) /\ drafts' # <<>> /\ Last(drafts') = d
      /\ Len(drafts') \in DOMAIN drafts' /\ drafts'[Len(drafts')] = d
  BY <1>1, LeadGoesOn, ZenonT(40)
<1>4. Len(drafts') = Len(drafts) + 1
  BY <1>1, LeadGoesOn
<1>5. {n \in DOMAIN drafts' : drafts'[n].verdict.passed}
         = IF d.verdict.passed THEN {Len(drafts')} ELSE {}
  BY <1>1, <1>2, <1>3
<1>6. \A n \in 1 .. Len(drafts') - 1 : n \in DOMAIN drafts
  BY <1>1, <1>3, <1>4
<1> QED
  BY <1>1, <1>2, <1>3, <1>4, <1>5, <1>6

LEMMA ChainGoesOn ==
  ASSUME ReasoningInv, ChainStep \/ ReactStep
  PROVE  ReasoningInv'
<1>1. /\ pattern \in {"chain", "react"} /\ outcome = Unanswered
      /\ UNCHANGED <<pattern, bestSoFar, worker, refineLog>>
  BY DEF ChainStep, ReactStep, AtWork
<1>2. pattern \in Loops
  BY <1>1 DEF Loops
<1>3. refineLog = <<>>
  BY <1>1, <1>2, LoopAtWork
<1>4. PICK said \in Said :
         /\ drafts' = Append(drafts, DraftOf(said, Rejected))
         /\ \/ outcome' = outcome /\ (pattern = "react" => said \notin Finals)
            \/ \E confidence : outcome' = Returned(said, confidence)
  BY <1>1 DEF ChainStep, ReactStep, AtWork
<1> DEFINE d == DraftOf(said, Rejected)
<1>5. d \in Drafts /\ d.said = said /\ ~d.verdict.passed
  BY DraftsMade DEF DraftOf, Rejected, Verdict
<1> HIDE DEF d
<1>6. drafts' = Append(drafts, d)
  BY <1>4 DEF d
<1>7. \/ outcome' = Unanswered /\ outcome'.status = "open" /\ (pattern = "react" => said \notin Finals)
      \/ outcome'.status = "returned" /\ outcome'.content = said
  BY <1>1, <1>4 DEF Returned, Unanswered
<1>8. ReasoningTypeOK' /\ FailuresShow' /\ NoneEnded' /\ WorkersAreAwaited'
  BY <1>1, <1>2, <1>3, <1>5, <1>6, <1>7, DraftAdded
<1>9. /\ Last(drafts') = d /\ drafts' # <<>>
      /\ {n \in DOMAIN drafts' : drafts'[n].verdict.passed} = {}
      /\ pattern = "react" => \A n \in 1 .. Len(drafts') - 1 : drafts'[n].said \notin Finals
  BY <1>1, <1>2, <1>5, <1>6, LoopStops
<1>10. BestIsLeader'
  BY <1>1, <1>9 DEF BestIsLeader
<1>11. LoopReturnsTheBest'
  BY <1>1, <1>5, <1>7, <1>9 DEF LoopReturnsTheBest
<1> QED
  BY <1>8, <1>10, <1>11 DEF ReasoningInv, AnswerIsTheBest

LEMMA EvaluatorGoesOn ==
  ASSUME ReasoningInv, EvaluatorRound
  PROVE  ReasoningInv'
<1>1. /\ pattern = "evaluator" /\ outcome = Unanswered
      /\ UNCHANGED <<pattern, bestSoFar, worker>>
  BY DEF EvaluatorRound, AtWork
<1>2. pattern \in Loops
  BY <1>1 DEF Loops
<1>3. refineLog = <<>> /\ drafts \in Seq(Drafts)
  BY <1>1, <1>2, LoopAtWork
<1>4. PICK said \in Said, verdict \in Plain :
         /\ drafts' = Append(drafts, DraftOf(said, verdict))
         /\ IF verdict.passed \/ LastRound
            THEN outcome' = Returned(said, 0) /\ refineLog' = Refined(verdict)
            ELSE UNCHANGED <<outcome, refineLog>>
  BY DEF EvaluatorRound
<1> DEFINE d == DraftOf(said, verdict)
<1>5. d \in Drafts /\ d.said = said /\ d.verdict = verdict
  BY DraftsMade DEF DraftOf
<1> HIDE DEF d
<1>6. drafts' = Append(drafts, d)
  BY <1>4 DEF d
<1>7. \/ outcome' = Unanswered /\ outcome'.status = "open" /\ ~verdict.passed /\ refineLog' = <<>>
      \/ outcome'.status = "returned" /\ outcome'.content = said /\ refineLog' = Refined(verdict)
  BY <1>1, <1>3, <1>4 DEF Returned, Unanswered
<1>8. ReasoningTypeOK' /\ FailuresShow' /\ NoneEnded' /\ WorkersAreAwaited'
  BY <1>1, <1>2, <1>5, <1>6, <1>7, DraftAdded
<1>9. /\ Last(drafts') = d /\ drafts' # <<>>
      /\ {n \in DOMAIN drafts' : drafts'[n].verdict.passed}
            = IF verdict.passed THEN {Len(drafts')} ELSE {}
  BY <1>1, <1>2, <1>5, <1>6, LoopStops
<1>10. BestIsLeader'
  BY <1>1, <1>9 DEF BestIsLeader
<1>11. ASSUME refineLog' = Refined(verdict)
       PROVE  /\ Len(refineLog') = (IF drafts'[1].verdict.passed THEN 0 ELSE 1)
              /\ \A e \in ToSet(refineLog') : e.refine_count = Cardinality(DOMAIN drafts' \
                     {n \in DOMAIN drafts' : drafts'[n].verdict.passed})
  <2> DEFINE failures == Len(drafts) + (IF verdict.passed THEN 0 ELSE 1)
             passed   == {n \in DOMAIN drafts' : drafts'[n].verdict.passed}
  <2>1. /\ drafts' \in Seq(Drafts) /\ Len(drafts') = Len(drafts) + 1
        /\ drafts'[Len(drafts')] = d /\ Len(drafts) \in Nat
    BY <1>3, <1>5, <1>6, LeadGoesOn
  <2>2. failures \in Nat /\ DOMAIN drafts' \ passed = 1 .. failures
    BY <1>9, <2>1
  <2>3. Cardinality(DOMAIN drafts' \ passed) = failures
    <3>1. \A n \in Nat : Cardinality(1 .. n) = n
      BY FS_Interval
    <3> QED
      BY <2>2, <3>1
  <2>4. drafts'[1].verdict.passed <=> 1 \in passed
    BY <2>1
  <2>5. 1 \in passed <=> failures = 0
    BY <1>9, <2>1
  <2>6. CASE failures = 0
    BY <1>3, <1>11, <2>4, <2>5, <2>6 DEF Refined, ToSet
  <2>7. CASE failures # 0
    <3> DEFINE e == [refine_count |-> failures, passed |-> verdict.passed]
    <3>1. refineLog' = Append(refineLog, e)
      BY <1>11, <2>7 DEF Refined
    <3>2. e.refine_count = failures
      OBVIOUS
    <3> HIDE DEF e
    <3>3. refineLog' = <<e>>
      BY <1>3, <3>1
    <3>4. Len(refineLog') = 1 /\ ToSet(refineLog') = {e}
      BY <3>3 DEF ToSet
    <3> QED
      BY <2>3, <2>4, <2>5, <2>7, <3>2, <3>4
  <2> QED
    BY <2>6, <2>7
<1>12. {n \in DOMAIN drafts' : drafts'[n].verdict.passed} \subseteq {Len(drafts')}
  BY <1>9
<1>13. LoopReturnsTheBest'
  BY <1>1, <1>5, <1>7, <1>9, <1>11, <1>12 DEF LoopReturnsTheBest
<1> QED
  BY <1>8, <1>10, <1>13 DEF ReasoningInv, AnswerIsTheBest

\* What is kept as the best after a draft of EvaluatorOptimizerStrategy.
LEMMA BestGoesOn ==
  ASSUME ReasoningInv, pattern = "evaluator_optimizer", outcome = Unanswered, NEW d \in Drafts,
         drafts' = Append(drafts, d), bestSoFar' = Improved(d.said, d.verdict.confidence),
         pattern' = pattern
  PROVE  /\ BestIsLeader'
         /\ bestSoFar'.said = IF Leader'.verdict.confidence = 0 THEN NothingSaid ELSE Leader'.said
<1>1. drafts \in Seq(Drafts) /\ pattern \in Loops /\ BestIsLeader
  BY LoopAtWork DEF Loops, ReasoningInv
<1>2. /\ drafts' \in Seq(Drafts) /\ drafts' # <<>>
      /\ Len(drafts') \in DOMAIN drafts' /\ drafts'[Len(drafts')] = d
  BY <1>1, LeadGoesOn
<1>3. /\ \A n \in DOMAIN drafts : n \in DOMAIN drafts' /\ drafts'[n] = drafts[n]
      /\ \A n \in DOMAIN drafts' : n \in DOMAIN drafts \/ n = Len(drafts')
  BY <1>1, LeadGoesOn
<1>4. d.verdict.confidence \in Nat
  BY <1>2, DraftsAre
<1>5. ASSUME NEW n \in DOMAIN drafts', Leads(n, drafts'), IsDraft(bestSoFar', drafts'[n]),
             drafts'[n].verdict.confidence > 0
      PROVE  /\ BestIsLeader'
             /\ bestSoFar'.said = IF Leader'.verdict.confidence = 0 THEN NothingSaid
                                  ELSE Leader'.said
  <2>1. (CHOOSE m \in DOMAIN drafts' : Leads(m, drafts')) = n
    BY <1>2, <1>5, LeaderIs
  <2>2. Leader' = drafts'[n]
    BY <2>1 DEF Leader
  <2>3. drafts'[n].verdict.confidence # 0 /\ bestSoFar'.said = drafts'[n].said
    BY <1>5 DEF IsDraft
  <2>4. BestIsLeader'
    BY <1>2, <1>5 DEF BestIsLeader
  <2> QED
    BY <2>2, <2>3, <2>4
<1>6. ASSUME bestSoFar' = NothingBest, \A n \in DOMAIN drafts' : drafts'[n].verdict.confidence = 0
      PROVE  /\ BestIsLeader'
             /\ bestSoFar'.said = IF Leader'.verdict.confidence = 0 THEN NothingSaid
                                  ELSE Leader'.said
  <2>1. 1 \in DOMAIN drafts' /\ 1 .. 1 - 1 = {}
    BY <1>2
  <2>2. Leads(1, drafts')
    BY <1>6, <2>1 DEF Leads
  <2>3. (CHOOSE m \in DOMAIN drafts' : Leads(m, drafts')) = 1
    BY <1>2, <2>1, <2>2, LeaderIs
  <2>4. Leader' = drafts'[1]
    BY <2>3 DEF Leader
  <2>5. BestIsLeader'
    BY <1>2, <1>6 DEF BestIsLeader
  <2> QED
    BY <1>6, <2>1, <2>4, <2>5 DEF NothingBest
<1>7. CASE d.verdict.confidence > bestSoFar.confidence
  <2>1. IsDraft(bestSoFar', drafts'[Len(drafts')])
    BY <1>2, <1>7 DEF IsDraft, Improved
  <2>2. CASE bestSoFar = NothingBest /\ \A n \in DOMAIN drafts : drafts[n].verdict.confidence = 0
    <3>1. d.verdict.confidence > 0
      BY <1>7, <2>2 DEF NothingBest
    <3>2. Leads(Len(drafts'), drafts')
      BY <1>1, <2>2, <3>1, LeadGoesOn
    <3> QED
      BY <1>2, <1>5, <2>1, <3>1, <3>2
  <2>3. CASE \E n \in DOMAIN drafts : /\ Leads(n, drafts) /\ IsDraft(bestSoFar, drafts[n])
                                      /\ drafts[n].verdict.confidence > 0
    <3>1. PICK n \in DOMAIN drafts : /\ Leads(n, drafts) /\ IsDraft(bestSoFar, drafts[n])
                                     /\ drafts[n].verdict.confidence > 0
      BY <2>3
    <3>2. d.verdict.confidence > drafts[n].verdict.confidence
      BY <1>7, <3>1 DEF IsDraft
    <3>3. Leads(Len(drafts'), drafts')
      BY <1>1, <3>1, <3>2, LeadGoesOn
    <3>4. drafts[n].verdict.confidence \in Nat
      BY <1>1, DraftsAre
    <3>5. d.verdict.confidence > 0
      BY <1>4, <3>1, <3>2, <3>4
    <3> QED
      BY <1>2, <1>5, <2>1, <3>3, <3>5
  <2> QED
    BY <1>1, <2>2, <2>3 DEF BestIsLeader, Improved
<1>8. CASE ~(d.verdict.confidence > bestSoFar.confidence)
  <2>1. bestSoFar' = bestSoFar
    BY <1>8 DEF Improved
  <2>2. CASE bestSoFar = NothingBest /\ \A n \in DOMAIN drafts : drafts[n].verdict.confidence = 0
    <3>1. d.verdict.confidence = 0
      BY <1>4, <1>8, <2>2 DEF NothingBest
    <3> QED
      BY <1>2, <1>3, <1>6, <2>1, <2>2, <3>1
  <2>3. CASE \E n \in DOMAIN drafts : /\ Leads(n, drafts) /\ IsDraft(bestSoFar, drafts[n])
                                      /\ drafts[n].verdict.confidence > 0
    <3>1. PICK n \in DOMAIN drafts : /\ Leads(n, drafts) /\ IsDraft(bestSoFar, drafts[n])
                                     /\ drafts[n].verdict.confidence > 0
      BY <2>3
    <3>2. ~(d.verdict.confidence > drafts[n].verdict.confidence)
      BY <1>8, <3>1 DEF IsDraft
    <3>3. Leads(n, drafts')
      BY <1>1, <3>1, <3>2, LeadGoesOn
    <3> QED
      BY <1>3, <1>5, <2>1, <3>1, <3>3
  <2> QED
    BY <1>1, <2>2, <2>3 DEF BestIsLeader
<1> QED
  BY <1>7, <1>8

LEMMA RefinementGoesOn ==
  ASSUME ReasoningInv, OptimizeRound
  PROVE  ReasoningInv'
<1>1. /\ pattern = "evaluator_optimizer" /\ outcome = Unanswered
      /\ UNCHANGED <<pattern, worker, refineLog>>
  BY DEF OptimizeRound, AtWork
<1>2. pattern \in Loops
  BY <1>1 DEF Loops
<1>3. refineLog = <<>>
  BY <1>1, <1>2, LoopAtWork
<1>4. PICK said \in Said, verdict \in Verdicts :
         /\ drafts' = Append(drafts, DraftOf(said, verdict))
         /\ bestSoFar' = Improved(said, verdict.confidence)
         /\ outcome' = IF verdict.passed THEN Returned(said, verdict.confidence)
                       ELSE IF LastRound THEN Returned(bestSoFar'.said, bestSoFar'.confidence)
                       ELSE outcome
  BY DEF OptimizeRound
<1> DEFINE d == DraftOf(said, verdict)
<1>5. d \in Drafts /\ d.said = said /\ d.verdict = verdict
  BY DraftsMade DEF DraftOf
<1> HIDE DEF d
<1>6. drafts' = Append(drafts, d) /\ bestSoFar' = Improved(d.said, d.verdict.confidence)
  BY <1>4, <1>5 DEF d
<1>7. \/ outcome' = Unanswered /\ outcome'.status = "open" /\ ~verdict.passed
      \/ /\ outcome'.status = "returned"
         /\ outcome'.content = IF verdict.passed THEN said ELSE bestSoFar'.said
  BY <1>1, <1>4 DEF Returned, Unanswered
<1>8. ReasoningTypeOK' /\ FailuresShow' /\ NoneEnded' /\ WorkersAreAwaited'
  BY <1>1, <1>2, <1>3, <1>5, <1>6, <1>7, DraftAdded
<1>9. /\ Last(drafts') = d /\ drafts' # <<>>
      /\ {n \in DOMAIN drafts' : drafts'[n].verdict.passed}
            = IF verdict.passed THEN {Len(drafts')} ELSE {}
  BY <1>1, <1>2, <1>5, <1>6, LoopStops
<1>10. {n \in DOMAIN drafts' : drafts'[n].verdict.passed} \subseteq {Len(drafts')}
  BY <1>9
<1>11. /\ BestIsLeader'
       /\ bestSoFar'.said = IF Leader'.verdict.confidence = 0 THEN NothingSaid ELSE Leader'.said
  BY <1>1, <1>5, <1>6, BestGoesOn
<1>12. LoopReturnsTheBest'
  BY <1>1, <1>5, <1>7, <1>9, <1>10, <1>11 DEF LoopReturnsTheBest
<1> QED
  BY <1>8, <1>11, <1>12 DEF ReasoningInv, AnswerIsTheBest

\* The first prompt is the best so far whatever its score.
LEMMA PromptScored ==
  ASSUME ReasoningInv, ScorePrompt
  PROVE  ReasoningInv'
<1>1. /\ pattern = "optimizer" /\ outcome = Unanswered
      /\ UNCHANGED <<pattern, worker, refineLog, outcome>>
  BY DEF ScorePrompt, AtWork
<1>2. pattern \in Loops
  BY <1>1 DEF Loops
<1>3. refineLog = <<>> /\ drafts \in Seq(Drafts) /\ BestIsLeader
  BY <1>1, <1>2, LoopAtWork DEF ReasoningInv
<1>4. PICK prompt \in Said, score \in Scores :
         /\ drafts' = Append(drafts, DraftOf(prompt, Verdict(FALSE, score)))
         /\ bestSoFar' = IF drafts = <<>> THEN [said |-> prompt, confidence |-> score]
                         ELSE Improved(prompt, score)
  BY DEF ScorePrompt
<1> DEFINE d == DraftOf(prompt, Verdict(FALSE, score))
<1>5. d \in Drafts /\ d.said = prompt /\ d.verdict.confidence = score /\ ~d.verdict.passed
  BY DraftsMade DEF DraftOf, Verdict
<1> HIDE DEF d
<1>6. drafts' = Append(drafts, d)
  BY <1>4 DEF d
<1>7. outcome' = Unanswered /\ outcome'.status = "open"
  BY <1>1 DEF Unanswered
<1>8. ReasoningTypeOK' /\ FailuresShow' /\ NoneEnded' /\ WorkersAreAwaited'
  BY <1>1, <1>2, <1>3, <1>5, <1>6, <1>7, DraftAdded
<1>9. LoopReturnsTheBest'
  BY <1>7 DEF LoopReturnsTheBest
<1>10. /\ drafts' # <<>> /\ Len(drafts') \in DOMAIN drafts' /\ drafts'[Len(drafts')] = d
       /\ \A n \in DOMAIN drafts : n \in DOMAIN drafts' /\ drafts'[n] = drafts[n]
  BY <1>3, <1>5, <1>6, LeadGoesOn
<1>11. \E n \in DOMAIN drafts' : Leads(n, drafts') /\ IsDraft(bestSoFar', drafts'[n])
  <2>1. CASE drafts = <<>>
    <3>1. Leads(Len(drafts'), drafts')
      BY <1>3, <1>5, <1>6, <2>1, LeadGoesOn
    <3>2. IsDraft(bestSoFar', drafts'[Len(drafts')])
      BY <1>4, <1>5, <1>10, <2>1 DEF IsDraft
    <3> QED
      BY <1>10, <3>1, <3>2
  <2>2. CASE drafts # <<>>
    <3>1. PICK n \in DOMAIN drafts : Leads(n, drafts) /\ IsDraft(bestSoFar, drafts[n])
      BY <1>1, <1>3, <2>2 DEF BestIsLeader
    <3>2. bestSoFar' = Improved(prompt, score) /\ bestSoFar.confidence = drafts[n].verdict.confidence
      BY <1>4, <2>2, <3>1 DEF IsDraft
    <3>3. CASE d.verdict.confidence > drafts[n].verdict.confidence
      <4>1. Leads(Len(drafts'), drafts')
        BY <1>3, <1>5, <1>6, <3>1, <3>3, LeadGoesOn
      <4>2. IsDraft(bestSoFar', drafts'[Len(drafts')])
        BY <1>5, <1>10, <3>2, <3>3 DEF IsDraft, Improved
      <4> QED
        BY <1>10, <4>1, <4>2
    <3>4. CASE ~(d.verdict.confidence > drafts[n].verdict.confidence)
      <4>1. Leads(n, drafts')
        BY <1>3, <1>5, <1>6, <3>1, <3>4, LeadGoesOn
      <4>2. bestSoFar' = bestSoFar
        BY <1>5, <3>2, <3>4 DEF Improved
      <4> QED
        BY <1>10, <3>1, <4>1, <4>2
    <3> QED
      BY <3>3, <3>4
  <2> QED
    BY <2>1, <2>2
<1>12. BestIsLeader'
  BY <1>1, <1>10, <1>11 DEF BestIsLeader
<1> QED
  BY <1>8, <1>9, <1>12 DEF ReasoningInv, AnswerIsTheBest

LEMMA PromptReturned ==
  ASSUME ReasoningInv, OptimizerReturns
  PROVE  ReasoningInv'
<1>1. /\ pattern = "optimizer" /\ outcome = Unanswered /\ drafts # <<>>
      /\ outcome' = Returned(bestSoFar.said, bestSoFar.confidence)
      /\ UNCHANGED <<pattern, drafts, bestSoFar, worker, refineLog>>
  BY DEF OptimizerReturns, AtWork
<1>2. pattern \in Loops /\ pattern \notin Grouped \cup {"best_of_n"}
  BY <1>1 DEF Loops, Grouped
<1>3. /\ drafts \in Seq(Drafts) /\ worker = <<>>
      /\ \A n \in DOMAIN drafts : ~drafts[n].verdict.passed
  BY <1>1, <1>2, LoopAtWork
<1>4. outcome'.status = "returned" /\ outcome'.content = bestSoFar.said
  BY <1>1 DEF Returned
<1>5. PICK n \in DOMAIN drafts : Leads(n, drafts) /\ IsDraft(bestSoFar, drafts[n])
  BY <1>1 DEF ReasoningInv, BestIsLeader
<1>6. (CHOOSE m \in DOMAIN drafts : Leads(m, drafts)) = n
  BY <1>3, <1>5, LeaderIs
<1>7. Leader' = drafts[n] /\ bestSoFar.said = drafts[n].said
  BY <1>1, <1>5, <1>6 DEF Leader, IsDraft
<1>8. {m \in DOMAIN drafts' : drafts'[m].verdict.passed} \subseteq {Len(drafts')}
  BY <1>1, <1>3
<1>9. LoopReturnsTheBest'
  BY <1>1, <1>4, <1>7, <1>8 DEF LoopReturnsTheBest
<1>10. \A is : WorkersAre(is)' = {}
  BY <1>1, <1>3 DEF WorkersAre
<1>11. FailuresShow' /\ WorkersAreAwaited'
  BY <1>1, <1>2, <1>10 DEF FailuresShow, WorkersAreAwaited
<1>12. ReasoningTypeOK' /\ BestIsLeader' /\ NoneEnded'
  BY <1>1, <1>4 DEF ReasoningInv, ReasoningTypeOK, BestIsLeader, NoneEnded
<1> QED
  BY <1>9, <1>11, <1>12 DEF ReasoningInv, AnswerIsTheBest

LEMMA RaisedInACall ==
  ASSUME ReasoningInv, CallRaises
  PROVE  ReasoningInv'
<1>1. /\ pattern # "none" /\ WorkersAre("running") = {} /\ outcome' = Raised
      /\ UNCHANGED <<pattern, drafts, bestSoFar, worker, refineLog>>
  BY DEF CallRaises
<1>2. outcome'.status = "raised"
  BY <1>1 DEF Raised, Unanswered
<1>3. \A is : WorkersAre(is)' = WorkersAre(is)
  BY <1>1 DEF WorkersAre
<1>4. ReasoningTypeOK' /\ BestIsLeader' /\ NoneEnded'
  BY <1>1, <1>2 DEF ReasoningInv, ReasoningTypeOK, BestIsLeader, NoneEnded
<1>5. FailuresShow'
  BY <1>1, <1>2, <1>3 DEF ReasoningInv, FailuresShow
<1>6. AnswerIsTheBest'
  BY <1>1, <1>2, <1>3 DEF AnswerIsTheBest, LoopReturnsTheBest, WorkersAreAwaited
<1> QED
  BY <1>4, <1>5, <1>6 DEF ReasoningInv

-----------------------------------------------------------------------------
LEMMA WorkerKinds ==
  /\ Running.is = "running" /\ Failed.is = "failed" /\ Canceled.is = "cancelled"
  /\ \A said : Has(said).is = "done" /\ Has(said).said = said
  /\ {Running, Failed, Canceled} \subseteq WorkerStates /\ \A said \in Said : Has(said) \in WorkerStates
BY DEF Running, Failed, Canceled, Has, WorkerStates

LEMMA WorkersStarted ==
  ASSUME ReasoningInv, NEW p \in SideBySide, NEW n \in Nat, p = "best_of_n" => n # 0,
         StartWorkers(p, n)
  PROVE  ReasoningInv'
<1>1. /\ pattern = p /\ outcome = Unanswered /\ worker = <<>>
      /\ worker' = [w \in 1 .. n |-> Running]
      /\ outcome' = IF n = 0 THEN Returned(<<>>, 0) ELSE outcome
      /\ UNCHANGED <<pattern, drafts, bestSoFar, refineLog>>
  BY DEF StartWorkers, AtWork
<1>2. pattern \in SideBySide /\ pattern \notin Loops /\ pattern # "none"
  BY <1>1 DEF SideBySide, Grouped, Loops
<1>3. drafts = <<>> /\ bestSoFar = NothingBest /\ refineLog = <<>>
  BY <1>1, <1>2, NothingBegun DEF ReasoningInv, BestIsLeader, NoneEnded, Unanswered
<1>4. worker' \in [1 .. n -> WorkerStates] /\ \A w \in DOMAIN worker' : worker'[w] = Running
  BY <1>1, WorkerKinds
<1>5. WorkersAre("cancelled")' = {} /\ WorkersAre("failed")' = {}
  BY <1>4, WorkerKinds DEF WorkersAre
<1>6. \/ n # 0 /\ outcome' = Unanswered /\ outcome'.status = "open"
      \/ /\ n = 0 /\ outcome'.status = "returned" /\ outcome'.content = <<>>
         /\ worker' = <<>> /\ pattern # "best_of_n"
  BY <1>1 DEF Unanswered, Returned
<1>7. ReasoningTypeOK'
  <2>1. drafts' \in Seq(Drafts) /\ drafts' = <<>>
    BY <1>1, <1>3
  <2>2. \E m \in Nat : worker' \in [1 .. m -> WorkerStates]
    BY <1>4
  <2> QED
    BY <1>1, <1>2, <1>6, <2>1, <2>2 DEF ReasoningTypeOK
<1>8. FailuresShow' /\ BestIsLeader' /\ NoneEnded'
  BY <1>1, <1>3, <1>5 DEF FailuresShow, BestIsLeader, NoneEnded
<1>9. LoopReturnsTheBest'
  BY <1>1, <1>3 DEF LoopReturnsTheBest
<1>10. WorkersAreAwaited'
  <2>1. CASE outcome'.status = "open"
    BY <2>1 DEF WorkersAreAwaited
  <2>2. CASE outcome'.status # "open"
    <3>1. worker' = <<>> /\ outcome'.content = <<>> /\ pattern' # "best_of_n"
      BY <1>1, <1>6, <2>2
    <3>2. WorkersAre("running")' = {}
      BY <3>1 DEF WorkersAre
    <3> QED
      BY <3>1, <3>2 DEF WorkersAreAwaited
  <2> QED
    BY <2>1, <2>2
<1> QED
  BY <1>7, <1>8, <1>9, <1>10 DEF ReasoningInv, AnswerIsTheBest

LEMMA SomeStart ==
  ASSUME ReasoningInv, StartSubtasks \/ StartSamples \/ StartItems \/ StartPlanned
  PROVE  ReasoningInv'
<1>1. {"parallel", "best_of_n", "fan_out", "orchestrator"} \subseteq SideBySide
  BY DEF SideBySide, Grouped
<1>2. \A n \in 0 .. MaxWorkers : n \in Nat
  OBVIOUS
<1>3. \A n \in 1 .. MaxWorkers : n \in Nat /\ n # 0
  OBVIOUS
<1>4. CASE StartSubtasks
  BY <1>1, <1>2, <1>4, WorkersStarted DEF StartSubtasks
<1>5. CASE StartSamples
  BY <1>1, <1>3, <1>5, WorkersStarted DEF StartSamples
<1>6. CASE StartItems
  BY <1>1, <1>2, <1>6, WorkersStarted DEF StartItems
<1>7. CASE StartPlanned
  BY <1>1, <1>2, <1>7, WorkersStarted DEF StartPlanned
<1> QED
  BY <1>4, <1>5, <1>6, <1>7

\* One worker ends; the request stays as it is, or raises for a sample that failed.
LEMMA WorkerEnds ==
  ASSUME ReasoningInv, NEW w \in DOMAIN worker, NEW x \in WorkerStates,
         worker[w] = Running, worker' = [worker EXCEPT ![w] = x],
         x.is = "cancelled" => pattern \in Grouped /\ WorkersAre("failed") # {},
         \/ outcome' = Raised /\ pattern = "best_of_n"
         \/ outcome' = outcome /\ (pattern = "best_of_n" => x.is # "failed"),
         UNCHANGED <<pattern, drafts, bestSoFar, refineLog>>
  PROVE  ReasoningInv'
<1>1. /\ ReasoningTypeOK /\ FailuresShow /\ BestIsLeader /\ NoneEnded
      /\ LoopReturnsTheBest /\ WorkersAreAwaited
  BY DEF ReasoningInv, AnswerIsTheBest
<1>2. PICK n \in Nat : worker \in [1 .. n -> WorkerStates]
  BY <1>1 DEF ReasoningTypeOK
<1>3. worker' \in [1 .. n -> WorkerStates] /\ w \in 1 .. n /\ DOMAIN worker = 1 .. n
  BY <1>2
<1>4. worker # <<>> /\ pattern \in SideBySide /\ w \in WorkersAre("running")
  BY <1>1, WorkerKinds DEF ReasoningTypeOK, WorkersAre
<1>5. Raised.status = "raised"
  BY DEF Raised, Unanswered
<1>6. outcome.status # "returned" /\ outcome'.status # "returned"
  BY <1>1, <1>4, <1>5 DEF WorkersAreAwaited
<1>7. outcome'.status = "open" => outcome' = outcome /\ outcome.status = "open"
  BY <1>5
<1>8. ReasoningTypeOK'
  <2>1. outcome'.status \in {"open", "raised", "returned"}
    BY <1>1, <1>5 DEF ReasoningTypeOK
  <2>2. outcome'.status = "open" => outcome' = Unanswered
    BY <1>1, <1>7 DEF ReasoningTypeOK
  <2> QED
    BY <1>1, <1>3, <1>4, <1>6, <2>1, <2>2 DEF ReasoningTypeOK
<1>9. /\ WorkersAre("cancelled")' \subseteq WorkersAre("cancelled") \cup {u \in {w} : x.is = "cancelled"}
      /\ WorkersAre("failed")' = WorkersAre("failed") \cup {u \in {w} : x.is = "failed"}
  BY <1>2, <1>3, WorkerKinds DEF WorkersAre
<1>10. FailuresShow'
  <2>1. WorkersAre("cancelled")' # {} => pattern \in Grouped /\ WorkersAre("failed")' # {}
    BY <1>1, <1>9 DEF FailuresShow
  <2>2. pattern = "best_of_n" /\ WorkersAre("failed")' # {} => outcome'.status = "raised"
    BY <1>1, <1>5, <1>9 DEF FailuresShow
  <2> QED
    BY <2>1, <2>2 DEF FailuresShow
<1>11. BestIsLeader'
  BY <1>1 DEF BestIsLeader
<1>12. NoneEnded'
  BY <1>1, <1>7 DEF NoneEnded
<1>13. LoopReturnsTheBest'
  BY <1>6 DEF LoopReturnsTheBest
<1>14. WorkersAreAwaited'
  <2>1. outcome'.status # "open" => pattern = "best_of_n" /\ outcome'.status = "raised"
    BY <1>1, <1>4, <1>5 DEF WorkersAreAwaited
  <2> QED
    BY <1>6, <2>1 DEF WorkersAreAwaited
<1> QED
  BY <1>8, <1>10, <1>11, <1>12, <1>13, <1>14 DEF ReasoningInv, AnswerIsTheBest

LEMMA SomeWorkerEnds ==
  ASSUME ReasoningInv, NEW w \in DOMAIN worker, WorkerAnswers(w) \/ WorkerFails(w) \/ CancelWorker(w)
  PROVE  ReasoningInv'
<1>1. CASE WorkerAnswers(w)
  <2>1. PICK said \in Said : worker' = [worker EXCEPT ![w] = Has(said)]
    BY <1>1 DEF WorkerAnswers
  <2> DEFINE x == Has(said)
  <2>2. x \in WorkerStates /\ x.is = "done" /\ worker' = [worker EXCEPT ![w] = x]
    BY <2>1, WorkerKinds
  <2>3. /\ worker[w] = Running /\ outcome' = outcome
        /\ UNCHANGED <<pattern, drafts, bestSoFar, refineLog>>
    BY <1>1 DEF WorkerAnswers
  <2> HIDE DEF x
  <2> QED
    BY <2>2, <2>3, WorkerEnds
<1>2. CASE WorkerFails(w)
  <2>1. Failed \in WorkerStates /\ Failed.is = "failed"
    BY WorkerKinds
  <2>2. /\ worker[w] = Running /\ worker' = [worker EXCEPT ![w] = Failed]
        /\ outcome' = IF pattern = "best_of_n" THEN Raised ELSE outcome
        /\ UNCHANGED <<pattern, drafts, bestSoFar, refineLog>>
    BY <1>2 DEF WorkerFails
  <2> QED
    BY <2>1, <2>2, WorkerEnds
<1>3. CASE CancelWorker(w)
  <2>1. Canceled \in WorkerStates /\ Canceled.is = "cancelled"
    BY WorkerKinds
  <2>2. /\ worker[w] = Running /\ worker' = [worker EXCEPT ![w] = Canceled] /\ outcome' = outcome
        /\ pattern \in Grouped /\ WorkersAre("failed") # {}
        /\ UNCHANGED <<pattern, drafts, bestSoFar, refineLog>>
    BY <1>3 DEF CancelWorker
  <2> QED
    BY <2>1, <2>2, WorkerEnds
<1> QED
  BY <1>1, <1>2, <1>3

-----------------------------------------------------------------------------
LEMMA LeastOf ==
  ASSUME NEW Q \in SUBSET Nat, Q # {}
  PROVE  \E q \in Q : \A y \in Q : q <= y
<1> DEFINE R == OpToRel(<, Nat)
<1>1. IsWellFoundedOn(R, Nat)
  BY NatLessThanWellFounded
<1>2. \A x, y \in Nat : x < y => <<x, y>> \in R
  BY DEF OpToRel
<1> HIDE DEF R
<1>3. PICK q \in Q : \A y \in Q : ~(<<y, q>> \in R)
  BY <1>1, WFMin
<1>4. \A y \in Q : y \in Nat /\ q \in Nat
  OBVIOUS
<1>5. \A y \in Q : ~(y < q)
  BY <1>2, <1>3, <1>4
<1>6. \A y \in Q : q <= y
  BY <1>4, <1>5
<1> QED
  BY <1>6

\* Among finitely many bounded values there is a first greatest one.
LEMMA FirstGreatest ==
  ASSUME NEW n \in Nat, n # 0, NEW K \in Nat, NEW f, \A u \in 1 .. n : f[u] \in 0 .. K
  PROVE  \E w \in 1 .. n : /\ \A u \in 1 .. n : f[u] <= f[w]
                           /\ \A u \in 1 .. w - 1 : f[u] < f[w]
<1> DEFINE short == {K - f[u] : u \in 1 .. n}
<1>1. \A u \in 1 .. n : f[u] \in Nat /\ K - f[u] \in Nat /\ u \in Nat
  OBVIOUS
<1>2. short \subseteq Nat /\ 1 \in 1 .. n
  BY <1>1
<1>3. short # {}
  BY <1>2
<1>4. PICK q \in short : \A y \in short : q <= y
  BY <1>2, <1>3, LeastOf
<1>5. PICK v \in 1 .. n : q = K - f[v]
  OBVIOUS
<1>6. \A u \in 1 .. n : K - f[v] <= K - f[u]
  BY <1>4, <1>5
<1> HIDE DEF short
<1>7. \A u \in 1 .. n : f[u] <= f[v]
  BY <1>1, <1>6
<1> DEFINE greatest == {u \in 1 .. n : f[u] = f[v]}
<1>8. greatest \subseteq Nat /\ v \in greatest
  BY <1>1
<1>9. PICK w \in greatest : \A y \in greatest : w <= y
  BY <1>8, LeastOf
<1>10. w \in 1 .. n /\ f[w] = f[v]
  OBVIOUS
<1>11. \A u \in 1 .. w - 1 : u \in 1 .. n /\ ~(w <= u)
  BY <1>10
<1>12. \A u \in 1 .. w - 1 : u \notin greatest
  BY <1>9, <1>11
<1>13. \A u \in 1 .. w - 1 : f[u] # f[v]
  BY <1>11, <1>12
<1>14. ASSUME NEW u \in 1 .. w - 1 PROVE f[u] < f[w]
  <2>1. u \in 1 .. n /\ f[u] # f[v]
    BY <1>11, <1>13
  <2> HIDE DEF greatest
  <2>2. f[u] <= f[v] /\ f[u] \in Nat /\ f[v] \in Nat
    BY <1>1, <1>7, <2>1
  <2> QED
    BY <1>10, <2>1, <2>2
<1> QED
  BY <1>7, <1>10, <1>14

\* When none of the workers failed, each that has ended has an answer.
LEMMA AllAnswered ==
  ASSUME ReasoningInv, WorkersAre("running") = {}, WorkersAre("failed") = {}
  PROVE  \A w \in DOMAIN worker : worker[w] = Has(worker[w].said) /\ worker[w].said \in Said
<1> TAKE w \in DOMAIN worker
<1>1. worker[w] \in WorkerStates
  BY DEF ReasoningInv, ReasoningTypeOK
<1>2. WorkersAre("cancelled") = {}
  BY DEF ReasoningInv, FailuresShow
<1>3. worker[w].is \notin {"running", "failed", "cancelled"}
  BY <1>2 DEF WorkersAre
<1>4. PICK said \in Said : worker[w] = Has(said)
  BY <1>1, <1>3, WorkerKinds DEF WorkerStates
<1> QED
  BY <1>4, WorkerKinds

\* The wait for the workers is over, with an answer or an error.
LEMMA WaitIsOver ==
  ASSUME ReasoningInv, NEW p \in SideBySide, AllEnded(p), outcome'.status \in {"raised", "returned"},
         outcome'.status = "returned" /\ pattern \in Grouped =>
             /\ DOMAIN outcome'.content = DOMAIN worker
             /\ \A w \in DOMAIN worker : worker[w] = Has(outcome'.content[w]),
         outcome'.status = "returned" /\ pattern = "best_of_n" =>
             WorkersAre("failed") = {} /\ \E w \in DOMAIN worker : worker[w] = Has(outcome'.content)
  PROVE  ReasoningInv'
<1>1. /\ pattern = p /\ outcome = Unanswered /\ WorkersAre("running") = {}
      /\ UNCHANGED <<pattern, drafts, bestSoFar, worker, refineLog>>
  BY DEF AllEnded, AtWork
<1>2. pattern \in SideBySide /\ pattern \notin Loops /\ pattern # "none"
  BY <1>1 DEF SideBySide, Grouped, Loops
<1>3. drafts = <<>>
  BY <1>2, NothingBegun DEF ReasoningInv
<1>4. \A is : WorkersAre(is)' = WorkersAre(is)
  BY <1>1 DEF WorkersAre
<1>5. ReasoningTypeOK' /\ BestIsLeader' /\ NoneEnded'
  BY <1>1, <1>2 DEF ReasoningInv, ReasoningTypeOK, BestIsLeader, NoneEnded
<1>6. FailuresShow'
  BY <1>1, <1>4 DEF ReasoningInv, FailuresShow
<1>7. LoopReturnsTheBest'
  BY <1>1, <1>3 DEF LoopReturnsTheBest
<1>8. WorkersAreAwaited'
  BY <1>1, <1>4 DEF WorkersAreAwaited
<1> QED
  BY <1>5, <1>6, <1>7, <1>8 DEF ReasoningInv, AnswerIsTheBest

LEMMA Voted ==
  ASSUME ReasoningInv, Vote
  PROVE  ReasoningInv'
<1>1. /\ AllEnded("best_of_n") /\ pattern = "best_of_n" /\ worker # <<>>
      /\ outcome = Unanswered /\ WorkersAre("running") = {}
  BY DEF Vote, AllEnded, AtWork
<1>2. WorkersAre("failed") = {} /\ outcome.status = "open"
  BY <1>1 DEF ReasoningInv, FailuresShow, Unanswered
<1>3. \A w \in DOMAIN worker : worker[w] = Has(worker[w].said) /\ worker[w].said \in Said
  BY <1>1, <1>2, AllAnswered
<1>4. PICK n \in Nat : worker \in [1 .. n -> WorkerStates]
  BY DEF ReasoningInv, ReasoningTypeOK
<1>5. DOMAIN worker = 1 .. n /\ n # 0
  BY <1>1, <1>4
<1>6. ASSUME NEW K \in Nat, NEW value \in [Said -> 0 .. K]
      PROVE  \E w \in DOMAIN worker : FirstBest(value) = worker[w].said
  <2> DEFINE f == [u \in 1 .. n |-> value[worker[u].said]]
  <2>1. \A u \in 1 .. n : f[u] = value[worker[u].said] /\ f[u] \in 0 .. K
    BY <1>3, <1>5
  <2> HIDE DEF f
  <2>2. PICK w \in 1 .. n : /\ \A u \in 1 .. n : f[u] <= f[w]
                            /\ \A u \in 1 .. w - 1 : f[u] < f[w]
    BY <1>5, <2>1, FirstGreatest
  <2>3. \A u \in 1 .. w - 1 : u \in 1 .. n
    OBVIOUS
  <2>4. /\ \A u \in DOMAIN worker : value[worker[u].said] <= value[worker[w].said]
        /\ \A u \in 1 .. w - 1 : value[worker[u].said] < value[worker[w].said]
    BY <1>5, <2>1, <2>2, <2>3
  <2> DEFINE First(v) == /\ \A u \in DOMAIN worker : value[worker[u].said] <= value[worker[v].said]
                         /\ \A u \in 1 .. v - 1 : value[worker[u].said] < value[worker[v].said]
  <2>5. w \in DOMAIN worker /\ First(w)
    BY <1>5, <2>4
  <2>6. FirstBest(value) = worker[CHOOSE v \in DOMAIN worker : First(v)].said
    BY DEF FirstBest
  <2> HIDE DEF First
  <2>7. (CHOOSE v \in DOMAIN worker : First(v)) \in DOMAIN worker
    BY <2>5
  <2> QED
    BY <2>6, <2>7
<1>7. [s \in Said |-> Counted(s)] \in [Said -> 0 .. n]
  <2>1. ASSUME NEW s \in Said PROVE Counted(s) \in 0 .. n
    <3> DEFINE of == {w \in DOMAIN worker : worker[w] = Has(s)}
    <3>1. of \subseteq 1 .. n
      BY <1>5
    <3>2. IsFiniteSet(1 .. n) /\ Cardinality(1 .. n) = n
      BY <1>4, FS_Interval
    <3>3. Cardinality(of) <= n /\ Cardinality(of) \in Nat
      BY <3>1, <3>2, FS_Subset, FS_CardinalityType
    <3> QED
      BY <3>3 DEF Counted
  <2> QED
    BY <2>1
<1>8. \E w \in DOMAIN worker : outcome'.status = "returned" /\ outcome'.content = worker[w].said
  <2>1. CASE LET winner == FirstBest([s \in Said |-> Counted(s)])
             IN  outcome' = Returned(winner, (100 * Counted(winner)) \div Len(worker))
    <3>1. /\ outcome'.status = "returned"
          /\ outcome'.content = FirstBest([s \in Said |-> Counted(s)])
      BY <2>1 DEF Returned
    <3> QED
      BY <1>6, <1>7, <3>1
  <2>2. CASE \E score_fn \in [Said -> Scores] :
                LET winner == FirstBest(score_fn) IN outcome' = Returned(winner, score_fn[winner])
    <3>1. PICK score_fn \in [Said -> Scores] :
                outcome' = Returned(FirstBest(score_fn), score_fn[FirstBest(score_fn)])
      BY <2>2
    <3>2. score_fn \in [Said -> 0 .. 100] /\ 100 \in Nat
      BY ReasoningAssumption
    <3>3. \E w \in DOMAIN worker : FirstBest(score_fn) = worker[w].said
      BY <1>6, <3>2
    <3> QED
      BY <3>1, <3>3 DEF Returned
  <2> QED
    BY <2>1, <2>2 DEF Vote
<1>9. \E w \in DOMAIN worker : worker[w] = Has(outcome'.content)
  BY <1>3, <1>8
<1>10. "best_of_n" \in SideBySide /\ "best_of_n" \notin Grouped
  BY DEF SideBySide, Grouped
<1> QED
  BY <1>1, <1>2, <1>8, <1>9, <1>10, WaitIsOver

LEMMA GroupEnded ==
  ASSUME ReasoningInv, JoinItems \/ Aggregate
  PROVE  ReasoningInv'
<1>1. PICK p \in Grouped : AllEnded(p) /\ GroupEnds
  BY DEF JoinItems, Aggregate, Grouped
<1>2. p \in SideBySide /\ pattern \in Grouped /\ pattern # "best_of_n" /\ WorkersAre("running") = {}
  BY <1>1 DEF SideBySide, Grouped, AllEnded, AtWork
<1>3. CASE WorkersAre("failed") = {}
  <2>1. outcome' = Returned([w \in DOMAIN worker |-> worker[w].said], 0)
    BY <1>1, <1>3 DEF GroupEnds
  <2>2. /\ outcome'.status = "returned"
        /\ outcome'.content = [w \in DOMAIN worker |-> worker[w].said]
    BY <2>1 DEF Returned
  <2>3. \A w \in DOMAIN worker : worker[w] = Has(worker[w].said)
    BY <1>2, <1>3, AllAnswered
  <2>4. /\ DOMAIN outcome'.content = DOMAIN worker
        /\ \A w \in DOMAIN worker : worker[w] = Has(outcome'.content[w])
    BY <2>2, <2>3
  <2> QED
    BY <1>1, <1>2, <2>2, <2>4, WaitIsOver
<1>4. CASE WorkersAre("failed") # {}
  <2>1. outcome'.status = "raised"
    BY <1>1, <1>4 DEF GroupEnds, Raised, Unanswered
  <2> QED
    BY <1>1, <1>2, <2>1, WaitIsOver
<1> QED
  BY <1>3, <1>4

LEMMA Combined ==
  ASSUME ReasoningInv, CombineSubtasks
  PROVE  ReasoningInv'
<1>1. AllEnded("parallel") /\ outcome'.status = "returned"
  BY DEF CombineSubtasks, Returned
<1>2. /\ "parallel" \in SideBySide /\ pattern = "parallel" /\ pattern # "best_of_n"
      /\ pattern \notin Grouped
  BY <1>1 DEF SideBySide, Grouped, AllEnded, AtWork
<1> QED
  BY <1>1, <1>2, WaitIsOver

-----------------------------------------------------------------------------
LEMMA ReasoningGoesOn ==
  ASSUME ReasoningInv, [ReasoningNext]_reasoningVars
  PROVE  ReasoningInv'
<1>1. CASE Handle \/ CallFacade \/ Route \/ RouteByCategory
  BY <1>1, PassedOn
<1>2. CASE CallRaises
  BY <1>2, RaisedInACall
<1>3. CASE DirectAnswer \/ ThinkingAnswer \/ AdaptiveAnswer
  BY <1>3, AnsweredAtOnce
<1>4. CASE ChainStep \/ ReactStep
  BY <1>4, ChainGoesOn
<1>5. CASE OptimizeRound
  BY <1>5, RefinementGoesOn
<1>6. CASE EvaluatorRound
  BY <1>6, EvaluatorGoesOn
<1>7. CASE ScorePrompt
  BY <1>7, PromptScored
<1>8. CASE OptimizerReturns
  BY <1>8, PromptReturned
<1>9. CASE StartSubtasks \/ StartSamples \/ StartItems \/ StartPlanned
  BY <1>9, SomeStart
<1>10. CASE Vote
  BY <1>10, Voted
<1>11. CASE JoinItems \/ Aggregate
  BY <1>11, GroupEnded
<1>12. CASE CombineSubtasks
  BY <1>12, Combined
<1>13. CASE \E w \in DOMAIN worker : WorkerAnswers(w) \/ WorkerFails(w) \/ CancelWorker(w)
  BY <1>13, SomeWorkerEnds
<1>14. CASE UNCHANGED reasoningVars
  <2>1. UNCHANGED <<pattern, drafts, bestSoFar, worker, refineLog, outcome>>
    BY <1>14 DEF reasoningVars
  <2>2. \A is : WorkersAre(is)' = WorkersAre(is)
    BY <2>1 DEF WorkersAre
  <2>3. ReasoningTypeOK'
    BY <2>1 DEF ReasoningInv, ReasoningTypeOK
  <2>4. FailuresShow' /\ WorkersAreAwaited'
    BY <2>1, <2>2 DEF ReasoningInv, AnswerIsTheBest, FailuresShow, WorkersAreAwaited
  <2>5. BestIsLeader' /\ NoneEnded'
    BY <2>1 DEF ReasoningInv, BestIsLeader, NoneEnded
  <2>6. Leader' = Leader
    BY <2>1 DEF Leader
  <2>7. LoopReturnsTheBest'
    BY <2>1, <2>6 DEF ReasoningInv, AnswerIsTheBest, LoopReturnsTheBest
  <2> QED
    BY <2>3, <2>4, <2>5, <2>7 DEF ReasoningInv, AnswerIsTheBest
<1> QED
  BY <1>1, <1>2, <1>3, <1>4, <1>5, <1>6, <1>7, <1>8, <1>9, <1>10, <1>11, <1>12, <1>13, <1>14
     DEF ReasoningNext

\* A request gets the answer its pattern promises, whatever is said, however it is
\* judged, in whatever order the workers end and whichever call raises.
THEOREM ReasoningCorrect == ReasoningSpec => []AnswerIsTheBest
<1>1. ReasoningInit => ReasoningInv
  BY ReasoningStarts
<1>2. ReasoningInv /\ [ReasoningNext]_reasoningVars => ReasoningInv'
  BY ReasoningGoesOn
<1>3. ReasoningInv => AnswerIsTheBest
  BY DEF ReasoningInv
<1> QED
  BY <1>1, <1>2, <1>3, PTL DEF ReasoningSpec

-----------------------------------------------------------------------------
(***************************************************************************)
(* Hooks: what has fired is told by the place that the execution is at.    *)
(***************************************************************************)
InExecution ==
    {"pre_execute", "pre_llm", "llm", "loop", "pre_tool", "tool", "run_tool", "post_tool",
     "post_llm", "post_execute", "on_complete", "answered", "on_budget_exceeded",
     "on_rate_limited", "on_error", "failing"}
InStream == {"opening", "reading", "stopped"}
InLoops  == {"llm", "loop", "pre_tool", "tool", "run_tool", "post_tool"}

HookEvents ==
    {"pre_execute", "pre_llm", "pre_tool", "post_tool", "post_llm", "post_execute",
     "on_complete", "on_budget_exceeded", "on_rate_limited", "on_error"}
Hearings == [event : HookEvents, by : SUBSET DOMAIN HandlerModes, raised : BOOLEAN]

HooksTypeOK ==
    /\ stage \in {"new", "done"} \cup InExecution \cup InStream
    /\ layer \in Nat
    /\ fired \in Seq(Hearings) /\ toolFired \in Seq(Hearings)
    /\ recorded \in BOOLEAN
    /\ stage \in {"llm", "tool", "opening"} => layer > 0

\* All handlers of every event have heard it, and none raised.
AllHeard == \A n \in DOMAIN fired : ~fired[n].raised /\ fired[n].by = DOMAIN HandlerModes
ToolsHeard ==
    \A n \in DOMAIN toolFired : toolFired[n].raised \/ toolFired[n].by = DOMAIN HandlerModes

\* POST_TOOL follows a PRE_TOOL that passed, and so it will.
ToolsPaired ==
    /\ \A n \in DOMAIN toolFired : toolFired[n].event = "post_tool" =>
         n > 1 /\ toolFired[n - 1].event = "pre_tool" /\ ~toolFired[n - 1].raised
    /\ stage \in {"tool", "run_tool", "post_tool"} =>
         /\ Len(toolFired) > 0
         /\ toolFired[Len(toolFired)].event = "pre_tool"
         /\ ~toolFired[Len(toolFired)].raised

\* The exact history, as long as nothing has failed.
FiredSoFar ==
    /\ stage \in {"new", "pre_execute"} => fired = <<>> /\ toolFired = <<>>
    /\ stage = "pre_llm" => Events = <<"pre_execute">> /\ toolFired = <<>>
    /\ stage \in InLoops \cup {"post_llm", "on_budget_exceeded", "on_rate_limited"} =>
         Events = <<"pre_execute", "pre_llm">>
    /\ stage = "post_execute" => Events = <<"pre_execute", "pre_llm", "post_llm">>
    /\ stage = "on_complete" =>
         Events = <<"pre_execute", "pre_llm", "post_llm", "post_execute">>
    /\ stage = "answered" =>
         Events = <<"pre_execute", "pre_llm", "post_llm", "post_execute", "on_complete">>
    /\ stage \in InStream => Events = <<"pre_llm">> /\ toolFired = <<>>

\* A failure is told once, or was met where nobody is told.
FailureTold ==
    /\ "on_error" \in Told => "post_execute" \notin Told
    /\ stage = "on_error" => "on_error" \notin Told /\ "post_execute" \notin Told
    /\ stage = "failing" =>
         "on_error" \in Told \/ (failure = "audit" /\ Completed) \/
         Fell \intersect {"pre_execute", "post_execute", "on_complete",
                          "on_budget_exceeded", "on_rate_limited"} # {}

HooksInv ==
    /\ HooksTypeOK /\ ToolsHeard /\ ToolsPaired /\ FiredSoFar /\ FailureTold
    /\ stage \in InExecution => audited = <<"start">>
    /\ stage \in InExecution \ {"pre_execute"} =>
         fired # <<>> /\ fired[1].event = "pre_execute"
    /\ stage \in {"new"} \cup InStream => audited = <<>>
    /\ stage \in (InExecution \cup {"opening", "reading"})
                   \ {"on_error", "failing"} => AllHeard
    /\ stage # "done" => ended = "no"
    /\ stage \notin {"failing", "done"} => ~recorded
    /\ HooksTellTheOutcome

\* The history with one event more.
LEMMA OneMoreEvent ==
    ASSUME NEW es \in Seq(Hearings), NEW h \in Hearings
    PROVE  /\ Append(es, h) \in Seq(Hearings) /\ Append(es, h) # <<>>
           /\ Len(Append(es, h)) = Len(es) + 1
           /\ DOMAIN Append(es, h) = 1 .. Len(es) + 1 /\ DOMAIN es = 1 .. Len(es)
           /\ Len(es) \in Nat
           /\ Append(es, h)[Len(es) + 1] = h
           /\ \A n \in DOMAIN es : Append(es, h)[n] = es[n]
           /\ es # <<>> => 1 \in DOMAIN es
<1>1. /\ Append(es, h) \in Seq(Hearings) /\ Len(Append(es, h)) = Len(es) + 1
      /\ DOMAIN Append(es, h) = 1 .. Len(es) + 1 /\ DOMAIN es = 1 .. Len(es)
      /\ Len(es) \in Nat
  OBVIOUS
<1>2. /\ Append(es, h)[Len(es) + 1] = h
      /\ \A n \in DOMAIN es : Append(es, h)[n] = es[n]
  OBVIOUS
<1>3. Append(es, h) # <<>>
  <2>1. Len(Append(es, h)) # 0
    BY <1>1
  <2>2. QED  BY <1>1, <2>1, EmptySeq
<1>4. es # <<>> => 1 \in DOMAIN es
  <2>1. es # <<>> => Len(es) # 0
    BY EmptySeq
  <2>2. QED  BY <1>1, <2>1
<1>5. QED  BY <1>1, <1>2, <1>3, <1>4

\* Which events the execution has told, when its history is known.
LEMMA EventsAre ==
    ASSUME NEW es \in Seq(HookEvents), Events = es
    PROVE  /\ DOMAIN fired = 1 .. Len(es)
           /\ \A n \in 1 .. Len(es) : fired[n].event = es[n]
           /\ Told = {es[n] : n \in 1 .. Len(es)}
<1>1. DOMAIN fired = 1 .. Len(es)
  BY DEF Events
<1>2. \A n \in 1 .. Len(es) : fired[n].event = es[n]
  BY <1>1 DEF Events
<1>3. QED  BY <1>1, <1>2 DEF Told

\* What fire does to the history of the execution.
LEMMA FiredMore ==
    ASSUME HooksTypeOK, NEW h \in Hearings, fired' = Append(fired, h)
    PROVE  /\ fired' \in Seq(Hearings) /\ fired' # <<>>
           /\ fired # <<>> => fired'[1] = fired[1]
           /\ fired = <<>> => fired'[1] = h
           /\ Told' = Told \cup {h.event}
           /\ Fell \subseteq Fell' /\ (h.raised => h.event \in Fell')
           /\ AllHeard /\ ~h.raised /\ h.by = DOMAIN HandlerModes => AllHeard'
           /\ \A es \in Seq(HookEvents) : Events = es => Events' = Append(es, h.event)
<1>1. fired \in Seq(Hearings)
  BY DEF HooksTypeOK
<1>2. /\ fired' \in Seq(Hearings) /\ fired' # <<>>
      /\ DOMAIN fired' = 1 .. Len(fired) + 1 /\ DOMAIN fired = 1 .. Len(fired)
      /\ Len(fired) \in Nat
      /\ fired'[Len(fired) + 1] = h
      /\ \A n \in DOMAIN fired : fired'[n] = fired[n]
      /\ fired # <<>> => 1 \in DOMAIN fired
  BY <1>1, OneMoreEvent
<1>3. fired # <<>> => fired'[1] = fired[1]
  BY <1>2
<1>4. fired = <<>> => fired'[1] = h
  BY <1>2
<1>5. Told' = Told \cup {h.event}
  <2>1. \A x \in Told' : x \in Told \cup {h.event}
    BY <1>2 DEF Told
  <2>2. \A x \in Told \cup {h.event} : x \in Told'
    BY <1>2 DEF Told
  <2>3. QED  BY <2>1, <2>2
<1>6. Fell \subseteq Fell' /\ (h.raised => h.event \in Fell')
  BY <1>2 DEF Fell
<1>7. AllHeard /\ ~h.raised /\ h.by = DOMAIN HandlerModes => AllHeard'
  BY <1>2 DEF AllHeard
<1>8. ASSUME NEW es \in Seq(HookEvents), Events = es
      PROVE  Events' = Append(es, h.event)
  <2>1. /\ 1 .. Len(fired) = 1 .. Len(es) /\ Len(es) \in Nat /\ Len(fired) = Len(es)
        /\ \A n \in 1 .. Len(es) : fired[n].event = es[n]
    <3>1. 1 .. Len(fired) = 1 .. Len(es)
      BY <1>2, <1>8, EventsAre
    <3>2. Len(es) \in Nat
      OBVIOUS
    <3>3. Len(fired) = Len(es)
      BY <1>2, <3>1, <3>2
    <3>4. QED  BY <1>8, <3>1, <3>2, <3>3, EventsAre
  <2>2. Events' = [n \in 1 .. Len(es) + 1 |-> fired'[n].event]
    BY <1>2, <2>1 DEF Events
  <2>3. \A n \in 1 .. Len(es) + 1 :
          fired'[n].event = IF n = Len(es) + 1 THEN h.event ELSE es[n]
    BY <1>2, <2>1
  <2>4. Append(es, h.event) = [n \in 1 .. Len(es) + 1 |-> IF n = Len(es) + 1 THEN h.event ELSE es[n]]
    BY DEF Hearings
  <2>5. QED  BY <2>2, <2>3, <2>4
<1>9. QED  BY <1>2, <1>3, <1>4, <1>5, <1>6, <1>7, <1>8

\* What fire does to the history of the tools.
LEMMA ToolFiredMore ==
    ASSUME HooksInv, NEW h \in Hearings, toolFired' = Append(toolFired, h),
           h.raised \/ h.by = DOMAIN HandlerModes,
           h.event = "post_tool" => stage \in {"tool", "run_tool", "post_tool"},
           stage' \in {"tool", "run_tool", "post_tool"} => h.event = "pre_tool" /\ ~h.raised
    PROVE  toolFired' \in Seq(Hearings) /\ ToolsHeard' /\ ToolsPaired'
<1>1. toolFired \in Seq(Hearings) /\ ToolsHeard /\ ToolsPaired
  BY DEF HooksInv, HooksTypeOK
<1>2. /\ toolFired' \in Seq(Hearings) /\ toolFired' # <<>>
      /\ Len(toolFired') = Len(toolFired) + 1
      /\ DOMAIN toolFired' = 1 .. Len(toolFired) + 1
      /\ DOMAIN toolFired = 1 .. Len(toolFired)
      /\ Len(toolFired) \in Nat
      /\ toolFired'[Len(toolFired) + 1] = h
      /\ \A n \in DOMAIN toolFired : toolFired'[n] = toolFired[n]
  BY <1>1, OneMoreEvent
<1>3. ToolsHeard'
  BY <1>1, <1>2 DEF ToolsHeard
<1>4. ASSUME NEW n \in DOMAIN toolFired', toolFired'[n].event = "post_tool"
      PROVE  n > 1 /\ toolFired'[n - 1].event = "pre_tool" /\ ~toolFired'[n - 1].raised
  <2>1. CASE n = Len(toolFired) + 1
    <3>1. /\ Len(toolFired) > 0 /\ toolFired[Len(toolFired)].event = "pre_tool"
          /\ ~toolFired[Len(toolFired)].raised
      BY <1>1, <1>2, <1>4, <2>1 DEF ToolsPaired
    <3>2. /\ n > 1 /\ n - 1 = Len(toolFired)
          /\ Len(toolFired) \in DOMAIN toolFired
      BY <1>2, <2>1, <3>1
    <3>3. toolFired'[Len(toolFired)] = toolFired[Len(toolFired)]
      BY <1>2, <3>2
    <3>4. toolFired'[n - 1] = toolFired[Len(toolFired)]
      BY <3>2, <3>3
    <3>5. QED  BY <3>1, <3>2, <3>4
  <2>2. CASE n \in DOMAIN toolFired
    <3>1. toolFired'[n] = toolFired[n]
      BY <1>2, <2>2
    <3>2. /\ n > 1 /\ toolFired[n - 1].event = "pre_tool"
          /\ ~toolFired[n - 1].raised
      BY <1>1, <1>4, <2>2, <3>1 DEF ToolsPaired
    <3>3. n - 1 \in DOMAIN toolFired
      BY <1>2, <2>2, <3>2
    <3>4. QED  BY <1>2, <3>2, <3>3
  <2>3. QED  BY <1>2, <2>1, <2>2
<1>5. stage' \in {"tool", "run_tool", "post_tool"} =>
        /\ Len(toolFired') > 0 /\ toolFired'[Len(toolFired')].event = "pre_tool"
        /\ ~toolFired'[Len(toolFired')].raised
  BY <1>2
<1>6. ToolsPaired'
  BY <1>4, <1>5 DEF ToolsPaired
<1>7. QED  BY <1>2, <1>3, <1>6

\* What is told stays told when nothing fires.
LEMMA NothingIsTold ==
    ASSUME NothingFires
    PROVE  /\ Events' = Events /\ Told' = Told /\ Fell' = Fell /\ OfStream' = OfStream
           /\ AllHeard' = AllHeard /\ ToolsHeard' = ToolsHeard /\ Completed' = Completed
BY DEF NothingFires, Events, Told, Fell, OfStream, AllHeard, ToolsHeard, Completed

\* Whom the history at a place is about: an execution, or a stream.
LEMMA WhoseHistory ==
    ASSUME HooksInv
    PROVE  /\ stage \in InExecution => ~OfStream
           /\ stage \in InStream => OfStream /\ fired # <<>>
           /\ stage = "new" => ~OfStream /\ fired = <<>> /\ Told = {}
<1>1. CASE stage \in InExecution
  BY <1>1 DEF HooksInv, FiredSoFar, OfStream, InExecution, InStream
<1>2. CASE stage \in InStream
  <2>1. Events = <<"pre_llm">>
    BY <1>2 DEF HooksInv, FiredSoFar
  <2>2. DOMAIN fired = 1 .. 1 /\ fired[1].event = "pre_llm"
    <3>1. DOMAIN Events = 1 .. 1 /\ Events[1] = "pre_llm"
      BY <2>1
    <3>2. QED  BY <3>1 DEF Events
  <2>3. fired # <<>>
    BY <2>2
  <2>4. QED  BY <1>2, <2>2, <2>3 DEF OfStream, InStream, InExecution
<1>3. CASE stage = "new"
  <2>1. fired = <<>>
    BY <1>3 DEF HooksInv, FiredSoFar
  <2>2. QED  BY <1>3, <2>1 DEF OfStream, InStream, InExecution, Told
<1>4. QED  BY <1>1, <1>2, <1>3

\* A step to the end: what the caller gets agrees with what was told.
LEMMA EndStep ==
    ASSUME HooksInv, NothingFires, stage' = "done", layer' = layer,
           recorded' \in BOOLEAN,
           recorded' => Completed /\ (ended' = "returned" \/ failure' = "audit"),
           ended' = "returned" => Completed /\ recorded' /\ audited' = <<"start", "complete">>,
           ended' = "raised" =>
              /\ audited' \in {<<>>, <<"start">>, <<"start", "error">>}
              /\ audited' = <<>> <=> fired = <<>> \/ OfStream
              /\ "on_error" \in Told \/ audited' = <<>> \/ (failure' = "audit" /\ Completed)
                   \/ Fell \intersect {"pre_execute", "post_execute", "on_complete",
                                       "on_budget_exceeded", "on_rate_limited"} # {},
           ended' = "cancelled" => OfStream \/ audited' = <<"start">>,
           OfStream \/ ended' = "streamed" =>
              Events = <<"pre_llm">> /\ toolFired = <<>> /\ audited' = <<>>,
           ended' = "streamed" => AllHeard
    PROVE  HooksInv'
<1>1. /\ HooksTypeOK /\ ToolsHeard /\ ToolsPaired /\ FailureTold
  BY DEF HooksInv
<1>2. fired' = fired /\ toolFired' = toolFired
  BY DEF NothingFires
<1>3. HooksTypeOK'
  BY <1>1, <1>2 DEF HooksTypeOK
<1>4. ToolsHeard' /\ ToolsPaired' /\ FiredSoFar' /\ FailureTold'
  BY <1>1, <1>2, NothingIsTold
     DEF ToolsPaired, FiredSoFar, FailureTold, InLoops, InStream
<1>5. HooksTellTheOutcome'
  <2>1. ("on_error" \in Told => "post_execute" \notin Told)'
    BY <1>1, NothingIsTold DEF FailureTold
  <2>2. (ended = "returned" =>
           /\ Completed /\ recorded
           /\ \A n \in DOMAIN toolFired :
                 toolFired[n].raised \/ toolFired[n].by = DOMAIN HandlerModes
           /\ audited = <<"start", "complete">>)'
    BY <1>1, <1>2, NothingIsTold DEF ToolsHeard
  <2>3. (ended = "raised" =>
           /\ audited \in {<<>>, <<"start">>, <<"start", "error">>}
           /\ audited = <<>> <=> fired = <<>> \/ OfStream
           /\ "on_error" \in Told \/ audited = <<>> \/ (failure = "audit" /\ Completed)
                \/ Fell \intersect {"pre_execute", "post_execute", "on_complete",
                                    "on_budget_exceeded", "on_rate_limited"} # {})'
    BY <1>2, NothingIsTold
  <2>4. (OfStream \/ ended = "streamed" =>
           Events = <<"pre_llm">> /\ toolFired = <<>> /\ audited = <<>>)'
    BY <1>2, NothingIsTold
  <2>5. (/\ ended = "cancelled" => OfStream \/ audited = <<"start">>
         /\ ended = "streamed" => \A n \in DOMAIN fired : fired[n].by = DOMAIN HandlerModes)'
    BY <1>2, NothingIsTold DEF AllHeard
  <2>6. (\A n \in DOMAIN toolFired : toolFired[n].event = "post_tool" =>
           n > 1 /\ toolFired[n - 1].event = "pre_tool" /\ ~toolFired[n - 1].raised)'
    BY <1>4 DEF ToolsPaired
  <2>7. (recorded => Completed /\ (ended = "returned" \/ failure = "audit"))'
    BY NothingIsTold
  <2>8. QED
    BY <2>1, <2>2, <2>3, <2>4, <2>5, <2>6, <2>7 DEF HooksTellTheOutcome
<1>6. QED
  BY <1>3, <1>4, <1>5 DEF HooksInv, InExecution, InStream

\* A step inside the loop, of a chain or of the stream before anything is answered:
\* nothing fires and the caller gets nothing.
LEMMA QuietMove ==
    ASSUME HooksInv, NothingFires, Outside, layer' \in Nat,
           stage' \in {"llm", "tool", "opening"} => layer' > 0,
           stage' \in {"tool", "run_tool", "post_tool"} =>
              stage \in {"tool", "run_tool", "post_tool"},
           \/ /\ stage \in InLoops
              /\ stage' \in InLoops \cup {"post_llm", "on_budget_exceeded",
                                          "on_rate_limited", "on_error"}
           \/ stage = "opening" /\ stage' \in InStream
    PROVE  HooksInv'
<1>1. /\ HooksTypeOK /\ ToolsHeard /\ ToolsPaired /\ FiredSoFar /\ FailureTold
      /\ HooksTellTheOutcome
  BY DEF HooksInv
<1>2. /\ fired' = fired /\ toolFired' = toolFired
      /\ audited' = audited /\ recorded' = recorded /\ ended' = ended
  BY DEF NothingFires, Outside
<1>3. HooksTypeOK'
  BY <1>1, <1>2 DEF HooksTypeOK, InLoops, InExecution, InStream
<1>4. ToolsHeard' /\ ToolsPaired'
  BY <1>1, <1>2, NothingIsTold DEF ToolsPaired
<1>5. FiredSoFar'
  BY <1>1, <1>2, NothingIsTold DEF FiredSoFar, InLoops, InStream
<1>6. FailureTold'
  <2>1. CASE stage \in InLoops
    <3>1. Events = <<"pre_execute", "pre_llm">>
      BY <1>1, <2>1 DEF FiredSoFar
    <3>2. DOMAIN fired = 1 .. 2 /\ fired[1].event = "pre_execute" /\ fired[2].event = "pre_llm"
      <4>1. DOMAIN Events = 1 .. 2 /\ Events[1] = "pre_execute" /\ Events[2] = "pre_llm"
        BY <3>1
      <4>2. QED  BY <4>1 DEF Events
    <3>3. "on_error" \notin Told /\ "post_execute" \notin Told
      BY <3>2 DEF Told
    <3>4. QED
      BY <2>1, <3>3, NothingIsTold DEF FailureTold, InLoops, InStream
  <2>2. CASE stage = "opening"
    BY <1>1, <2>2, NothingIsTold DEF FailureTold, InLoops, InStream
  <2>3. QED  BY <2>1, <2>2
<1>7. HooksTellTheOutcome'
  <2>1. ended = "no" /\ ~recorded
    BY DEF HooksInv, InLoops
  <2>2. QED
    BY <1>1, <1>2, <2>1, NothingIsTold DEF HooksTellTheOutcome
<1>8. /\ (stage \in InExecution => audited = <<"start">>)'
      /\ (stage \in InExecution \ {"pre_execute"} =>
            fired # <<>> /\ fired[1].event = "pre_execute")'
      /\ (stage \in {"new"} \cup InStream => audited = <<>>)'
      /\ (stage # "done" => ended = "no")'
      /\ (stage \notin {"failing", "done"} => ~recorded)'
  BY <1>2 DEF HooksInv, InExecution, InStream, InLoops
<1>9. (stage \in (InExecution \cup {"opening", "reading"})
                   \ {"on_error", "failing"} => AllHeard)'
  BY NothingIsTold DEF HooksInv, InExecution, InStream, InLoops
<1>10. QED
  BY <1>3, <1>4, <1>5, <1>6, <1>7, <1>8, <1>9 DEF HooksInv

\* One handler after the other: some hear the event, and all of them unless one raises.
LEMMA SomeHear ==
    ASSUME HooksAssumption, NEW e \in HookEvents, NEW h \in Heard(e)
    PROVE  h \in Hearings /\ h.event = e /\ (h.raised \/ h.by = DOMAIN HandlerModes)
<1>1. CASE h = [event |-> e, by |-> DOMAIN HandlerModes, raised |-> FALSE]
  BY <1>1 DEF Hearings
<1>2. CASE \E n \in Sequential :
             h = [event |-> e, by |-> {m \in Sequential : m <= n}, raised |-> TRUE]
  BY <1>2 DEF Hearings, Sequential
<1>3. QED  BY <1>1, <1>2 DEF Heard

\* What FiresAt does for an event of the execution, and for one of a tool.
LEMMA ExecutionHears ==
    ASSUME HooksAssumption, HooksTypeOK, NEW e \in HookEvents \ ToolEvents,
           NEW place, NEW next, NEW caught, NEW f, FiresAt(place, e, next, caught, f)
    PROVE  /\ stage = place
           /\ \E h \in Hearings :
                /\ h.event = e /\ (h.raised \/ h.by = DOMAIN HandlerModes)
                /\ fired' = Append(fired, h) /\ toolFired' = toolFired
                /\ stage' = IF h.raised THEN caught ELSE next
           /\ layer' \in Nat /\ (next \in {"llm", "tool", "opening"} => layer' > 0)
           /\ Outside
BY SomeHear DEF FiresAt, ToolEvents

LEMMA ToolHears ==
    ASSUME HooksAssumption, HooksTypeOK, NEW e \in ToolEvents,
           NEW place, NEW next, NEW caught, NEW f, FiresAt(place, e, next, caught, f)
    PROVE  /\ stage = place
           /\ \E h \in Hearings :
                /\ h.event = e /\ (h.raised \/ h.by = DOMAIN HandlerModes)
                /\ toolFired' = Append(toolFired, h) /\ fired' = fired
                /\ stage' = IF h.raised THEN caught ELSE next
           /\ layer' \in Nat /\ (next \in {"llm", "tool", "opening"} => layer' > 0)
           /\ Outside
<1>1. e \in HookEvents
  BY DEF ToolEvents, HookEvents
<1>2. QED  BY <1>1, SomeHear DEF FiresAt

\* An event of the execution fires, and the execution goes on.
LEMMA Fired ==
    ASSUME HooksInv, NEW h \in Hearings, fired' = Append(fired, h), toolFired' = toolFired,
           Outside, stage \in InExecution \ {"failing"},
           stage = "pre_execute" => h.event = "pre_execute",
           stage' \in InExecution \ {"pre_execute", "pre_tool", "tool", "run_tool", "post_tool"},
           layer' \in Nat, stage' = "llm" => layer' > 0,
           FiredSoFar', FailureTold', stage' \notin {"on_error", "failing"} => AllHeard'
    PROVE  HooksInv'
<1>1. /\ HooksTypeOK /\ ToolsHeard /\ ToolsPaired /\ audited = <<"start">>
      /\ ended = "no" /\ ~recorded
  BY DEF HooksInv, InExecution
<1>2. /\ fired' \in Seq(Hearings) /\ fired' # <<>>
      /\ fired # <<>> => fired'[1] = fired[1]
      /\ fired = <<>> => fired'[1] = h
  BY <1>1, FiredMore
<1>3. fired'[1].event = "pre_execute"
  <2>1. CASE stage = "pre_execute"
    BY <1>2, <2>1 DEF HooksInv, FiredSoFar
  <2>2. CASE stage # "pre_execute"
    BY <1>2, <2>2 DEF HooksInv
  <2>3. QED  BY <2>1, <2>2
<1>4. audited' = audited /\ recorded' = recorded /\ ended' = ended
  BY DEF Outside
<1>5. HooksTypeOK'
  BY <1>1, <1>2, <1>4 DEF HooksTypeOK, InExecution
<1>6. ToolsHeard' /\ ToolsPaired'
  BY <1>1 DEF ToolsHeard, ToolsPaired
<1>7. ~OfStream'
  BY <1>3 DEF OfStream
<1>8. HooksTellTheOutcome'
  BY <1>1, <1>4, <1>6, <1>7 DEF HooksTellTheOutcome, FailureTold, ToolsPaired
<1>9. QED
  BY <1>1, <1>2, <1>3, <1>4, <1>5, <1>6, <1>8 DEF HooksInv, InExecution, InStream

\* The same, told by the place and by the history there.
LEMMA FiredAfter ==
    ASSUME HooksAssumption, HooksInv,
           NEW e \in HookEvents \ ToolEvents, NEW es \in Seq(HookEvents), Events = es,
           NEW place, NEW next, NEW caught, NEW f, FiresAt(place, e, next, caught, f)
    PROVE  /\ stage = place
           /\ Events' = Append(es, e)
           /\ Told' = Told \cup {e}
           /\ es \in Seq(HookEvents \ {"on_error", "post_execute"}) =>
                "on_error" \notin Told /\ "post_execute" \notin Told
           /\ toolFired' = toolFired
           /\ \/ stage' = next /\ (AllHeard => AllHeard')
              \/ stage' = caught /\ e \in Fell'
<1>1. stage = place
  BY ExecutionHears DEF HooksInv
<1>2. PICK h \in Hearings :
        /\ h.event = e /\ (h.raised \/ h.by = DOMAIN HandlerModes)
        /\ fired' = Append(fired, h) /\ toolFired' = toolFired
        /\ stage' = IF h.raised THEN caught ELSE next
  BY ExecutionHears DEF HooksInv
<1>3. HooksTypeOK
  BY DEF HooksInv
<1>4. Events' = Append(es, e) /\ Told' = Told \cup {e}
  BY <1>2, <1>3, FiredMore
<1>5. ASSUME es \in Seq(HookEvents \ {"on_error", "post_execute"})
      PROVE  "on_error" \notin Told /\ "post_execute" \notin Told
  <2>1. \A n \in 1 .. Len(es) : es[n] \notin {"on_error", "post_execute"}
    BY <1>5
  <2>2. QED  BY <2>1, EventsAre
<1>6. IF h.raised THEN e \in Fell' ELSE AllHeard => AllHeard'
  BY <1>2, <1>3, FiredMore
<1>7. QED  BY <1>1, <1>2, <1>4, <1>5, <1>6

LEMMA FiredOn ==
    ASSUME HooksAssumption, HooksInv, NEW e \in HookEvents \ ToolEvents,
           NEW place \in InExecution \ {"failing"}, NEW next, NEW caught, NEW f,
           FiresAt(place, e, next, caught, f),
           place = "pre_execute" => e = "pre_execute",
           {next, caught} \subseteq
              InExecution \ {"pre_execute", "pre_tool", "tool", "run_tool", "post_tool"},
           caught # "llm",
           FiredSoFar', FailureTold', stage' \notin {"on_error", "failing"} => AllHeard'
    PROVE  HooksInv'
<1>1. PICK h \in Hearings :
        /\ h.event = e /\ (h.raised \/ h.by = DOMAIN HandlerModes)
        /\ fired' = Append(fired, h) /\ toolFired' = toolFired
        /\ stage' = IF h.raised THEN caught ELSE next
  BY ExecutionHears DEF HooksInv
<1>2. /\ stage = place /\ Outside
      /\ layer' \in Nat /\ (next \in {"llm", "tool", "opening"} => layer' > 0)
  BY ExecutionHears DEF HooksInv
<1>3. QED
  BY <1>1, <1>2, Fired

\* A sequence that is written out, and one element more.
LEMMA WrittenOut ==
    ASSUME NEW S, NEW a \in S, NEW b \in S, NEW c \in S, NEW d \in S, NEW e \in S
    PROVE  /\ Append(<<a>>, b) = <<a, b>> /\ Append(<<a, b>>, c) = <<a, b, c>>
           /\ Append(<<a, b, c>>, d) = <<a, b, c, d>>
           /\ Append(<<a, b, c, d>>, e) = <<a, b, c, d, e>>
<1>1. Append(<<a>>, b) = <<a, b>>
  <2>1. Append(<<a>>, b) \in Seq(S) /\ <<a, b>> \in Seq(S)
    OBVIOUS
  <2>2. Len(Append(<<a>>, b)) = 2 /\ Len(<<a, b>>) = 2
    OBVIOUS
  <2>3. \A n \in 1 .. 2 : Append(<<a>>, b)[n] = <<a, b>>[n]
    OBVIOUS
  <2>4. QED  BY <2>1, <2>2, <2>3, SeqEqual
<1>2. Append(<<a, b>>, c) = <<a, b, c>>
  <2>1. Append(<<a, b>>, c) \in Seq(S) /\ <<a, b, c>> \in Seq(S)
    OBVIOUS
  <2>2. Len(Append(<<a, b>>, c)) = 3 /\ Len(<<a, b, c>>) = 3
    OBVIOUS
  <2>3. \A n \in 1 .. 3 : Append(<<a, b>>, c)[n] = <<a, b, c>>[n]
    OBVIOUS
  <2>4. QED  BY <2>1, <2>2, <2>3, SeqEqual
<1>3. Append(<<a, b, c>>, d) = <<a, b, c, d>>
  <2>1. Append(<<a, b, c>>, d) \in Seq(S) /\ <<a, b, c, d>> \in Seq(S)
    OBVIOUS
  <2>2. Len(Append(<<a, b, c>>, d)) = 4 /\ Len(<<a, b, c, d>>) = 4
    OBVIOUS
  <2>3. \A n \in 1 .. 4 : Append(<<a, b, c>>, d)[n] = <<a, b, c, d>>[n]
    OBVIOUS
  <2>4. QED  BY <2>1, <2>2, <2>3, SeqEqual
<1>4. Append(<<a, b, c, d>>, e) = <<a, b, c, d, e>>
  <2>1. Append(<<a, b, c, d>>, e) \in Seq(S) /\ <<a, b, c, d, e>> \in Seq(S)
    OBVIOUS
  <2>2. Len(Append(<<a, b, c, d>>, e)) = 5 /\ Len(<<a, b, c, d, e>>) = 5
    OBVIOUS
  <2>3. \A n \in 1 .. 5 : Append(<<a, b, c, d>>, e)[n] = <<a, b, c, d, e>>[n]
    OBVIOUS
  <2>4. QED  BY <2>1, <2>2, <2>3, SeqEqual
<1>5. QED  BY <1>1, <1>2, <1>3, <1>4

\* The histories of the places, one event after the other.
LEMMA HistoriesAre ==
    /\ Append(<<"pre_execute">>, "pre_llm") = <<"pre_execute", "pre_llm">>
    /\ Append(<<"pre_execute", "pre_llm">>, "post_llm") =
          <<"pre_execute", "pre_llm", "post_llm">>
    /\ Append(<<"pre_execute", "pre_llm", "post_llm">>, "post_execute") =
          <<"pre_execute", "pre_llm", "post_llm", "post_execute">>
    /\ Append(<<"pre_execute", "pre_llm", "post_llm", "post_execute">>, "on_complete") =
          <<"pre_execute", "pre_llm", "post_llm", "post_execute", "on_complete">>
<1>1. {"pre_execute", "pre_llm", "post_llm", "post_execute", "on_complete"} \subseteq HookEvents
  BY DEF HookEvents
<1>2. QED  BY <1>1, WrittenOut

\* The events before the loop.
LEMMA FirePreExecuteStep ==
    ASSUME HooksAssumption, HooksInv, FirePreExecute
    PROVE  HooksInv'
<1>1. FiresAt("pre_execute", "pre_execute", "pre_llm", "failing", "hook")
  BY DEF FirePreExecute, Fires
<1>2. stage = "pre_execute"
  BY <1>1 DEF FiresAt
<1>3. fired = <<>> /\ toolFired = <<>> /\ AllHeard
  BY <1>2 DEF HooksInv, FiredSoFar, InExecution
<1>4. "pre_execute" \in HookEvents \ ToolEvents /\ "pre_execute" \in InExecution
  BY DEF HookEvents, ToolEvents, InExecution
<1>5. Events = <<>> /\ <<>> \in Seq(HookEvents) /\ Told = {}
  BY <1>3 DEF Events, Told
<1>6. /\ Events' = Append(<<>>, "pre_execute") /\ toolFired' = toolFired
      /\ Told' = {"pre_execute"}
      /\ \/ stage' = "pre_llm" /\ AllHeard'
         \/ stage' = "failing" /\ "pre_execute" \in Fell'
  BY <1>1, <1>3, <1>4, <1>5, FiredAfter
<1>7. FiredSoFar' /\ FailureTold'
  BY <1>3, <1>6 DEF FiredSoFar, FailureTold, InLoops, InStream
<1>8. QED
  BY <1>1, <1>4, <1>6, <1>7, FiredOn DEF InExecution

LEMMA FirePreLLMStep ==
    ASSUME HooksAssumption, HooksInv, FirePreLLM
    PROVE  HooksInv'
<1> DEFINE next == IF LlmWraps = 0 THEN "loop" ELSE "llm"
<1>1. FiresAt("pre_llm", "pre_llm", next, "on_error", "hook")
  BY DEF FirePreLLM, Fires
<1>2. stage = "pre_llm"
  BY <1>1 DEF FiresAt
<1>3. Events = <<"pre_execute">> /\ toolFired = <<>> /\ AllHeard
  BY <1>2 DEF HooksInv, FiredSoFar, InExecution
<1>4. "pre_llm" \in HookEvents \ ToolEvents /\ "pre_llm" \in InExecution
  BY DEF HookEvents, ToolEvents, InExecution
<1>5. /\ <<"pre_execute">> \in Seq(HookEvents)
      /\ <<"pre_execute">> \in Seq(HookEvents \ {"on_error", "post_execute"})
  BY DEF HookEvents
<1>6. next \in {"loop", "llm"}
  OBVIOUS
<1> HIDE DEF next
<1>7. /\ Events' = Append(<<"pre_execute">>, "pre_llm") /\ toolFired' = toolFired
      /\ Told' = Told \cup {"pre_llm"} /\ "on_error" \notin Told /\ "post_execute" \notin Told
      /\ \/ stage' = next /\ AllHeard'
         \/ stage' = "on_error" /\ "pre_llm" \in Fell'
  BY <1>1, <1>3, <1>4, <1>5, FiredAfter
<1>8. Events' = <<"pre_execute", "pre_llm">>
  BY <1>7, HistoriesAre
<1>9. FiredSoFar' /\ FailureTold'
  BY <1>6, <1>7, <1>8 DEF FiredSoFar, FailureTold, InLoops, InStream
<1>10. QED
  BY <1>1, <1>4, <1>6, <1>7, <1>9, FiredOn DEF InExecution

\* The events after it.
LEMMA FirePostLLMStep ==
    ASSUME HooksAssumption, HooksInv, FirePostLLM
    PROVE  HooksInv'
<1> DEFINE es == <<"pre_execute", "pre_llm">>
<1>1. FiresAt("post_llm", "post_llm", "post_execute", "on_error", "hook")
  BY DEF FirePostLLM, Fires
<1>2. stage = "post_llm"
  BY <1>1 DEF FiresAt
<1>3. Events = es /\ AllHeard
  BY <1>2 DEF HooksInv, FiredSoFar, InExecution
<1>4. "post_llm" \in HookEvents \ ToolEvents /\ "post_llm" \in InExecution
  BY DEF HookEvents, ToolEvents, InExecution
<1>5. es \in Seq(HookEvents) /\ es \in Seq(HookEvents \ {"on_error", "post_execute"})
  BY DEF HookEvents
<1>6. Append(es, "post_llm") = <<"pre_execute", "pre_llm", "post_llm">>
  BY HistoriesAre
<1> HIDE DEF es
<1>7. /\ Events' = Append(es, "post_llm")
      /\ Told' = Told \cup {"post_llm"} /\ "on_error" \notin Told /\ "post_execute" \notin Told
      /\ \/ stage' = "post_execute" /\ AllHeard'
         \/ stage' = "on_error" /\ "post_llm" \in Fell'
  BY <1>1, <1>3, <1>4, <1>5, FiredAfter
<1>8. FiredSoFar' /\ FailureTold'
  BY <1>6, <1>7 DEF FiredSoFar, FailureTold, InLoops, InStream
<1>9. QED
  BY <1>1, <1>4, <1>7, <1>8, FiredOn DEF InExecution

LEMMA FirePostExecuteStep ==
    ASSUME HooksAssumption, HooksInv, FirePostExecute
    PROVE  HooksInv'
<1> DEFINE es == <<"pre_execute", "pre_llm", "post_llm">>
<1>1. FiresAt("post_execute", "post_execute", "on_complete", "failing", "hook")
  BY DEF FirePostExecute, Fires
<1>2. stage = "post_execute"
  BY <1>1 DEF FiresAt
<1>3. Events = es /\ AllHeard
  BY <1>2 DEF HooksInv, FiredSoFar, InExecution
<1>4. "post_execute" \in HookEvents \ ToolEvents /\ "post_execute" \in InExecution
  BY DEF HookEvents, ToolEvents, InExecution
<1>5. es \in Seq(HookEvents) /\ es \in Seq(HookEvents \ {"on_error", "post_execute"})
  BY DEF HookEvents
<1>6. Append(es, "post_execute") = <<"pre_execute", "pre_llm", "post_llm", "post_execute">>
  BY HistoriesAre
<1> HIDE DEF es
<1>7. /\ Events' = Append(es, "post_execute")
      /\ Told' = Told \cup {"post_execute"} /\ "on_error" \notin Told /\ "post_execute" \notin Told
      /\ \/ stage' = "on_complete" /\ AllHeard'
         \/ stage' = "failing" /\ "post_execute" \in Fell'
  BY <1>1, <1>3, <1>4, <1>5, FiredAfter
<1>8. FiredSoFar' /\ FailureTold'
  BY <1>6, <1>7 DEF FiredSoFar, FailureTold, InLoops, InStream
<1>9. QED
  BY <1>1, <1>4, <1>7, <1>8, FiredOn DEF InExecution

LEMMA FireOnCompleteStep ==
    ASSUME HooksAssumption, HooksInv, FireOnComplete
    PROVE  HooksInv'
<1> DEFINE es == <<"pre_execute", "pre_llm", "post_llm", "post_execute">>
<1>1. FiresAt("on_complete", "on_complete", "answered", "failing", "hook")
  BY DEF FireOnComplete, Fires
<1>2. stage = "on_complete"
  BY <1>1 DEF FiresAt
<1>3. Events = es /\ AllHeard /\ FailureTold
  BY <1>2 DEF HooksInv, FiredSoFar, InExecution
<1>4. "on_complete" \in HookEvents \ ToolEvents /\ "on_complete" \in InExecution
  BY DEF HookEvents, ToolEvents, InExecution
<1>5. es \in Seq(HookEvents)
  BY DEF HookEvents
<1>6. Append(es, "on_complete") =
        <<"pre_execute", "pre_llm", "post_llm", "post_execute", "on_complete">>
  BY HistoriesAre
<1> HIDE DEF es
<1>7. /\ Events' = Append(es, "on_complete")
      /\ Told' = Told \cup {"on_complete"}
      /\ \/ stage' = "answered" /\ AllHeard'
         \/ stage' = "failing" /\ "on_complete" \in Fell'
  BY <1>1, <1>3, <1>4, <1>5, FiredAfter
<1>8. FiredSoFar' /\ FailureTold'
  BY <1>3, <1>6, <1>7 DEF FiredSoFar, FailureTold, InLoops, InStream
<1>9. QED
  BY <1>1, <1>4, <1>7, <1>8, FiredOn DEF InExecution

\* A limit that was met in the loop is told to its own event, and then to ON_ERROR.
LEMMA FireLimitStep ==
    ASSUME HooksAssumption, HooksInv, FireOnBudget \/ FireOnRate
    PROVE  HooksInv'
<1> DEFINE es == <<"pre_execute", "pre_llm">>
<1>1. PICK e \in {"on_budget_exceeded", "on_rate_limited"} :
        FiresAt(e, e, "on_error", "failing", "hook")
  BY DEF FireOnBudget, FireOnRate, Fires
<1>2. stage = e
  BY <1>1 DEF FiresAt
<1>3. Events = es
  BY <1>2 DEF HooksInv, FiredSoFar
<1>4. e \in HookEvents \ ToolEvents /\ e \in InExecution
  BY DEF HookEvents, ToolEvents, InExecution
<1>5. es \in Seq(HookEvents) /\ es \in Seq(HookEvents \ {"on_error", "post_execute"})
  BY DEF HookEvents
<1> HIDE DEF es
<1>6. /\ Told' = Told \cup {e} /\ "on_error" \notin Told /\ "post_execute" \notin Told
      /\ stage' = "on_error" \/ (stage' = "failing" /\ e \in Fell')
  BY <1>1, <1>3, <1>4, <1>5, FiredAfter
<1>7. FiredSoFar' /\ FailureTold'
  BY <1>6 DEF FiredSoFar, FailureTold, InLoops, InStream
<1>8. QED
  BY <1>1, <1>4, <1>6, <1>7, FiredOn DEF InExecution

LEMMA FireOnErrorStep ==
    ASSUME HooksAssumption, HooksInv, FireOnError
    PROVE  HooksInv'
<1>1. FiresAt("on_error", "on_error", "failing", "failing", "hook")
  BY DEF FireOnError, Fires
<1>2. stage = "on_error" /\ stage' = "failing"
  BY <1>1 DEF FiresAt
<1>3. "on_error" \in HookEvents \ ToolEvents /\ "on_error" \in InExecution
  BY DEF HookEvents, ToolEvents, InExecution
<1>4. HooksTypeOK /\ "post_execute" \notin Told
  BY <1>2 DEF HooksInv, FailureTold
<1>5. PICK h \in Hearings : h.event = "on_error" /\ fired' = Append(fired, h)
  BY <1>1, <1>3, <1>4, ExecutionHears
<1>6. Told' = Told \cup {"on_error"}
  BY <1>4, <1>5, FiredMore
<1>7. FiredSoFar' /\ FailureTold'
  BY <1>2, <1>4, <1>6 DEF FiredSoFar, FailureTold, InLoops, InStream
<1>8. QED
  BY <1>1, <1>2, <1>3, <1>7, FiredOn DEF InExecution

\* The events of a tool: its history grows and the execution goes on in the loop.
LEMMA FireToolStep ==
    ASSUME HooksAssumption, HooksInv, FirePreTool \/ FirePostTool
    PROVE  HooksInv'
<1>1. PICK e \in ToolEvents, next \in {"run_tool", "tool", "loop"} :
        /\ FiresAt(e, e, next, "loop", "none")
        /\ e = "post_tool" => next = "loop"
  BY DEF FirePreTool, FirePostTool, Fires, ToolEvents
<1>2. HooksTypeOK /\ FiredSoFar /\ FailureTold /\ HooksTellTheOutcome
  BY DEF HooksInv
<1>3. PICK h \in Hearings :
        /\ h.event = e /\ (h.raised \/ h.by = DOMAIN HandlerModes)
        /\ toolFired' = Append(toolFired, h) /\ fired' = fired
        /\ stage' = IF h.raised THEN "loop" ELSE next
  BY <1>1, <1>2, ToolHears
<1>4. /\ stage = e /\ layer' \in Nat /\ (next \in {"llm", "tool", "opening"} => layer' > 0)
      /\ audited' = audited /\ recorded' = recorded /\ ended' = ended
  BY <1>1, <1>2, ToolHears DEF Outside
<1>5. toolFired' \in Seq(Hearings) /\ ToolsHeard' /\ ToolsPaired'
  BY <1>1, <1>3, <1>4, ToolFiredMore DEF ToolEvents
<1>6. /\ Events' = Events /\ Told' = Told /\ Fell' = Fell /\ OfStream' = OfStream
      /\ AllHeard' = AllHeard
  BY <1>3 DEF Events, Told, Fell, OfStream, AllHeard
<1>7. HooksTypeOK'
  BY <1>2, <1>3, <1>4, <1>5 DEF HooksTypeOK, InExecution
<1>8. FiredSoFar' /\ FailureTold'
  BY <1>1, <1>2, <1>3, <1>4, <1>6
     DEF FiredSoFar, FailureTold, InLoops, InStream, ToolEvents
<1>9. HooksTellTheOutcome'
  <2>1. ended = "no" /\ ~recorded /\ ~OfStream
    BY <1>1, <1>4, WhoseHistory DEF HooksInv, InExecution, ToolEvents
  <2>2. QED
    BY <1>2, <1>4, <1>5, <1>6, <2>1 DEF HooksTellTheOutcome, ToolsPaired
<1>10. QED
  BY <1>1, <1>3, <1>4, <1>5, <1>6, <1>7, <1>8, <1>9
     DEF HooksInv, InExecution, InStream, ToolEvents

\* Control comes back from a chain, or goes on in it.
LEMMA BackMoves ==
    ASSUME HooksInv, NEW c \in {"llm", "tool", "opening"}, NEW l \in Nat, NEW f,
           Back(c, l, f),
           \/ c = "llm" /\ stage \in {"llm", "loop"}
           \/ c = "tool" /\ stage \in {"tool", "run_tool"}
           \/ c = "opening" /\ stage = "opening"
    PROVE  HooksInv'
<1>1. /\ NothingFires /\ Outside /\ layer' = l
      /\ l > 0 => stage' = c
      /\ l = 0 /\ c = "llm" =>
           stage' \in {"post_llm", "on_budget_exceeded", "on_rate_limited", "on_error"}
      /\ l = 0 /\ c = "tool" => stage' \in {"post_tool", "loop"}
      /\ l = 0 /\ c = "opening" => stage' \in {"reading", "stopped"}
  <2>1. NothingFires /\ Outside /\ layer' = l
    BY DEF Back
  <2>2. CASE l > 0
    <3>1. stage' = c
      BY <2>2 DEF Back
    <3>2. QED  BY <2>1, <2>2, <3>1
  <2>3. CASE l = 0 /\ c = "llm"
    <3>1. stage' = IF f = "none" THEN "post_llm" ELSE Caught(f)
      BY <2>3 DEF Back
    <3>2. Caught(f) \in {"on_budget_exceeded", "on_rate_limited", "on_error"}
      BY DEF Caught
    <3>3. QED  BY <2>1, <2>3, <3>1, <3>2
  <2>4. CASE l = 0 /\ c = "tool"
    <3>1. stage' = IF f = "none" THEN "post_tool" ELSE "loop"
      BY <2>4 DEF Back
    <3>2. QED  BY <2>1, <2>4, <3>1
  <2>5. CASE l = 0 /\ c = "opening"
    <3>1. stage' = IF f = "none" THEN "reading" ELSE "stopped"
      BY <2>5 DEF Back
    <3>2. QED  BY <2>1, <2>5, <3>1
  <2>6. QED  BY <2>2, <2>3, <2>4, <2>5
<1>2. \/ /\ stage \in InLoops
         /\ stage' \in InLoops \cup {"post_llm", "on_budget_exceeded",
                                     "on_rate_limited", "on_error"}
      \/ stage = "opening" /\ stage' \in InStream
  BY <1>1 DEF InLoops, InStream
<1>3. /\ stage' \in {"llm", "tool", "opening"} => layer' > 0
      /\ stage' \in {"tool", "run_tool", "post_tool"} =>
           stage \in {"tool", "run_tool", "post_tool"}
  BY <1>1
<1>4. QED
  BY <1>1, <1>2, <1>3, QuietMove

LEMMA ChainSteps ==
    ASSUME HooksAssumption, HooksInv,
           WrapEnds \/ LoopEnds \/ ForbiddenTool \/ ToolEnds
    PROVE  HooksInv'
<1> USE DEF HooksAssumption
<1>1. CASE WrapEnds
  <2>1. PICK f : Back(stage, layer - 1, f)
    BY <1>1 DEF WrapEnds
  <2>2. stage \in {"llm", "tool", "opening"} /\ layer - 1 \in Nat
    BY <1>1 DEF WrapEnds, HooksInv, HooksTypeOK
  <2>3. QED  BY <2>1, <2>2, BackMoves
<1>2. CASE LoopEnds \/ ForbiddenTool
  BY <1>2, BackMoves DEF LoopEnds, ForbiddenTool
<1>3. CASE ToolEnds
  BY <1>3, BackMoves DEF ToolEnds
<1>4. QED  BY <1>1, <1>2, <1>3

LEMMA InnerSteps ==
    ASSUME HooksInv, CallNext \/ CallTool \/ OpenNext
    PROVE  HooksInv'
<1>1. layer \in Nat
  BY DEF HooksInv, HooksTypeOK
<1>2. CASE CallNext
  <2>1. /\ NothingFires /\ Outside /\ stage \in {"llm", "tool"}
        /\ \/ stage' = (IF stage = "llm" THEN "loop" ELSE "run_tool") /\ layer' = 0
           \/ stage' = stage /\ layer' = layer + 1
    BY <1>2 DEF CallNext
  <2>2. QED  BY <1>1, <2>1, QuietMove DEF InLoops
<1>3. CASE CallTool
  <2>1. /\ NothingFires /\ Outside /\ stage = "loop" /\ stage' = "pre_tool" /\ layer' = layer
    BY <1>3 DEF CallTool
  <2>2. QED  BY <1>1, <2>1, QuietMove DEF InLoops
<1>4. CASE OpenNext
  <2>1. /\ NothingFires /\ Outside /\ stage = "opening" /\ stage' = stage
        /\ layer' = layer + 1
    BY <1>4 DEF OpenNext
  <2>2. QED  BY <1>1, <2>1, QuietMove DEF InStream
<1>5. QED  BY <1>2, <1>3, <1>4

\* The audit log at the end of an execution.
LEMMA TwoInOrder ==
    ASSUME NEW S, NEW a \in S, NEW b \in S
    PROVE  <<a>> \o <<b>> = <<a, b>> /\ <<a>> \o <<>> = <<a>> /\ <<a>> # <<>>
<1>1. <<a>> \in Seq(S) /\ <<a, b>> \in Seq(S) /\ <<a>> \o <<b>> \in Seq(S)
  OBVIOUS
<1>2. Len(<<a>> \o <<b>>) = 2 /\ Len(<<a, b>>) = 2
  OBVIOUS
<1>3. \A n \in 1 .. 2 : (<<a>> \o <<b>>)[n] = <<a, b>>[n]
  OBVIOUS
<1>4. <<a>> \o <<b>> = <<a, b>>
  BY <1>1, <1>2, <1>3, SeqEqual
<1>5. <<a>> \o <<>> = <<a>>
  BY <1>1, ConcatEmptySeq
<1>6. <<a>> # <<>>
  OBVIOUS
<1>7. QED  BY <1>4, <1>5, <1>6

LEMMA AuditEnds ==
    /\ <<"start">> \o <<"complete">> = <<"start", "complete">>
    /\ <<"start">> \o <<"error">> = <<"start", "error">>
    /\ <<"start">> \o <<>> = <<"start">> /\ <<>> \o <<>> = <<>>
    /\ <<"start">> # <<>> /\ <<"start", "error">> # <<>>
<1> DEFINE AuditEvents == {"start", "complete", "error"}
<1>1. "start" \in AuditEvents /\ "complete" \in AuditEvents /\ "error" \in AuditEvents
  OBVIOUS
<1> HIDE DEF AuditEvents
<1>2. <<"start">> \o <<"complete">> = <<"start", "complete">>
  BY <1>1, TwoInOrder
<1>3. <<"start">> \o <<"error">> = <<"start", "error">>
  BY <1>1, TwoInOrder
<1>4. <<"start">> \o <<>> = <<"start">> /\ <<"start">> # <<>>
  BY <1>1, TwoInOrder
<1>5. <<>> \o <<>> = <<>>
  OBVIOUS
<1>6. <<"start", "error">> # <<>>
  OBVIOUS
<1>7. QED  BY <1>2, <1>3, <1>4, <1>5, <1>6

\* A completed execution fails, and RaiseFailure is what it comes to.
LEMMA CompleteFailsStep ==
    ASSUME HooksInv, CompleteFails
    PROVE  HooksInv'
<1>1. /\ stage = "answered" /\ stage' = "failing" /\ failure' = "audit"
      /\ recorded' \in BOOLEAN /\ NothingFires
      /\ layer' = layer /\ audited' = audited /\ ended' = ended
  BY DEF CompleteFails
<1>2. /\ HooksTypeOK /\ ToolsHeard /\ ToolsPaired /\ FailureTold /\ HooksTellTheOutcome
      /\ audited = <<"start">> /\ ended = "no"
      /\ fired # <<>> /\ fired[1].event = "pre_execute"
  BY <1>1 DEF HooksInv, InExecution
<1>3. Completed
  BY <1>1 DEF HooksInv, FiredSoFar, InExecution, AllHeard, Completed
<1>4. /\ fired' = fired /\ toolFired' = toolFired /\ ~OfStream
  BY <1>1, WhoseHistory DEF NothingFires, InExecution
<1>5. HooksTypeOK' /\ ToolsHeard' /\ ToolsPaired' /\ FiredSoFar' /\ FailureTold'
  <2>1. HooksTypeOK'
    BY <1>1, <1>2, <1>4 DEF HooksTypeOK, InExecution
  <2>2. ToolsHeard' /\ ToolsPaired' /\ FiredSoFar'
    BY <1>1, <1>2, <1>4, NothingIsTold DEF ToolsPaired, FiredSoFar, InLoops, InStream
  <2>3. FailureTold'
    BY <1>1, <1>2, <1>3, NothingIsTold DEF FailureTold
  <2>4. QED  BY <2>1, <2>2, <2>3
<1>6. HooksTellTheOutcome'
  BY <1>1, <1>2, <1>3, <1>4, NothingIsTold DEF HooksTellTheOutcome
<1>7. QED
  BY <1>1, <1>2, <1>4, <1>5, <1>6 DEF HooksInv, InExecution, InStream

LEMMA EndSteps ==
    ASSUME HooksInv,
           \/ ReturnResult \/ CompleteFails \/ RaiseFailure \/ CancelExecution
           \/ StreamEnds \/ StreamFails \/ RefuseExecution
    PROVE  HooksInv'
<1>1. recorded \in BOOLEAN /\ (stage \notin {"failing", "done"} => ~recorded)
  BY DEF HooksInv, HooksTypeOK
<1>2. CASE ReturnResult
  <2>1. /\ stage = "answered" /\ NothingFires /\ stage' = "done" /\ layer' = layer
        /\ recorded' = TRUE /\ ended' = "returned"
        /\ audited' = audited \o <<"complete">>
    BY <1>2 DEF ReturnResult, EndExecution
  <2>2. Completed /\ audited = <<"start">> /\ ~OfStream
    BY <2>1, WhoseHistory DEF HooksInv, FiredSoFar, InExecution, AllHeard, Completed
  <2>3. QED  BY <2>1, <2>2, AuditEnds, <1>1, EndStep
<1>3. CASE RaiseFailure
  <2>1. /\ stage = "failing" /\ NothingFires /\ stage' = "done" /\ layer' = layer
        /\ recorded' = recorded /\ ended' = "raised" /\ failure' = failure
        /\ audited' = audited \o <<"error">> \/ audited' = audited \o <<>>
    BY <1>3 DEF RaiseFailure, EndExecution
  <2>2. /\ audited = <<"start">> /\ ~OfStream /\ fired # <<>>
        /\ "on_error" \in Told \/ (failure = "audit" /\ Completed)
             \/ Fell \intersect {"pre_execute", "post_execute", "on_complete",
                                 "on_budget_exceeded", "on_rate_limited"} # {}
    BY <2>1, WhoseHistory DEF HooksInv, FailureTold, InExecution
  <2>3. audited' \in {<<"start">>, <<"start", "error">>} /\ audited' # <<>>
    BY <2>1, <2>2, AuditEnds
  <2>4. recorded => Completed /\ failure = "audit"
    BY <2>1 DEF HooksInv, HooksTellTheOutcome
  <2>5. QED  BY <2>1, <2>2, <2>3, <2>4, <1>1, EndStep
<1>4. CASE CancelExecution
  <2>1. /\ stage \notin {"new", "failing", "done"} /\ NothingFires /\ stage' = "done"
        /\ layer' = layer /\ recorded' = recorded /\ ended' = "cancelled"
        /\ audited' = audited \o <<>>
    BY <1>4 DEF CancelExecution, EndExecution
  <2>2. ~recorded
    BY <2>1 DEF HooksInv
  <2>3. CASE stage \in InExecution
    <3>1. audited' = <<"start">> /\ ~OfStream
      BY <2>1, <2>3, AuditEnds, WhoseHistory DEF HooksInv
    <3>2. QED  BY <2>1, <2>2, <3>1, <1>1, EndStep
  <2>4. CASE stage \in InStream
    <3>1. audited' = <<>> /\ OfStream /\ Events = <<"pre_llm">> /\ toolFired = <<>>
      BY <2>1, <2>4, AuditEnds, WhoseHistory DEF HooksInv, FiredSoFar
    <3>2. QED  BY <2>1, <2>2, <3>1, <1>1, EndStep
  <2>5. QED
    BY <2>1, <2>3, <2>4 DEF HooksInv, HooksTypeOK
<1>5. CASE StreamEnds \/ StreamFails
  <2>1. /\ stage \in {"reading", "stopped"} /\ NothingFires /\ stage' = "done"
        /\ layer' = layer /\ recorded' = recorded
        /\ ended' = "raised" \/ (ended' = "streamed" /\ stage = "reading")
        /\ audited' = audited \o <<>>
    BY <1>5 DEF StreamEnds, StreamFails, EndExecution
  <2>2. /\ audited = <<>> /\ ~recorded /\ OfStream /\ fired # <<>>
        /\ Events = <<"pre_llm">> /\ toolFired = <<>>
        /\ stage = "reading" => AllHeard
    BY <2>1, WhoseHistory DEF HooksInv, FiredSoFar, InStream
  <2>3. audited' = <<>>
    BY <2>1, <2>2, AuditEnds
  <2>4. QED  BY <2>1, <2>2, <2>3, <1>1, EndStep
<1>6. CASE RefuseExecution
  <2>1. /\ stage = "new" /\ NothingFires /\ stage' = "done" /\ layer' = layer
        /\ recorded' = recorded /\ ended' = "raised" /\ audited' = audited
    BY <1>6 DEF RefuseExecution
  <2>2. audited = <<>> /\ ~recorded /\ fired = <<>> /\ ~OfStream
    BY <2>1, WhoseHistory DEF HooksInv
  <2>3. QED  BY <2>1, <2>2, <1>1, EndStep
<1>7. CASE CompleteFails
  BY <1>7, CompleteFailsStep
<1>8. QED  BY <1>2, <1>3, <1>4, <1>5, <1>6, <1>7

LEMMA AdmitStep ==
    ASSUME HooksInv, Admit
    PROVE  HooksInv'
<1>1. /\ stage = "new" /\ stage' = "pre_execute" /\ audited' = <<"start">>
      /\ NothingFires /\ layer' = layer /\ recorded' = recorded /\ ended' = ended
  BY DEF Admit
<1>2. /\ HooksTypeOK /\ ToolsHeard /\ ToolsPaired /\ FiredSoFar /\ FailureTold
      /\ ended = "no" /\ ~recorded /\ HooksTellTheOutcome
  BY <1>1 DEF HooksInv
<1>3. fired' = fired /\ toolFired' = toolFired /\ fired = <<>> /\ ~OfStream
  BY <1>1, WhoseHistory DEF NothingFires
<1>4. /\ HooksTypeOK' /\ ToolsHeard' /\ ToolsPaired'
  BY <1>1, <1>2, <1>3 DEF HooksTypeOK, ToolsHeard, ToolsPaired, InExecution
<1>5. FiredSoFar' /\ FailureTold'
  BY <1>1, <1>2, <1>3, NothingIsTold DEF FiredSoFar, FailureTold, InLoops, InStream
<1>6. HooksTellTheOutcome'
  BY <1>1, <1>2, <1>3, <1>4, <1>5, NothingIsTold
     DEF HooksTellTheOutcome, FailureTold, ToolsPaired
<1>7. AllHeard'
  BY <1>3 DEF AllHeard
<1>8. QED
  BY <1>1, <1>2, <1>4, <1>5, <1>6, <1>7 DEF HooksInv, InExecution, InStream

LEMMA FireStreamStep ==
    ASSUME HooksAssumption, HooksInv, FireStreamPreLLM
    PROVE  HooksInv'
<1> DEFINE next == IF LlmWraps = 0 THEN "reading" ELSE "opening"
<1>1. FiresAt("new", "pre_llm", next, "stopped", "hook")
  BY DEF FireStreamPreLLM
<1>2. next \in {"reading", "opening"}
  OBVIOUS
<1> HIDE DEF next
<1>3. "pre_llm" \in HookEvents \ ToolEvents
  BY DEF HookEvents, ToolEvents
<1>4. stage = "new"
  BY <1>1 DEF FiresAt
<1>5. /\ HooksTypeOK /\ ToolsHeard /\ ToolsPaired /\ audited = <<>> /\ ended = "no"
      /\ ~recorded /\ fired = <<>> /\ toolFired = <<>>
  BY <1>4 DEF HooksInv, FiredSoFar
<1>6. PICK h \in Hearings :
        /\ h.event = "pre_llm" /\ (h.raised \/ h.by = DOMAIN HandlerModes)
        /\ fired' = Append(fired, h) /\ toolFired' = toolFired
        /\ stage' = IF h.raised THEN "stopped" ELSE next
  BY <1>1, <1>3, <1>5, ExecutionHears
<1>7. /\ layer' \in Nat /\ (stage' = "opening" => layer' > 0)
      /\ audited' = audited /\ recorded' = recorded /\ ended' = ended
  BY <1>1, <1>2, <1>3, <1>5, <1>6, ExecutionHears DEF Outside
<1>8. Events = <<>> /\ <<>> \in Seq(HookEvents) /\ Told = {} /\ AllHeard
  BY <1>5 DEF Events, Told, AllHeard
<1>9. /\ fired' \in Seq(Hearings) /\ Told' = {"pre_llm"}
      /\ Events' = Append(<<>>, "pre_llm") /\ (~h.raised => AllHeard')
  BY <1>5, <1>6, <1>8, FiredMore
<1>10. Events' = <<"pre_llm">>
  BY <1>9
<1>11. HooksTypeOK'
  BY <1>2, <1>5, <1>6, <1>7, <1>9 DEF HooksTypeOK, InStream
<1>12. ToolsHeard' /\ ToolsPaired' /\ FiredSoFar' /\ FailureTold'
  BY <1>2, <1>5, <1>6, <1>9, <1>10
     DEF ToolsHeard, ToolsPaired, FiredSoFar, FailureTold, InLoops, InStream
<1>13. HooksTellTheOutcome'
  BY <1>5, <1>6, <1>7, <1>9, <1>10, <1>12
     DEF HooksTellTheOutcome, FailureTold, ToolsPaired
<1>14. QED
  BY <1>2, <1>5, <1>6, <1>7, <1>9, <1>11, <1>12, <1>13
     DEF HooksInv, InExecution, InStream

LEMMA HooksInit_Inv ==
    ASSUME HooksInit
    PROVE  HooksInv
<1>1. HooksTypeOK
  <2>1. <<>> \in Seq(Hearings)
    OBVIOUS
  <2>2. QED  BY <2>1 DEF HooksInit, HooksTypeOK
<1>2. /\ ToolsHeard /\ ToolsPaired /\ FiredSoFar /\ FailureTold /\ Told = {} /\ ~OfStream
      /\ AllHeard
  BY DEF HooksInit, ToolsHeard, ToolsPaired, FiredSoFar, FailureTold, Told, OfStream,
         InLoops, InStream, AllHeard
<1>3. HooksTellTheOutcome
  BY <1>2 DEF HooksInit, HooksTellTheOutcome
<1>4. QED
  BY <1>1, <1>2, <1>3 DEF HooksInit, HooksInv, InExecution, InStream

LEMMA HooksStep ==
    ASSUME HooksAssumption, HooksInv, [HooksNext]_hooksVars
    PROVE  HooksInv'
<1>1. CASE UNCHANGED hooksVars
  <2>1. /\ stage' = stage /\ layer' = layer /\ fired' = fired /\ toolFired' = toolFired
        /\ audited' = audited /\ recorded' = recorded /\ ended' = ended /\ failure' = failure
    BY <1>1 DEF hooksVars
  <2>2. /\ Events' = Events /\ Told' = Told /\ Fell' = Fell /\ OfStream' = OfStream
        /\ AllHeard' = AllHeard /\ ToolsHeard' = ToolsHeard /\ Completed' = Completed
    BY <2>1 DEF Events, Told, Fell, OfStream, AllHeard, ToolsHeard, Completed
  <2>3. /\ HooksTypeOK' = HooksTypeOK /\ ToolsPaired' = ToolsPaired
        /\ FiredSoFar' = FiredSoFar /\ FailureTold' = FailureTold
    BY <2>1, <2>2 DEF HooksTypeOK, ToolsPaired, FiredSoFar, FailureTold
  <2>4. HooksTellTheOutcome' = HooksTellTheOutcome
    BY <2>1, <2>2 DEF HooksTellTheOutcome
  <2>5. QED  BY <2>1, <2>2, <2>3, <2>4 DEF HooksInv
<1>2. CASE HooksNext
  BY <1>2, FirePreExecuteStep, FirePreLLMStep, FirePostLLMStep, FirePostExecuteStep,
     FireOnCompleteStep, FireLimitStep, FireOnErrorStep, FireToolStep, ChainSteps,
     InnerSteps, EndSteps, AdmitStep, FireStreamStep DEF HooksNext
<1>3. QED  BY <1>1, <1>2

\* What hooks and the audit log tell of an execution agrees with what its caller gets,
\* for every list of handlers, any number of wraps and any number of calls; alone an
\* execution whose cost record or log_complete raised completes for hooks and fails for
\* its caller (BaseAgent.execute around _FactoryLLMAgent._execute, and HookRegistry).
THEOREM HooksCorrect == HooksSpec => []HooksTellTheOutcome
<1>1. HooksInit => HooksInv
  BY HooksInit_Inv
<1>2. HooksInv /\ [HooksNext]_hooksVars => HooksInv'
  BY HooksAssumption, HooksStep
<1>3. HooksInv => HooksTellTheOutcome
  BY DEF HooksInv
<1>4. QED  BY <1>1, <1>2, <1>3, PTL DEF HooksSpec

-----------------------------------------------------------------------------
(***************************************************************************)
(* Building agents: hooks and schemas are told by the objects a tool has.  *)
(***************************************************************************)
OwnTool(n, t) == <<"own", n, t>>
OwnTools(ns)  == {OwnTool(n, t) : n \in ns, t \in ToolNames}
SharedTools   == {"instance", "shelf", "later"} \X Nat \X ToolNames
ToolStates(n) == [schema : {"attached", "introspected", "yaml"}, wraps : Seq(1 .. n)]

\* A registry of names that are names, over things.
IsRegistry(r, things) ==
    /\ r = [t \in DOMAIN r |-> r[t]]
    /\ DOMAIN r \subseteq ToolNames
    /\ \A t \in DOMAIN r : r[t] \in things

BuildTypeOK ==
    /\ builds \in Nat
    /\ IsRegistry(shelf, SharedTools \cap DOMAIN toolObject)
    /\ DOMAIN toolObject \subseteq SharedTools \cup OwnTools(1 .. Len(built))
    /\ {Instance(t) : t \in ToolNames} \subseteq DOMAIN toolObject
    /\ toolObject \in [DOMAIN toolObject -> ToolStates(Len(built))]

BuiltIsSane ==
    /\ built = [n \in 1 .. Len(built) |-> built[n]] /\ Len(built) \in Nat
    /\ \A n \in 1 .. Len(built) :
         /\ built[n].want \in Wants
         /\ IsRegistry(built[n].names, DOMAIN toolObject)
         /\ built[n].want.source = "callables" =>
              \A t \in DOMAIN built[n].names : built[n].names[t] = OwnTool(n, t)

\* Only its agent wraps the object of a function.
OwnIsOwn ==
    \A n \in 1 .. Len(built), t \in ToolNames : OwnTool(n, t) \in DOMAIN toolObject =>
        \A i \in DOMAIN toolObject[OwnTool(n, t)].wraps : toolObject[OwnTool(n, t)].wraps[i] = n

BuildInv == BuildTypeOK /\ BuiltIsSane /\ OwnIsOwn /\ AgentsOwnTheirTools

\* A tool of a function is no other tool.
LEMMA OwnToolsDiffer ==
    ASSUME NEW n, NEW t
    PROVE  /\ OwnTool(n, t) \notin SharedTools
           /\ \A m, u : OwnTool(m, u) = OwnTool(n, t) => m = n /\ u = t
           /\ \A ns : OwnTool(n, t) \in OwnTools(ns) => n \in ns
BY DEF OwnTool, OwnTools, SharedTools

\* A wrapper more for each name of an object: one agent's hooks are counted, and those
\* of the others are as often there as before.
LEMMA WrapsMore ==
    ASSUME NEW n \in Nat, NEW s \in Seq(1 .. n), NEW k \in Nat
    PROVE  LET w == s \o [i \in 1 .. k |-> n + 1]
           IN  /\ w \in Seq(1 .. n + 1)
               /\ TimesIn(n + 1, w) = k
               /\ \A m \in 1 .. n : TimesIn(m, w) = TimesIn(m, s)
               /\ (\A i \in DOMAIN s : s[i] = n + 1) => \A i \in DOMAIN w : w[i] = n + 1
<1> DEFINE c == [i \in 1 .. k |-> n + 1]
           w == s \o c
<1>1. /\ s \in Seq(1 .. n + 1) /\ Len(s) \in Nat /\ DOMAIN s = 1 .. Len(s)
      /\ \A i \in 1 .. Len(s) : s[i] \in 1 .. n
  OBVIOUS
<1>2. c \in Seq(1 .. n + 1) /\ Len(c) = k
  OBVIOUS
<1>3. \A i \in 1 .. k : c[i] = n + 1
  OBVIOUS
<1> HIDE DEF c
<1>4. /\ w \in Seq(1 .. n + 1) /\ Len(w) = Len(s) + k
      /\ \A i \in 1 .. Len(s) + k : w[i] = IF i <= Len(s) THEN s[i] ELSE c[i - Len(s)]
  BY <1>1, <1>2, ConcatProperties
<1> HIDE DEF w
<1>5. /\ DOMAIN w = 1 .. Len(s) + k
      /\ \A i \in 1 .. Len(s) : w[i] = s[i]
      /\ \A i \in Len(s) + 1 .. Len(s) + k : w[i] = n + 1
  <2>1. DOMAIN w = 1 .. Len(s) + k
    BY <1>4
  <2>2. ASSUME NEW i \in Len(s) + 1 .. Len(s) + k PROVE w[i] = n + 1
    <3>1. i \in 1 .. Len(s) + k /\ ~(i <= Len(s)) /\ i - Len(s) \in 1 .. k
      BY <1>1
    <3>2. QED  BY <1>3, <1>4, <3>1
  <2>3. ASSUME NEW i \in 1 .. Len(s) PROVE w[i] = s[i]
    <3>1. i \in 1 .. Len(s) + k /\ i <= Len(s)
      BY <1>1
    <3>2. QED  BY <1>4, <3>1
  <2>4. QED  BY <2>1, <2>2, <2>3
<1>6. TimesIn(n + 1, w) = k
  <2>1. {i \in DOMAIN w : w[i] = n + 1} = Len(s) + 1 .. Len(s) + k
    <3>1. \A i \in DOMAIN w : w[i] = n + 1 => i \in Len(s) + 1 .. Len(s) + k
      BY <1>1, <1>5
    <3>2. \A i \in Len(s) + 1 .. Len(s) + k : i \in DOMAIN w /\ w[i] = n + 1
      BY <1>1, <1>5
    <3>3. QED  BY <3>1, <3>2
  <2>2. Cardinality(Len(s) + 1 .. Len(s) + k) = k
    BY <1>1, FS_Interval
  <2>3. QED  BY <2>1, <2>2 DEF TimesIn
<1>7. ASSUME NEW m \in 1 .. n
      PROVE  TimesIn(m, w) = TimesIn(m, s)
  <2>1. m # n + 1
    OBVIOUS
  <2>2. \A i \in DOMAIN w : w[i] = m => i \in DOMAIN s /\ s[i] = m
    BY <1>1, <1>5, <2>1
  <2>3. \A i \in DOMAIN s : i \in DOMAIN w /\ w[i] = s[i]
    BY <1>1, <1>5
  <2>4. {i \in DOMAIN w : w[i] = m} = {i \in DOMAIN s : s[i] = m}
    BY <2>2, <2>3
  <2>5. QED  BY <2>4 DEF TimesIn
<1>8. (\A i \in DOMAIN s : s[i] = n + 1) => \A i \in DOMAIN w : w[i] = n + 1
  BY <1>1, <1>5
<1>9. QED
  BY <1>4, <1>6, <1>7, <1>8 DEF w, c

\* An agent without wrappers on a tool.
LEMMA NoWraps ==
    ASSUME NEW n \in Nat, NEW s \in Seq(1 .. n)
    PROVE  TimesIn(n + 1, s) = 0
<1>1. {i \in DOMAIN s : s[i] = n + 1} = {}
  OBVIOUS
<1>2. QED  BY <1>1, FS_EmptySet DEF TimesIn

\* Names are counted.
LEMMA NamesCount ==
    ASSUME AgentBuildAssumption, NEW r, DOMAIN r \subseteq ToolNames, NEW o
    PROVE  /\ Cardinality(NamesOf(r, o)) \in Nat
           /\ (\A t \in DOMAIN r : r[t] # o) => Cardinality(NamesOf(r, o)) = 0
<1>1. NamesOf(r, o) \in SUBSET ToolNames
  BY DEF NamesOf
<1>2. IsFiniteSet(NamesOf(r, o))
  BY <1>1, FS_Subset DEF AgentBuildAssumption
<1>3. (\A t \in DOMAIN r : r[t] # o) => NamesOf(r, o) = {}
  BY DEF NamesOf
<1>4. QED  BY <1>2, <1>3, FS_CardinalityType, FS_EmptySet

\* The tools that an agent gets.
LEMMA RegisteredTools ==
    ASSUME BuildInv, NEW want \in Wants, NEW n
    PROVE  /\ IsRegistry(Registered(want, n),
                         (SharedTools \cap DOMAIN toolObject) \cup OwnTools({n}))
           /\ want.source = "callables" =>
                /\ DOMAIN Registered(want, n) = want.tools
                /\ \A t \in want.tools : Registered(want, n)[t] = OwnTool(n, t)
           /\ want.source # "callables" =>
                \A t \in DOMAIN Registered(want, n) :
                   Registered(want, n)[t] \in SharedTools \cap DOMAIN toolObject
<1>1. want.source \in {"callables", "instances", "registry"} /\ want.tools \subseteq ToolNames
  BY DEF Wants
<1>2. CASE want.source = "callables"
  <2>1. Registered(want, n) = [t \in want.tools |-> OwnTool(n, t)]
    BY <1>2 DEF Registered, OwnTool
  <2>2. \A t \in want.tools : OwnTool(n, t) \in OwnTools({n})
    BY <1>1 DEF OwnTools
  <2>3. QED  BY <1>1, <1>2, <2>1, <2>2 DEF IsRegistry
<1>3. CASE want.source = "instances"
  <2>1. Registered(want, n) = [t \in want.tools |-> Instance(t)]
    BY <1>3 DEF Registered
  <2>2. \A t \in want.tools : Instance(t) \in SharedTools \cap DOMAIN toolObject
    BY <1>1 DEF BuildInv, BuildTypeOK, Instance, SharedTools
  <2>3. QED  BY <1>1, <1>3, <2>1, <2>2 DEF IsRegistry
<1>4. CASE want.source = "registry"
  <2>1. Registered(want, n) = shelf
    BY <1>4 DEF Registered
  <2>2. IsRegistry(shelf, SharedTools \cap DOMAIN toolObject)
    BY DEF BuildInv, BuildTypeOK
  <2>3. QED  BY <1>4, <2>1, <2>2 DEF IsRegistry
<1>5. QED  BY <1>1, <1>2, <1>3, <1>4

\* The tools of the prompt file that are given its schema: those before the first
\* without a handler, and all of them when the pairing does not fail.
LEMMA PairedTools ==
    ASSUME AgentBuildAssumption, NEW want, NEW n
    PROVE  /\ Paired(want, n) \in Int
           /\ \A i \in 1 .. Paired(want, n) :
                i \in 1 .. Len(YamlTools) /\ YamlTools[i] \in DOMAIN Registered(want, n)
           /\ ~want.yaml => Paired(want, n) = 0
           /\ want.yaml /\ want.source = "callables" /\ want.tools # {} /\ ~PairingFails(want, n) =>
                Paired(want, n) = Len(YamlTools)
<1> DEFINE missing == {i \in 1 .. Len(YamlTools) : YamlTools[i] \notin DOMAIN Registered(want, n)}
           none == ~want.yaml \/ (want.source # "registry" /\ want.tools = {})
<1>1. Len(YamlTools) \in Nat
  BY DEF AgentBuildAssumption
<1>2. Paired(want, n) = IF none THEN 0
                        ELSE IF missing = {} THEN Len(YamlTools)
                             ELSE (CHOOSE i \in missing : \A j \in missing : i <= j) - 1
  BY DEF Paired
<1>3. CASE none
  BY <1>1, <1>2, <1>3
<1>4. CASE ~none /\ missing = {}
  BY <1>1, <1>2, <1>4
<1>5. CASE ~none /\ missing # {}
  <2>1. \E i \in missing : \A j \in missing : i <= j
    <3>1. missing \subseteq Nat
      OBVIOUS
    <3> DEFINE below == OpToRel(<, Nat)
    <3>2. IsWellFoundedOn(below, Nat)
      BY NatLessThanWellFounded
    <3>3. \A x, y \in Nat : x < y => <<x, y>> \in below
      BY DEF OpToRel
    <3> HIDE DEF below
    <3>4. PICK i \in missing : \A j \in missing : ~(<<j, i>> \in below)
      BY <1>5, <3>1, <3>2, WFMin
    <3>5. ASSUME NEW j \in missing PROVE i <= j
      <4>1. i \in Nat /\ j \in Nat /\ ~(j < i)
        BY <3>1, <3>3, <3>4
      <4>2. QED  BY <4>1
    <3>6. QED  BY <3>5
  <2> DEFINE first == CHOOSE i \in missing : \A j \in missing : i <= j
  <2>2. first \in missing /\ \A j \in missing : first <= j
    BY <2>1
  <2>3. Paired(want, n) = first - 1
    BY <1>2, <1>5
  <2> HIDE DEF first
  <2>4. \A i \in 1 .. first - 1 : i \in 1 .. Len(YamlTools) /\ i \notin missing
    BY <1>1, <2>2
  <2>5. first - 1 \in Int /\ first - 1 < Len(YamlTools)
    BY <1>1, <2>2
  <2>6. want.yaml /\ want.source = "callables" /\ want.tools # {} => PairingFails(want, n)
    BY <2>3, <2>5 DEF PairingFails
  <2>7. QED  BY <1>5, <2>3, <2>4, <2>5, <2>6
<1>6. QED  BY <1>3, <1>4, <1>5

\* p are the objects after the tools of agent n have got their schemas.
SchemasAreGiven(want, n, p) ==
    LET r == Registered(want, n)
    IN  /\ p = [o \in DOMAIN toolObject \cup {r[t] : t \in DOMAIN r} |-> p[o]]
        /\ \A o \in DOMAIN p : p[o] \in ToolStates(Len(built))
        /\ \A o \in DOMAIN toolObject : p[o].wraps = toolObject[o].wraps
        /\ \A o \in DOMAIN p \ DOMAIN toolObject : p[o].wraps = <<>>
        /\ \A m \in 1 .. Len(built), t \in ToolNames : OwnTool(m, t) \in DOMAIN toolObject =>
              p[OwnTool(m, t)] = toolObject[OwnTool(m, t)]
        /\ want.source = "callables" /\ ~PairingFails(want, n) =>
              \A t \in DOMAIN r : p[r[t]].schema =
                 IF want.yaml /\ \E i \in 1 .. Len(YamlTools) : YamlTools[i] = t
                 THEN "yaml" ELSE "introspected"

\* So are the objects of WithSchemas.
LEMMA SchemasGiven ==
    ASSUME AgentBuildAssumption, BuildInv, NEW want \in Wants, NEW n, n = Len(built) + 1
    PROVE  SchemasAreGiven(want, n, WithSchemas(want, n, WithFunctions(want, n)))
<1> DEFINE r == Registered(want, n)
           w == WithFunctions(want, n)
           p == WithSchemas(want, n, w)
           named == {r[YamlTools[i]] : i \in 1 .. Paired(want, n)}
<1>1. /\ DOMAIN w = DOMAIN toolObject \cup {r[t] : t \in DOMAIN r}
      /\ \A o \in DOMAIN toolObject : w[o] = toolObject[o]
      /\ \A o \in DOMAIN w \ DOMAIN toolObject : w[o] = Unwrapped("introspected")
  BY DEF WithFunctions
<1>2. \A o \in DOMAIN w : w[o] \in ToolStates(Len(built))
  <2>1. \A o \in DOMAIN toolObject : toolObject[o] \in ToolStates(Len(built))
    BY DEF BuildInv, BuildTypeOK
  <2>2. Unwrapped("introspected") \in ToolStates(Len(built))
    BY DEF Unwrapped, ToolStates
  <2>3. QED  BY <1>1, <2>1, <2>2
<1> HIDE DEF w
<1>3. /\ p = [o \in DOMAIN w |-> p[o]] /\ DOMAIN p = DOMAIN w
      /\ \A o \in named \cap DOMAIN w : p[o] = [w[o] EXCEPT !.schema = "yaml"]
      /\ \A o \in DOMAIN w \ named : p[o] = w[o]
  BY DEF WithSchemas
<1> HIDE DEF p
<1>4. ASSUME NEW o \in DOMAIN w
      PROVE  p[o] \in ToolStates(Len(built)) /\ p[o].wraps = w[o].wraps
  <2>1. w[o] \in ToolStates(Len(built))
    BY <1>2
  <2>2. CASE o \in named
    <3>1. p[o] = [w[o] EXCEPT !.schema = "yaml"]
      BY <1>3, <2>2
    <3> HIDE DEF named
    <3>2. QED  BY <2>1, <3>1 DEF ToolStates
  <2>3. CASE o \notin named
    BY <1>3, <2>1, <2>3
  <2>4. QED  BY <2>2, <2>3
<1>5. \A o \in named : \E t \in DOMAIN r : o = r[t]
  BY PairedTools
<1>6. ASSUME NEW m \in 1 .. Len(built), NEW t \in ToolNames, OwnTool(m, t) \in DOMAIN toolObject
      PROVE  p[OwnTool(m, t)] = toolObject[OwnTool(m, t)]
  <2>1. \A u \in DOMAIN r : r[u] \in SharedTools \cup OwnTools({n})
    BY RegisteredTools DEF IsRegistry
  <2>2. OwnTool(m, t) \notin SharedTools /\ OwnTool(m, t) \notin OwnTools({n})
    BY OwnToolsDiffer DEF BuildInv, BuiltIsSane
  <2>3. OwnTool(m, t) \notin named
    BY <1>5, <2>1, <2>2
  <2>4. QED  BY <1>1, <1>3, <1>6, <2>3
<1>7. ASSUME want.source = "callables", ~PairingFails(want, n), NEW t \in DOMAIN r
      PROVE  p[r[t]].schema = IF want.yaml /\ \E i \in 1 .. Len(YamlTools) : YamlTools[i] = t
                              THEN "yaml" ELSE "introspected"
  <2>1. /\ DOMAIN r = want.tools /\ want.tools # {} /\ DOMAIN r \subseteq ToolNames
        /\ \A u \in want.tools : r[u] = OwnTool(n, u)
    BY <1>7, RegisteredTools, ZenonT(40) DEF IsRegistry
  <2>2. r[t] \notin DOMAIN toolObject
    <3>1. OwnTool(n, t) \notin SharedTools /\ n \notin 1 .. Len(built)
      BY OwnToolsDiffer DEF BuildInv, BuiltIsSane
    <3>2. QED  BY <2>1, <3>1, OwnToolsDiffer DEF BuildInv, BuildTypeOK
  <2>3. r[t] \in DOMAIN w /\ w[r[t]] = Unwrapped("introspected")
    BY <1>1, <2>2
  <2>4. r[t] \in named <=> \E i \in 1 .. Paired(want, n) : YamlTools[i] = t
    <3>1. \A i \in 1 .. Paired(want, n) : YamlTools[i] \in want.tools
      BY <2>1, PairedTools
    <3>2. \A i \in 1 .. Paired(want, n) : r[YamlTools[i]] = r[t] => YamlTools[i] = t
      BY <2>1, <3>1, OwnToolsDiffer
    <3>3. QED  BY <3>2
  <2>5. CASE want.yaml
    <3>1. Paired(want, n) = Len(YamlTools)
      BY <1>7, <2>1, <2>5, PairedTools
    <3>2. CASE r[t] \in named
      BY <1>3, <2>3, <2>4, <2>5, <3>1, <3>2 DEF Unwrapped
    <3>3. CASE r[t] \notin named
      BY <1>3, <2>3, <2>4, <2>5, <3>1, <3>3 DEF Unwrapped
    <3>4. QED  BY <3>2, <3>3
  <2>6. CASE ~want.yaml
    <3>1. Paired(want, n) = 0
      BY <2>6, PairedTools
    <3>2. r[t] \notin named
      BY <2>4, <3>1
    <3>3. QED  BY <1>3, <2>3, <2>6, <3>2 DEF Unwrapped
  <2>7. QED  BY <2>5, <2>6
<1>8. \A o \in DOMAIN p \ DOMAIN toolObject : p[o].wraps = <<>>
  <2>1. Unwrapped("introspected").wraps = <<>>
    BY DEF Unwrapped
  <2>2. \A o \in DOMAIN p \ DOMAIN toolObject : w[o] = Unwrapped("introspected")
    BY <1>1, <1>3
  <2>3. QED  BY <1>3, <1>4, <2>1, <2>2
<1>9. \A o \in DOMAIN toolObject : p[o].wraps = toolObject[o].wraps
  BY <1>1, <1>4
<1>10. p = [o \in DOMAIN toolObject \cup {r[t] : t \in DOMAIN r} |-> p[o]]
  BY <1>1, <1>3
<1>11. \A o \in DOMAIN p : p[o] \in ToolStates(Len(built))
  BY <1>3, <1>4
<1> HIDE DEF r
<1>12. SchemasAreGiven(want, n, p)
  BY <1>6, <1>7, <1>8, <1>9, <1>10, <1>11 DEF SchemasAreGiven, r
<1>13. QED
  BY <1>12 DEF p, w

\* And after its hooks have been wrapped around them.
LEMMA HooksGiven ==
    ASSUME AgentBuildAssumption, BuildInv, NEW want \in Wants, NEW n, n = Len(built) + 1,
           NEW objects, NEW o \in DOMAIN objects, objects[o] \in ToolStates(Len(built))
    PROVE  LET q == WithHooks(want, n, objects)
               k == IF want.hooked THEN Cardinality(NamesOf(Registered(want, n), o)) ELSE 0
           IN  /\ DOMAIN q = DOMAIN objects
               /\ q[o] \in ToolStates(n) /\ q[o].schema = objects[o].schema
               /\ TimesIn(n, q[o].wraps) = k
               /\ \A m \in 1 .. Len(built) :
                    TimesIn(m, q[o].wraps) = TimesIn(m, objects[o].wraps)
               /\ (\A i \in DOMAIN objects[o].wraps : objects[o].wraps[i] = n) =>
                    \A i \in DOMAIN q[o].wraps : q[o].wraps[i] = n
               /\ k = 0 => q[o].wraps = objects[o].wraps
<1> DEFINE q == WithHooks(want, n, objects)
           c == Cardinality(NamesOf(Registered(want, n), o))
<1>1. Len(built) \in Nat /\ c \in Nat
  BY RegisteredTools, NamesCount DEF BuildInv, BuiltIsSane, IsRegistry
<1>2. /\ objects[o].wraps \in Seq(1 .. Len(built))
      /\ objects[o].schema \in {"attached", "introspected", "yaml"}
  BY DEF ToolStates
<1>3. CASE ~want.hooked
  <2>1. q = objects
    BY <1>3 DEF WithHooks
  <2>2. TimesIn(n, objects[o].wraps) = 0
    BY <1>1, <1>2, NoWraps
  <2>3. objects[o] \in ToolStates(n)
    <3>1. objects[o].wraps \in Seq(1 .. n)
      BY <1>1, <1>2
    <3>2. QED  BY <3>1 DEF ToolStates
  <2>4. QED  BY <1>3, <2>1, <2>2, <2>3
<1>4. CASE want.hooked
  <2> DEFINE w == objects[o].wraps \o [i \in 1 .. c |-> n]
  <2>1. DOMAIN q = DOMAIN objects /\ q[o] = [objects[o] EXCEPT !.wraps = w]
    BY <1>4 DEF WithHooks
  <2>2. /\ w \in Seq(1 .. n) /\ TimesIn(n, w) = c
        /\ \A m \in 1 .. Len(built) : TimesIn(m, w) = TimesIn(m, objects[o].wraps)
        /\ (\A i \in DOMAIN objects[o].wraps : objects[o].wraps[i] = n) =>
             \A i \in DOMAIN w : w[i] = n
    <3> DEFINE s == objects[o].wraps
    <3>1. Len(built) \in Nat /\ s \in Seq(1 .. Len(built)) /\ c \in Nat /\ n = Len(built) + 1
      BY <1>1, <1>2
    <3> HIDE DEF s, c
    <3>2. /\ s \o [i \in 1 .. c |-> Len(built) + 1] \in Seq(1 .. Len(built) + 1)
          /\ TimesIn(Len(built) + 1, s \o [i \in 1 .. c |-> Len(built) + 1]) = c
          /\ \A m \in 1 .. Len(built) :
               TimesIn(m, s \o [i \in 1 .. c |-> Len(built) + 1]) = TimesIn(m, s)
          /\ (\A i \in DOMAIN s : s[i] = Len(built) + 1) =>
               \A i \in DOMAIN (s \o [j \in 1 .. c |-> Len(built) + 1]) :
                  (s \o [j \in 1 .. c |-> Len(built) + 1])[i] = Len(built) + 1
      BY <3>1, WrapsMore
    <3>3. QED  BY <3>1, <3>2 DEF s
  <2>3. c = 0 => w = objects[o].wraps
    <3>1. c = 0 => [i \in 1 .. c |-> n] = <<>>
      OBVIOUS
    <3>2. QED  BY <1>2, <3>1, ConcatEmptySeq
  <2> HIDE DEF w
  <2>4. q[o] \in ToolStates(n) /\ q[o].schema = objects[o].schema /\ q[o].wraps = w
    BY <1>2, <2>1, <2>2 DEF ToolStates
  <2> HIDE DEF q, c
  <2>5. QED
    BY <1>4, <2>1, <2>2, <2>3, <2>4 DEF q, c
<1>5. QED  BY <1>3, <1>4

\* A step after which the agents are who they were, the tools of functions are as they
\* were, and a tool that is new has no hooks.
LEMMA AgentsStay ==
    ASSUME AgentBuildAssumption, BuildInv, built' = built, builds' \in Nat,
           IsRegistry(shelf', SharedTools \cap DOMAIN toolObject'),
           DOMAIN toolObject \subseteq DOMAIN toolObject',
           toolObject' \in [DOMAIN toolObject' -> ToolStates(Len(built))],
           \A o \in DOMAIN toolObject : toolObject'[o].wraps = toolObject[o].wraps,
           \A m \in 1 .. Len(built), t \in ToolNames : OwnTool(m, t) \in DOMAIN toolObject =>
               toolObject'[OwnTool(m, t)] = toolObject[OwnTool(m, t)],
           \A o \in DOMAIN toolObject' \ DOMAIN toolObject :
               o \in SharedTools /\ toolObject'[o].wraps = <<>>
    PROVE  BuildInv'
<1>1. BuildTypeOK /\ BuiltIsSane /\ OwnIsOwn /\ HooksFireOnce /\ SchemasAreOwn
  BY DEF BuildInv, AgentsOwnTheirTools
<1>2. BuildTypeOK'
  BY <1>1 DEF BuildTypeOK
<1>3. BuiltIsSane'
  BY <1>1 DEF BuiltIsSane, IsRegistry
<1>4. \A m \in 1 .. Len(built), t \in ToolNames :
        OwnTool(m, t) \in DOMAIN toolObject' => OwnTool(m, t) \in DOMAIN toolObject
  BY OwnToolsDiffer
<1>5. OwnIsOwn'
  BY <1>1, <1>4 DEF OwnIsOwn
<1>6. ASSUME NEW n \in 1 .. Len(built)
      PROVE  /\ \A t \in DOMAIN built[n].names : built[n].names[t] \in DOMAIN toolObject
             /\ DOMAIN built[n].names \subseteq ToolNames
             /\ built[n].want.source = "callables" =>
                  \A t \in DOMAIN built[n].names :
                     toolObject'[built[n].names[t]] = toolObject[built[n].names[t]]
  <2>1. IsRegistry(built[n].names, DOMAIN toolObject)
    BY <1>1 DEF BuiltIsSane
  <2>2. ASSUME built[n].want.source = "callables", NEW t \in DOMAIN built[n].names
        PROVE  toolObject'[built[n].names[t]] = toolObject[built[n].names[t]]
    <3>1. /\ built[n].names[t] = OwnTool(n, t) /\ t \in ToolNames
          /\ built[n].names[t] \in DOMAIN toolObject
      BY <1>1, <2>1, <2>2 DEF BuiltIsSane, IsRegistry
    <3>2. QED  BY <3>1
  <2>3. QED  BY <2>1, <2>2 DEF IsRegistry
<1>7. HooksFireOnce'
  <2>1. ASSUME NEW n \in 1 .. Len(built), NEW o \in DOMAIN toolObject'
        PROVE  TimesIn(n, toolObject'[o].wraps) =
                 IF built[n].want.hooked THEN Cardinality(NamesOf(built[n].names, o)) ELSE 0
    <3>1. CASE o \in DOMAIN toolObject
      BY <1>1, <3>1 DEF HooksFireOnce
    <3>2. CASE o \notin DOMAIN toolObject
      <4>1. toolObject'[o].wraps = <<>>
        BY <3>2
      <4>2. TimesIn(n, <<>>) = 0
        <5>1. {i \in DOMAIN <<>> : <<>>[i] = n} = {}
          OBVIOUS
        <5>2. QED  BY <5>1, FS_EmptySet DEF TimesIn
      <4>3. Cardinality(NamesOf(built[n].names, o)) = 0
        BY <1>6, <3>2, NamesCount
      <4>4. QED  BY <4>1, <4>2, <4>3
    <3>3. QED  BY <3>1, <3>2
  <2>2. ASSUME NEW n \in 1 .. Len(built), built[n].want.source = "callables",
               NEW t \in DOMAIN built[n].names, NEW i \in DOMAIN HooksOf(n, t)'
        PROVE  HooksOf(n, t)'[i] = n
    <3>1. HooksOf(n, t)' = HooksOf(n, t)
      BY <1>6, <2>2 DEF HooksOf, Called
    <3>2. QED  BY <1>1, <2>2, <3>1 DEF HooksFireOnce
  <2>3. QED  BY <2>1, <2>2 DEF HooksFireOnce
<1>8. SchemasAreOwn'
  BY <1>1, <1>6 DEF SchemasAreOwn
<1>9. QED
  BY <1>2, <1>3, <1>5, <1>7, <1>8 DEF BuildInv, AgentsOwnTheirTools

LEMMA RefusedStep ==
    ASSUME AgentBuildAssumption, BuildInv, NEW want \in Wants, BuildRefused(want)
    PROVE  BuildInv'
<1>1. /\ built' = built /\ shelf' = shelf /\ toolObject' = toolObject /\ builds' = builds + 1
  BY DEF BuildRefused, BuildAttempt
<1>2. BuildTypeOK
  BY DEF BuildInv
<1>3. QED  BY <1>1, <1>2, AgentsStay DEF BuildTypeOK

LEMMA RegisterStep ==
    ASSUME AgentBuildAssumption, BuildInv, NEW t \in ToolNames, RegisterTool(t)
    PROVE  BuildInv'
<1> DEFINE o == <<"later", builds, t>>
<1>1. BuildTypeOK
  BY DEF BuildInv
<1>2. o \in SharedTools
  BY <1>1 DEF BuildTypeOK, SharedTools
<1>3. /\ built' = built /\ builds' = builds + 1
      /\ shelf' = [u \in DOMAIN shelf \cup {t} |-> IF u = t THEN o ELSE shelf[u]]
      /\ toolObject' = [x \in DOMAIN toolObject \cup {o} |->
                          IF x \in DOMAIN toolObject THEN toolObject[x] ELSE Unwrapped("attached")]
  BY DEF RegisterTool, BuildAttempt
<1> HIDE DEF o
<1>4. Unwrapped("attached") \in ToolStates(Len(built)) /\ Unwrapped("attached").wraps = <<>>
  BY DEF Unwrapped, ToolStates
<1>5. IsRegistry(shelf', SharedTools \cap DOMAIN toolObject')
  BY <1>1, <1>2, <1>3 DEF BuildTypeOK, IsRegistry
<1>6. toolObject' \in [DOMAIN toolObject' -> ToolStates(Len(built))]
  BY <1>1, <1>3, <1>4 DEF BuildTypeOK
<1>7. builds' \in Nat
  BY <1>1, <1>3 DEF BuildTypeOK
<1>8. QED
  BY <1>2, <1>3, <1>4, <1>5, <1>6, <1>7, AgentsStay

\* A tool of the prompt file has no handler: the schemas before it have been given.
LEMMA PairingFailsStep ==
    ASSUME AgentBuildAssumption, BuildInv, NEW want \in Wants, NEW n, n = Len(built) + 1,
           built' = built, builds' = builds + 1, shelf' = shelf,
           toolObject' = [o \in DOMAIN toolObject |->
                            WithSchemas(want, n, WithFunctions(want, n))[o]]
    PROVE  BuildInv'
<1> DEFINE p == WithSchemas(want, n, WithFunctions(want, n))
<1>1. /\ DOMAIN toolObject \subseteq DOMAIN p
      /\ \A o \in DOMAIN p : p[o] \in ToolStates(Len(built))
      /\ \A o \in DOMAIN toolObject : p[o].wraps = toolObject[o].wraps
      /\ \A m \in 1 .. Len(built), t \in ToolNames : OwnTool(m, t) \in DOMAIN toolObject =>
             p[OwnTool(m, t)] = toolObject[OwnTool(m, t)]
  <2>1. SchemasAreGiven(want, n, p)
    BY SchemasGiven
  <2> HIDE DEF p
  <2>2. QED  BY <2>1 DEF SchemasAreGiven
<1>2. toolObject' = [o \in DOMAIN toolObject |-> p[o]]
  OBVIOUS
<1> HIDE DEF p
<1>3. BuildTypeOK
  BY DEF BuildInv
<1>4. builds' \in Nat /\ IsRegistry(shelf', SharedTools \cap DOMAIN toolObject')
  BY <1>2, <1>3 DEF BuildTypeOK
<1>5. QED
  BY <1>1, <1>2, <1>4, AgentsStay

\* An agent is built: its hooks are around its tools, and it is one agent more.
LEMMA AgentBuiltStep ==
    ASSUME AgentBuildAssumption, BuildInv, NEW want \in Wants, NEW n, n = Len(built) + 1,
           ~PairingFails(want, n), builds' = builds + 1, shelf' = shelf,
           toolObject' = WithHooks(want, n, WithSchemas(want, n, WithFunctions(want, n))),
           built' = Append(built, [want  |-> [want EXCEPT !.flaw = "none"],
                                   names |-> Registered(want, n)])
    PROVE  BuildInv'
<1> DEFINE r == Registered(want, n)
           p == WithSchemas(want, n, WithFunctions(want, n))
           a == [want |-> [want EXCEPT !.flaw = "none"], names |-> r]
           times(o) == IF want.hooked THEN Cardinality(NamesOf(r, o)) ELSE 0
<1>1. BuildTypeOK /\ BuiltIsSane /\ OwnIsOwn /\ HooksFireOnce /\ SchemasAreOwn
  BY DEF BuildInv, AgentsOwnTheirTools
<1>2. /\ IsRegistry(r, (SharedTools \cap DOMAIN toolObject) \cup OwnTools({n}))
      /\ want.source = "callables" =>
           DOMAIN r = want.tools /\ \A t \in want.tools : r[t] = OwnTool(n, t)
      /\ want.source # "callables" => \A t \in DOMAIN r : r[t] \in SharedTools \cap DOMAIN toolObject
  BY RegisteredTools
<1>3. /\ DOMAIN p = DOMAIN toolObject \cup {r[t] : t \in DOMAIN r}
      /\ \A o \in DOMAIN p : p[o] \in ToolStates(Len(built))
      /\ \A o \in DOMAIN toolObject : p[o].wraps = toolObject[o].wraps
      /\ \A o \in DOMAIN p \ DOMAIN toolObject : p[o].wraps = <<>>
      /\ \A m \in 1 .. Len(built), t \in ToolNames : OwnTool(m, t) \in DOMAIN toolObject =>
             p[OwnTool(m, t)] = toolObject[OwnTool(m, t)]
      /\ want.source = "callables" =>
           \A t \in DOMAIN r : p[r[t]].schema =
              IF want.yaml /\ \E i \in 1 .. Len(YamlTools) : YamlTools[i] = t
              THEN "yaml" ELSE "introspected"
  <2>1. SchemasAreGiven(want, n, p)
    BY SchemasGiven
  <2> HIDE DEF p
  <2>2. QED  BY <2>1 DEF SchemasAreGiven
<1>4. toolObject' = WithHooks(want, n, p)
  OBVIOUS
<1> HIDE DEF p
<1>5. /\ toolObject' = [o \in DOMAIN p |-> toolObject'[o]] /\ DOMAIN toolObject' = DOMAIN p
      /\ \A o \in DOMAIN p :
           /\ toolObject'[o] \in ToolStates(n) /\ toolObject'[o].schema = p[o].schema
           /\ TimesIn(n, toolObject'[o].wraps) = times(o)
           /\ \A m \in 1 .. Len(built) :
                TimesIn(m, toolObject'[o].wraps) = TimesIn(m, p[o].wraps)
           /\ (\A i \in DOMAIN p[o].wraps : p[o].wraps[i] = n) =>
                \A i \in DOMAIN toolObject'[o].wraps : toolObject'[o].wraps[i] = n
           /\ times(o) = 0 => toolObject'[o].wraps = p[o].wraps
  <2>1. DOMAIN toolObject' = DOMAIN p
    <3>1. CASE want.hooked
      BY <1>4, <3>1 DEF WithHooks
    <3>2. CASE ~want.hooked
      BY <1>4, <3>2 DEF WithHooks
    <3>3. QED  BY <3>1, <3>2
  <2>2. toolObject' = [o \in DOMAIN p |-> toolObject'[o]]
    <3>1. CASE want.hooked
      BY <1>4, <3>1 DEF WithHooks
    <3>2. CASE ~want.hooked
      <4>1. SchemasAreGiven(want, n, p)
        BY SchemasGiven DEF p
      <4>2. QED  BY <1>4, <3>2, <4>1 DEF WithHooks, SchemasAreGiven
    <3>3. QED  BY <3>1, <3>2
  <2>3. ASSUME NEW o \in DOMAIN p
        PROVE  /\ toolObject'[o] \in ToolStates(n) /\ toolObject'[o].schema = p[o].schema
               /\ TimesIn(n, toolObject'[o].wraps) = times(o)
               /\ \A m \in 1 .. Len(built) :
                    TimesIn(m, toolObject'[o].wraps) = TimesIn(m, p[o].wraps)
               /\ (\A i \in DOMAIN p[o].wraps : p[o].wraps[i] = n) =>
                    \A i \in DOMAIN toolObject'[o].wraps : toolObject'[o].wraps[i] = n
               /\ times(o) = 0 => toolObject'[o].wraps = p[o].wraps
    BY <1>3, <1>4, HooksGiven
  <2>4. QED  BY <2>1, <2>2, <2>3
<1>6. /\ Len(built) \in Nat /\ Len(built') = n /\ n \in Nat
      /\ built' = [m \in 1 .. n |-> built'[m]]
      /\ \A m \in 1 .. Len(built) : built'[m] = built[m]
      /\ built'[n] = a
  <2>1. built = [m \in 1 .. Len(built) |-> built[m]] /\ Len(built) \in Nat
    BY <1>1 DEF BuiltIsSane
  <2>2. built \in Seq({built[m] : m \in 1 .. Len(built)} \cup {a})
    BY <2>1, SMTT(30)
  <2> DEFINE S == {built[m] : m \in 1 .. Len(built)} \cup {a}
  <2>3. a \in S /\ built \in Seq(S) /\ built' = Append(built, a)
    BY <2>2
  <2> HIDE DEF S, a
  <2>4. /\ built' \in Seq(S) /\ Len(built') = Len(built) + 1
        /\ \A m \in 1 .. Len(built) : built'[m] = built[m]
        /\ built'[Len(built) + 1] = a
    BY <2>3, AppendProperties
  <2>5. QED  BY <2>1, <2>4
<1>7. /\ a.names = r /\ a.want \in Wants /\ a.want.source = want.source
      /\ a.want.hooked = want.hooked /\ a.want.yaml = want.yaml
  BY DEF Wants
<1> HIDE DEF r, a
<1>8. \A t \in ToolNames : OwnTool(n, t) \notin DOMAIN toolObject
  BY <1>1, <1>6, OwnToolsDiffer DEF BuildTypeOK
<1>9. \A m \in 1 .. Len(built) : m \in 1 .. n /\ m # n
  BY <1>6
<1>10. 1 .. n = 1 .. Len(built) \cup {n}
  BY <1>6
<1>11. BuildTypeOK'
  <2>1. builds' \in Nat
    BY <1>1 DEF BuildTypeOK
  <2>2. IsRegistry(shelf, SharedTools \cap DOMAIN toolObject')
    BY <1>1, <1>3, <1>5 DEF BuildTypeOK, IsRegistry
  <2>3. \A o \in OwnTools(1 .. Len(built)) \cup OwnTools({n}) : o \in OwnTools(1 .. n)
    BY <1>10 DEF OwnTools
  <2>4. DOMAIN toolObject' \subseteq SharedTools \cup OwnTools(1 .. n)
    <3>1. \A o \in DOMAIN toolObject : o \in SharedTools \cup OwnTools(1 .. Len(built))
      BY <1>1 DEF BuildTypeOK
    <3>2. \A t \in DOMAIN r : r[t] \in SharedTools \cup DOMAIN toolObject \cup OwnTools({n})
      BY <1>2 DEF IsRegistry
    <3>3. ASSUME NEW o \in DOMAIN p PROVE o \in SharedTools \cup OwnTools(1 .. n)
      <4>1. CASE o \in DOMAIN toolObject
        BY <2>3, <3>1, <4>1
      <4>2. CASE \E t \in DOMAIN r : o = r[t]
        BY <2>3, <3>1, <3>2, <4>2
      <4>3. QED  BY <1>3, <4>1, <4>2
    <3>4. QED  BY <1>5, <3>3
  <2>5. {Instance(t) : t \in ToolNames} \subseteq DOMAIN toolObject'
    BY <1>1, <1>3, <1>5 DEF BuildTypeOK
  <2>6. toolObject' \in [DOMAIN toolObject' -> ToolStates(n)]
    BY <1>5
  <2>7. QED  BY <1>6, <2>1, <2>2, <2>4, <2>5, <2>6 DEF BuildTypeOK
<1>12. \A m \in 1 .. Len(built) :
         /\ \A t \in DOMAIN built[m].names : built[m].names[t] \in DOMAIN toolObject
         /\ DOMAIN built[m].names \subseteq ToolNames
  BY <1>1 DEF BuiltIsSane, IsRegistry
<1>13. \A m \in 1 .. n :
         /\ built'[m].want \in Wants
         /\ IsRegistry(built'[m].names, DOMAIN toolObject')
         /\ built'[m].want.source = "callables" =>
              \A t \in DOMAIN built'[m].names : built'[m].names[t] = OwnTool(m, t)
  <2>1. ASSUME NEW m \in 1 .. n
        PROVE  /\ built'[m].want \in Wants
               /\ IsRegistry(built'[m].names, DOMAIN toolObject')
               /\ built'[m].want.source = "callables" =>
                    \A t \in DOMAIN built'[m].names : built'[m].names[t] = OwnTool(m, t)
    <3>1. CASE m \in 1 .. Len(built)
      BY <1>1, <1>3, <1>5, <1>6, <3>1 DEF BuiltIsSane, IsRegistry
    <3>2. CASE m = n
      <4>1. IsRegistry(r, DOMAIN toolObject')
        BY <1>2, <1>3, <1>5 DEF IsRegistry
      <4>2. QED  BY <1>2, <1>6, <1>7, <3>2, <4>1
    <3>3. QED  BY <1>10, <3>1, <3>2
  <2>2. QED  BY <2>1
<1>14. BuiltIsSane'
  BY <1>6, <1>13 DEF BuiltIsSane
<1>15. ASSUME NEW m \in 1 .. Len(built), NEW t \in ToolNames, OwnTool(m, t) \in DOMAIN toolObject
       PROVE  toolObject'[OwnTool(m, t)] .wraps = toolObject[OwnTool(m, t)].wraps
  <2>1. OwnTool(m, t) \notin SharedTools \cup OwnTools({n})
    BY <1>9, OwnToolsDiffer
  <2>2. \A u \in DOMAIN r : r[u] # OwnTool(m, t)
    BY <1>2, <2>1 DEF IsRegistry
  <2>3. times(OwnTool(m, t)) = 0
    BY <1>2, <2>2, NamesCount DEF IsRegistry
  <2>4. QED  BY <1>3, <1>5, <1>15, <2>3
<1>16. \A o \in DOMAIN p \ DOMAIN toolObject : \A i \in DOMAIN toolObject'[o].wraps :
          toolObject'[o].wraps[i] = n
  BY <1>3, <1>5
<1>17. OwnIsOwn'
  <2>1. ASSUME NEW m \in 1 .. n, NEW t \in ToolNames, OwnTool(m, t) \in DOMAIN toolObject',
               NEW i \in DOMAIN toolObject'[OwnTool(m, t)].wraps
        PROVE  toolObject'[OwnTool(m, t)].wraps[i] = m
    <3>1. CASE m = n
      BY <1>5, <1>8, <1>16, <2>1, <3>1
    <3>2. CASE m \in 1 .. Len(built)
      <4>1. OwnTool(m, t) \notin SharedTools \cup OwnTools({n})
        BY <1>9, <3>2, OwnToolsDiffer
      <4>2. OwnTool(m, t) \in DOMAIN toolObject
        BY <1>2, <1>3, <1>5, <2>1, <4>1 DEF IsRegistry
      <4>3. QED  BY <1>1, <1>15, <2>1, <3>2, <4>2 DEF OwnIsOwn
    <3>3. QED  BY <1>10, <3>1, <3>2
  <2>2. QED  BY <1>6, <2>1 DEF OwnIsOwn
<1>18. HooksFireOnce'
  <2>1. ASSUME NEW m \in 1 .. n, NEW o \in DOMAIN toolObject'
        PROVE  TimesIn(m, toolObject'[o].wraps) =
                 IF built'[m].want.hooked THEN Cardinality(NamesOf(built'[m].names, o)) ELSE 0
    <3>1. CASE m = n
      BY <1>5, <1>6, <1>7, <3>1
    <3>2. CASE m \in 1 .. Len(built) /\ o \in DOMAIN toolObject
      <4>1. TimesIn(m, toolObject'[o].wraps) = TimesIn(m, toolObject[o].wraps)
        BY <1>3, <1>5, <3>2
      <4>2. QED  BY <1>1, <1>6, <3>2, <4>1 DEF HooksFireOnce
    <3>3. CASE m \in 1 .. Len(built) /\ o \notin DOMAIN toolObject
      <4>1. \A i \in DOMAIN toolObject'[o].wraps : toolObject'[o].wraps[i] # m
        BY <1>5, <1>9, <1>16, <3>3
      <4>2. TimesIn(m, toolObject'[o].wraps) = 0
        <5>1. {i \in DOMAIN toolObject'[o].wraps : toolObject'[o].wraps[i] = m} = {}
          BY <4>1
        <5>2. QED  BY <5>1, FS_EmptySet DEF TimesIn
      <4>3. Cardinality(NamesOf(built[m].names, o)) = 0
        <5>1. /\ DOMAIN built[m].names \subseteq ToolNames
              /\ \A t \in DOMAIN built[m].names : built[m].names[t] # o
          BY <1>12, <3>3
        <5>2. QED  BY <5>1, NamesCount
      <4>4. QED  BY <1>6, <3>3, <4>2, <4>3
    <3>4. QED  BY <1>10, <3>1, <3>2, <3>3
  <2>2. ASSUME NEW m \in 1 .. n, built'[m].want.source = "callables",
               NEW t \in DOMAIN built'[m].names, NEW i \in DOMAIN HooksOf(m, t)'
        PROVE  HooksOf(m, t)'[i] = m
    <3>1. t \in ToolNames /\ built'[m].names[t] = OwnTool(m, t)
          /\ OwnTool(m, t) \in DOMAIN toolObject'
      BY <1>13, <2>2 DEF IsRegistry
    <3>2. HooksOf(m, t)' = toolObject'[OwnTool(m, t)].wraps
      BY <2>2, <3>1 DEF HooksOf, Called
    <3>3. QED  BY <1>6, <1>17, <2>2, <3>1, <3>2 DEF OwnIsOwn
  <2>3. QED  BY <1>6, <2>1, <2>2 DEF HooksFireOnce
<1>19. SchemasAreOwn'
  <2>1. ASSUME NEW m \in 1 .. n, built'[m].want.source = "callables",
               NEW t \in DOMAIN built'[m].names
        PROVE  toolObject'[built'[m].names[t]].schema =
                 IF built'[m].want.yaml /\ \E i \in 1 .. Len(YamlTools) : YamlTools[i] = t
                 THEN "yaml" ELSE "introspected"
    <3>1. CASE m = n
      BY <1>3, <1>5, <1>6, <1>7, <2>1, <3>1
    <3>2. CASE m \in 1 .. Len(built)
      <4>1. /\ built'[m] = built[m] /\ t \in ToolNames /\ built[m].names[t] = OwnTool(m, t)
            /\ OwnTool(m, t) \in DOMAIN toolObject
        <5>1. built'[m] = built[m]
          BY <1>6, <3>2
        <5>2. t \in DOMAIN built[m].names /\ built[m].want.source = "callables"
          BY <2>1, <5>1
        <5>3. built[m].names[t] = OwnTool(m, t)
          BY <1>1, <3>2, <5>2 DEF BuiltIsSane
        <5>4. QED  BY <1>12, <3>2, <5>1, <5>2, <5>3
      <4>2. toolObject'[OwnTool(m, t)].schema = toolObject[OwnTool(m, t)].schema
        BY <1>3, <1>5, <3>2, <4>1
      <4>3. QED  BY <1>1, <2>1, <3>2, <4>1, <4>2 DEF SchemasAreOwn
    <3>3. QED  BY <1>10, <3>1, <3>2
  <2>2. QED  BY <1>6, <2>1 DEF SchemasAreOwn
<1>20. QED
  BY <1>11, <1>14, <1>17, <1>18, <1>19 DEF BuildInv, AgentsOwnTheirTools

LEMMA BuildStarts ==
    ASSUME AgentBuildAssumption, BuildInit
    PROVE  BuildInv
<1>1. Len(built) = 0 /\ built = <<>> /\ 1 .. Len(built) = {}
  BY DEF BuildInit
<1>2. Unwrapped("attached") \in ToolStates(0)
  BY DEF Unwrapped, ToolStates
<1>3. \A t \in DOMAIN Shelf : Shelf[t] \in SharedTools
  BY DEF AgentBuildAssumption, SharedTools
<1>4. \A t \in ToolNames : Instance(t) \in SharedTools
  BY DEF Instance, SharedTools
<1>5. BuildTypeOK
  <2>1. /\ shelf = Shelf /\ builds = 0
        /\ DOMAIN toolObject = {Shelf[t] : t \in DOMAIN Shelf} \cup {Instance(t) : t \in ToolNames}
        /\ toolObject = [o \in DOMAIN toolObject |-> Unwrapped("attached")]
    BY DEF BuildInit
  <2>2. IsRegistry(Shelf, SharedTools \cap DOMAIN toolObject)
    BY <1>3, <2>1 DEF IsRegistry, AgentBuildAssumption
  <2>3. toolObject \in [DOMAIN toolObject -> ToolStates(Len(built))]
    BY <1>1, <1>2, <2>1
  <2>4. QED  BY <1>3, <1>4, <2>1, <2>2, <2>3 DEF BuildTypeOK
<1>6. BuiltIsSane
  BY <1>1 DEF BuiltIsSane
<1>7. OwnIsOwn /\ HooksFireOnce /\ SchemasAreOwn
  BY <1>1 DEF OwnIsOwn, HooksFireOnce, SchemasAreOwn
<1>8. QED  BY <1>5, <1>6, <1>7 DEF BuildInv, AgentsOwnTheirTools

LEMMA BuildGoesOn ==
    ASSUME AgentBuildAssumption, BuildInv, [BuildNext]_buildVars
    PROVE  BuildInv'
<1>1. CASE UNCHANGED buildVars
  BY <1>1 DEF buildVars, BuildInv, BuildTypeOK, BuiltIsSane, OwnIsOwn, AgentsOwnTheirTools,
              HooksFireOnce, SchemasAreOwn, HooksOf, Called
<1>2. ASSUME NEW want \in Wants, BuildAgent(want)
      PROVE  BuildInv'
  <2> DEFINE n == Len(built) + 1
  <2>1. CASE PairingFails(want, n)
    BY <1>2, <2>1, PairingFailsStep DEF BuildAgent, BuildAttempt
  <2>2. CASE ~PairingFails(want, n)
    BY <1>2, <2>2, AgentBuiltStep DEF BuildAgent, BuildAttempt
  <2>3. QED  BY <2>1, <2>2
<1>3. QED
  BY <1>1, <1>2, RefusedStep, RegisterStep DEF BuildNext

\* Hooks fire once for each name and schemas are a function's own, whatever agents are
\* built, refused or fail over the same tools (Agent.__post_init__,
\* wrap_tool_registry_with_hooks).
THEOREM BuildCorrect == BuildSpec => []AgentsOwnTheirTools
<1>1. BuildInit => BuildInv
  BY AgentBuildAssumption, BuildStarts
<1>2. BuildInv /\ [BuildNext]_buildVars => BuildInv'
  BY AgentBuildAssumption, BuildGoesOn
<1>3. BuildInv => AgentsOwnTheirTools
  BY DEF BuildInv
<1>4. QED  BY <1>1, <1>2, <1>3, PTL DEF BuildSpec
-----------------------------------------------------------------------------
(***************************************************************************)
(* The catalog of prompt skills: an undisturbed scan makes the entries of  *)
(* the files, and the cached agents follow them.                           *)
(***************************************************************************)
Marks == 1 .. edited
SkillFiles == {NoFile} \cup [name : Stems \cup {Unreadable}, stamp : Marks]
Readings == {NoFile} \cup [name : Stems, stamp : Marks]
InReload == {"check", "scan", "same", "changed", "agent", "answered", "raised"}

CatalogTypeOK ==
    /\ edited \in Nat \ {0}
    /\ skillFile \in [SkillPaths -> SkillFiles]
    /\ DOMAIN skillEntry \subseteq Stems
    /\ skillEntry \in [DOMAIN skillEntry -> [path : SkillPaths, text : Marks, mtime : Marks]]
    /\ cachedAgent = [k \in AgentKeys |-> cachedAgent[k]]
    /\ reload.at \in InReload \cup {"idle"} /\ reload.by \in {"none", "start", "turn", "tool"}
    /\ reload.todo \subseteq SkillPaths /\ reload.read \in Readings /\ reload.quiet \in BOOLEAN
    /\ reload = [by |-> reload.by, key |-> reload.key, at |-> reload.at, todo |-> reload.todo,
                 read |-> reload.read, quiet |-> reload.quiet]
    /\ reload.by = "turn" => reload.key \in AgentKeys
    /\ reload.at = "idle" <=> reload.by = "none"
    /\ reload.read # NoFile => reload.at = "scan" /\ reload.todo # {}

\* A file that still has the stamp of a reading is what was read.
StampsAreFresh ==
    /\ \A n \in DOMAIN skillEntry :
           LET f == skillFile[skillEntry[n].path] IN f.stamp = skillEntry[n].text => f.name = n
    /\ reload.read # NoFile =>
           LET f == skillFile[Earliest(reload.todo)] IN f.stamp = reload.read.stamp => f = reload.read

\* The entries are what a scan of these files makes of them.
EntriesOf(ps) ==
    /\ DOMAIN skillEntry = {skillFile[p].name : p \in ps} \ {Unreadable}
    /\ \A n \in DOMAIN skillEntry :
           LET w == Latest({p \in ps : skillFile[p].name = n})
           IN  skillEntry[n].path = w /\ skillEntry[n].text = skillFile[w].stamp

\* What an undisturbed scan has passed comes before what it has not, and is entered.
ScannedSoFar ==
    reload.at = "scan" /\ reload.quiet =>
        /\ reload.todo \subseteq OnDisk
        /\ \A p \in OnDisk \ reload.todo, q \in reload.todo : ScansBefore(p, q)
        /\ reload.read # NoFile => reload.read = skillFile[Earliest(reload.todo)]
        /\ EntriesOf(OnDisk \ reload.todo)

\* The cached agents have the catalog that is there, unless nobody was told of a
\* change; while a scan changes it, nobody has been told yet.
AgentsFollow ==
    /\ reload.by = "start" => \A k \in AgentKeys : cachedAgent[k] = NoPrompt
    /\ ~eaten /\ reload.at \notin {"scan", "changed"} =>
           \A k \in AgentKeys : cachedAgent[k] \in {NoPrompt, RenderContext}

CatalogInv ==
    /\ CatalogTypeOK /\ StampsAreFresh /\ ScannedSoFar /\ AgentsFollow
    /\ reload.at = "check" /\ reload.quiet => reload.todo = OnDisk
    /\ CatalogIsCurrent /\ TurnSpeaksTheCatalog

LEMMA EarliestIs ==
  ASSUME SkillCatalogAssumption, NEW ps \in SUBSET SkillPaths, ps # {}
  PROVE  /\ Earliest(ps) \in ps
         /\ \A q \in ps \ {Earliest(ps)} : ScansBefore(Earliest(ps), q)
<1>1. \A p \in ps : p[1] \in Nat /\ p[2] \in Nat /\ p = <<p[1], p[2]>>
  <2>1. ps \subseteq Dirs \X Stems /\ Dirs \subseteq Nat /\ Stems \subseteq Nat
    BY DEF SkillCatalogAssumption, SkillPaths
  <2> TAKE p \in ps
  <2>2. p \in Dirs \X Stems
    BY <2>1
  <2>3. p[1] \in Dirs /\ p[2] \in Stems /\ p = <<p[1], p[2]>>
    BY <2>2
  <2>4. QED  BY <2>1, <2>3
<1>2. PICK d \in {p[1] : p \in ps} : \A e \in {p[1] : p \in ps} : d <= e
  <2>1. {p[1] : p \in ps} \in SUBSET Nat /\ {p[1] : p \in ps} # {}
    BY <1>1
  <2>2. QED  BY <2>1, LeastOf
<1>3. PICK s \in {p[2] : p \in {q \in ps : q[1] = d}} :
          \A t \in {p[2] : p \in {q \in ps : q[1] = d}} : s <= t
  <2>1. {p[2] : p \in {q \in ps : q[1] = d}} \in SUBSET Nat /\ {p[2] : p \in {q \in ps : q[1] = d}} # {}
    BY <1>1, <1>2
  <2>2. QED  BY <2>1, LeastOf
<1>4. PICK p \in ps : p[1] = d /\ p[2] = s
  BY <1>3
<1>5. \A q \in ps \ {p} : ScansBefore(p, q)
  <2> TAKE q \in ps \ {p}
  <2>1. p[1] <= q[1] /\ p[1] \in Nat /\ q[1] \in Nat /\ p[2] \in Nat /\ q[2] \in Nat
    BY <1>1, <1>2, <1>4
  <2>2. q[1] = p[1] => p[2] <= q[2]
    BY <1>3, <1>4
  <2>3. q[1] # p[1] \/ q[2] # p[2]
    BY <1>1
  <2>4. QED  BY <2>1, <2>2, <2>3 DEF ScansBefore
<1>6. \E r \in ps : \A q \in ps \ {r} : ScansBefore(r, q)
  BY <1>5
<1>7. QED  BY <1>6 DEF Earliest

LEMMA LatestIs ==
  ASSUME SkillCatalogAssumption, NEW ps \in SUBSET SkillPaths, NEW p \in ps,
         \A q \in ps \ {p} : ScansBefore(q, p)
  PROVE  Latest(ps) = p
<1>1. \A q \in ps : q[1] \in Nat /\ q[2] \in Nat
  BY DEF SkillCatalogAssumption, SkillPaths
<1>2. \E w \in ps : \A q \in ps \ {w} : ScansBefore(q, w)
  OBVIOUS
<1>3. Latest(ps) \in ps /\ \A q \in ps \ {Latest(ps)} : ScansBefore(q, Latest(ps))
  BY <1>2 DEF Latest
<1>4. ASSUME NEW w \in ps, w # p, ScansBefore(p, w), ScansBefore(w, p)
      PROVE  FALSE
  BY <1>1, <1>4 DEF ScansBefore
<1>5. QED  BY <1>3, <1>4

LEMMA NothingEntered ==
  /\ DOMAIN <<>> = {}
  /\ \A S : <<>> \in [{} -> S]
<1>1. 1 .. 0 = {}
  OBVIOUS
<1>2. \A S : <<>> \in Seq(S) /\ Len(<<>>) = 0
  BY EmptySeq
<1>3. \A S : <<>> \in [1 .. 0 -> S]
  BY <1>2, LenProperties
<1>4. QED  BY <1>1, <1>3

LEMMA CatalogInitial == SkillCatalogAssumption /\ CatalogInit => CatalogInv
<1> SUFFICES ASSUME SkillCatalogAssumption, CatalogInit PROVE CatalogInv
  OBVIOUS
<1> USE DEF CatalogInit
<1>1. CatalogTypeOK
  <2>1. /\ reload.at = "scan" /\ reload.by = "start" /\ reload.todo = OnDisk
        /\ reload.read = NoFile /\ reload.quiet = TRUE
        /\ reload = [by |-> reload.by, key |-> reload.key, at |-> reload.at, todo |-> reload.todo,
                     read |-> reload.read, quiet |-> reload.quiet]
    BY DEF NoReload
  <2>2. skillFile \in [SkillPaths -> SkillFiles]
    <3>1. 1 \in Marks
      BY DEF Marks
    <3>2. {NoFile} \cup [name : Stems, stamp : {1}] \subseteq SkillFiles
      BY <3>1 DEF SkillFiles
    <3>3. QED  BY <3>2
  <2>3. /\ DOMAIN skillEntry \subseteq Stems
        /\ skillEntry \in [DOMAIN skillEntry -> [path : SkillPaths, text : Marks, mtime : Marks]]
    BY NothingEntered
  <2>4. OnDisk \subseteq SkillPaths /\ NoFile \in Readings
    BY DEF OnDisk, Readings
  <2>5. cachedAgent = [k \in AgentKeys |-> cachedAgent[k]] /\ edited \in Nat \ {0}
    OBVIOUS
  <2>6. QED  BY <2>1, <2>2, <2>3, <2>4, <2>5 DEF CatalogTypeOK, InReload
<1>2. StampsAreFresh
  BY NothingEntered DEF StampsAreFresh, NoReload
<1>3. ScannedSoFar
  <2>1. OnDisk \ reload.todo = {}
    BY DEF NoReload
  <2>2. EntriesOf({})
    BY NothingEntered DEF EntriesOf
  <2>3. QED  BY <2>1, <2>2 DEF ScannedSoFar, NoReload
<1>4. AgentsFollow
  BY DEF AgentsFollow, NoReload
<1>5. reload.at = "scan"
  BY DEF NoReload
<1>6. QED  BY <1>1, <1>2, <1>3, <1>4, <1>5 DEF CatalogInv, CatalogIsCurrent, TurnSpeaksTheCatalog

LEMMA EditStep ==
  ASSUME SkillCatalogAssumption, CatalogInv, NEW p \in SkillPaths, EditSkillFile(p)
  PROVE  CatalogInv'
<1> USE DEF EditSkillFile
<1>1. PICK f \in {NoFile} \cup [name : Stems \cup {Unreadable}, stamp : {edited + 1}] :
          skillFile' = [skillFile EXCEPT ![p] = f]
  OBVIOUS
<1>2. /\ edited \in Nat \ {0} /\ edited' = edited + 1 /\ Marks \subseteq Marks'
      /\ edited + 1 \in Marks' /\ edited + 1 \notin Marks /\ 0 \notin Marks
  BY DEF CatalogInv, CatalogTypeOK, Marks
<1>3. f \in SkillFiles' /\ f.stamp \notin Marks /\ SkillFiles \subseteq SkillFiles' /\ Readings \subseteq Readings'
  BY <1>2 DEF SkillFiles, Readings, NoFile
<1>4. /\ reload'.at = reload.at /\ reload'.by = reload.by /\ reload'.key = reload.key
      /\ reload'.todo = reload.todo /\ reload'.read = reload.read /\ reload'.quiet = FALSE
      /\ reload' = [by |-> reload.by, key |-> reload.key, at |-> reload.at, todo |-> reload.todo,
                    read |-> reload.read, quiet |-> FALSE]
  BY DEF CatalogInv, CatalogTypeOK
<1>5. CatalogTypeOK'
  <2>1. skillFile' \in [SkillPaths -> SkillFiles']
    BY <1>1, <1>3 DEF CatalogInv, CatalogTypeOK
  <2>2. skillEntry' \in [DOMAIN skillEntry' -> [path : SkillPaths, text : Marks', mtime : Marks']]
    BY <1>2 DEF CatalogInv, CatalogTypeOK
  <2>3. reload'.read \in Readings'
    BY <1>3, <1>4 DEF CatalogInv, CatalogTypeOK
  <2>4. edited' \in Nat \ {0}
    BY <1>2
  <2>5. cachedAgent' = [k \in AgentKeys |-> cachedAgent'[k]] /\ DOMAIN skillEntry' \subseteq Stems
    BY DEF CatalogInv, CatalogTypeOK
  <2>6. /\ reload.at \in InReload \cup {"idle"} /\ reload.by \in {"none", "start", "turn", "tool"}
        /\ reload.todo \subseteq SkillPaths
        /\ reload.by = "turn" => reload.key \in AgentKeys
        /\ reload.at = "idle" <=> reload.by = "none"
        /\ reload.read # NoFile => reload.at = "scan" /\ reload.todo # {}
    BY DEF CatalogInv, CatalogTypeOK
  <2>7. QED  BY <1>4, <2>1, <2>2, <2>3, <2>4, <2>5, <2>6 DEF CatalogTypeOK
<1>6. StampsAreFresh'
  <2>1. ASSUME NEW q \in SkillPaths, skillFile'[q].stamp \in Marks
        PROVE  skillFile'[q] = skillFile[q]
    BY <1>1, <1>3, <2>1 DEF CatalogInv, CatalogTypeOK
  <2>2. ASSUME NEW n \in DOMAIN skillEntry, skillFile'[skillEntry[n].path].stamp = skillEntry[n].text
        PROVE  skillFile'[skillEntry[n].path].name = n
    <3>1. skillEntry[n].path \in SkillPaths /\ skillEntry[n].text \in Marks
      BY DEF CatalogInv, CatalogTypeOK
    <3>2. QED  BY <2>1, <2>2, <3>1 DEF CatalogInv, StampsAreFresh
  <2>3. ASSUME reload.read # NoFile, skillFile'[Earliest(reload.todo)].stamp = reload.read.stamp
        PROVE  skillFile'[Earliest(reload.todo)] = reload.read
    <3>1. Earliest(reload.todo) \in SkillPaths
      BY <2>3, EarliestIs DEF CatalogInv, CatalogTypeOK
    <3>2. reload.read.stamp \in Marks
      BY <2>3 DEF CatalogInv, CatalogTypeOK, Readings
    <3>3. QED  BY <2>1, <2>3, <3>1, <3>2 DEF CatalogInv, StampsAreFresh
  <2>4. QED  BY <1>4, <2>2, <2>3 DEF StampsAreFresh
<1>7. AgentsFollow' /\ TurnSpeaksTheCatalog'
  BY <1>4 DEF CatalogInv, AgentsFollow, TurnSpeaksTheCatalog, RenderContext
<1>8. QED  BY <1>4, <1>5, <1>6, <1>7 DEF CatalogInv, ScannedSoFar, CatalogIsCurrent

LEMMA BeginReloadStep ==
  ASSUME SkillCatalogAssumption, CatalogInv, NEW by \in {"turn", "tool"}, NEW key \in AgentKeys,
         BeginReload(by, key)
  PROVE  CatalogInv'
<1>1. reload' = [by |-> by, key |-> key, at |-> "check", todo |-> OnDisk, read |-> NoFile,
                 quiet |-> TRUE]
  BY DEF BeginReload, NoReload
<1>2. /\ reload'.by = by /\ reload'.key = key /\ reload'.at = "check" /\ reload'.todo = OnDisk
      /\ reload'.read = NoFile /\ reload'.quiet = TRUE
      /\ reload' = [by |-> reload'.by, key |-> reload'.key, at |-> reload'.at, todo |-> reload'.todo,
                    read |-> reload'.read, quiet |-> reload'.quiet]
  BY <1>1
<1> USE DEF BeginReload
<1>3. OnDisk \subseteq SkillPaths /\ NoFile \in Readings /\ Readings' = Readings /\ OnDisk' = OnDisk
  BY DEF OnDisk, Readings, Marks
<1> HIDE DEF BeginReload
<1>4. UNCHANGED <<skillFile, skillEntry, skillOrder, cachedAgent, eaten, edited>> /\ reload.at = "idle"
  BY DEF BeginReload
<1>5. CatalogTypeOK'
  <2>1. /\ edited' \in Nat \ {0}
        /\ skillFile' \in [SkillPaths -> SkillFiles']
        /\ DOMAIN skillEntry' \subseteq Stems
        /\ skillEntry' \in [DOMAIN skillEntry' -> [path : SkillPaths, text : Marks', mtime : Marks']]
        /\ cachedAgent' = [k \in AgentKeys |-> cachedAgent'[k]]
    BY <1>4 DEF CatalogInv, CatalogTypeOK, SkillFiles, Marks
  <2>2. QED  BY <1>2, <1>3, <2>1 DEF CatalogTypeOK, InReload
<1>6. StampsAreFresh'
  BY <1>2, <1>4 DEF CatalogInv, StampsAreFresh
<1>7. AgentsFollow'
  BY <1>2, <1>4 DEF CatalogInv, AgentsFollow, RenderContext
<1>8. QED  BY <1>2, <1>3, <1>5, <1>6, <1>7 DEF CatalogInv, ScannedSoFar, CatalogIsCurrent, TurnSpeaksTheCatalog

\* Each file on disk is where it is expected and there are no other entries: then either a
\* stat was later than its reading or the entries are those of a scan.
LEMMA SameCatalog ==
  ASSUME SkillCatalogAssumption, CatalogTypeOK, StampsAreFresh, ~Drifted,
         \A p \in OnDisk : ~Differs(p),
         \A n \in DOMAIN skillEntry : skillEntry[n].text = skillEntry[n].mtime
  PROVE  EntriesOf(OnDisk)
<1> DEFINE stems == {p[2] : p \in OnDisk}
           f == [p \in OnDisk |-> p[2]]
<1>1. OnDisk \subseteq SkillPaths /\ Unreadable \notin Stems
  BY DEF OnDisk, SkillCatalogAssumption
<1>2. \A p \in OnDisk : /\ p[2] \in DOMAIN skillEntry /\ skillEntry[p[2]].path = p
                        /\ skillFile[p].stamp = skillEntry[p[2]].text
                        /\ skillFile[p].name = p[2]
  <2> TAKE p \in OnDisk
  <2>1. p[2] \in DOMAIN skillEntry /\ skillEntry[p[2]].path = p
        /\ skillEntry[p[2]].mtime = skillFile[p].stamp
    BY DEF Differs
  <2>2. QED  BY <2>1 DEF StampsAreFresh
<1>3. IsFiniteSet(OnDisk) /\ IsFiniteSet(DOMAIN skillEntry)
  <2>1. IsFiniteSet(Dirs \X Stems) /\ IsFiniteSet(Stems)
    BY FS_Product DEF SkillCatalogAssumption
  <2>2. DOMAIN skillEntry \subseteq Stems
    BY DEF CatalogTypeOK
  <2>3. QED  BY <1>1, <2>1, <2>2, FS_Subset DEF SkillPaths
<1>4. f \in Surjection(OnDisk, stems) /\ f \in Injection(OnDisk, stems)
  <2>1. f \in [OnDisk -> stems]
    OBVIOUS
  <2>2. \A s \in stems : \E p \in OnDisk : f[p] = s
    OBVIOUS
  <2>3. \A p, q \in OnDisk : f[p] = f[q] => p = q
    BY <1>2
  <2>4. QED  BY <2>1, <2>2, <2>3 DEF Surjection, Injection, IsInjective
<1>5. stems = DOMAIN skillEntry
  <2>1. Cardinality(stems) = Cardinality(OnDisk)
    BY <1>3, <1>4, FS_Surjection
  <2>2. stems \subseteq DOMAIN skillEntry /\ Cardinality(OnDisk) = Cardinality(DOMAIN skillEntry)
    BY <1>2 DEF Drifted
  <2>3. QED  BY <1>3, <2>1, <2>2, FS_Subset
<1>6. DOMAIN skillEntry = {skillFile[p].name : p \in OnDisk} \ {Unreadable}
  <2>1. stems \subseteq Stems
    BY <1>5 DEF CatalogTypeOK
  <2>2. {skillFile[p].name : p \in OnDisk} = stems
    BY <1>2
  <2>3. QED  BY <1>1, <1>5, <2>1, <2>2
<1>7. ASSUME NEW n \in DOMAIN skillEntry
      PROVE  LET w == Latest({p \in OnDisk : skillFile[p].name = n})
             IN  skillEntry[n].path = w /\ skillEntry[n].text = skillFile[w].stamp
  <2>1. PICK p \in OnDisk : p[2] = n
    BY <1>5
  <2>2. {q \in OnDisk : skillFile[q].name = n} = {p}
    BY <1>2, <2>1
  <2>3. {p} \in SUBSET SkillPaths /\ p \in {p}
    BY <1>1
  <2>4. Latest({p}) = p
    BY <2>3, LatestIs
  <2>5. QED  BY <1>2, <2>1, <2>2, <2>4, ZenonT(40)
<1>8. QED  BY <1>6, <1>7 DEF EntriesOf

LEMMA CurrentIsEntered ==
  EntriesOf(OnDisk) =>
      /\ DOMAIN skillEntry = Written
      /\ \A n \in Written : /\ skillEntry[n].path = Winner(n)
                            /\ skillEntry[n].text = skillFile[Winner(n)].stamp
BY DEF EntriesOf, Written, Winner

\* What a reload leaves as it was.
KeptType ==
    /\ edited \in Nat \ {0}
    /\ skillFile \in [SkillPaths -> SkillFiles]
    /\ DOMAIN skillEntry \subseteq Stems
    /\ skillEntry \in [DOMAIN skillEntry -> [path : SkillPaths, text : Marks, mtime : Marks]]
    /\ cachedAgent = [k \in AgentKeys |-> cachedAgent[k]]

LEMMA CheckStep ==
  ASSUME SkillCatalogAssumption, CatalogInv, CheckMtimes
  PROVE  CatalogInv'
<1> DEFINE changed == {p \in reload.todo \cap OnDisk : Differs(p)}
           gone == reload.todo \ OnDisk
<1>1. /\ reload.at = "check" /\ reload.read = NoFile /\ reload.by # "none"
      /\ reload.by = "turn" => reload.key \in AgentKeys
      /\ reload.by \in {"none", "start", "turn", "tool"} /\ reload.quiet \in BOOLEAN
      /\ reload.todo \subseteq SkillPaths
      /\ reload = [by |-> reload.by, key |-> reload.key, at |-> reload.at, todo |-> reload.todo,
                   read |-> reload.read, quiet |-> reload.quiet]
  BY DEF CheckMtimes, CatalogInv, CatalogTypeOK
<1>2. /\ OnDisk \subseteq SkillPaths /\ NoFile \in Readings /\ Readings' = Readings /\ OnDisk' = OnDisk
      /\ skillFile' = skillFile /\ cachedAgent' = cachedAgent /\ eaten' = eaten /\ edited' = edited
  BY DEF CheckMtimes, OnDisk, Readings, Marks
<1>3. KeptType /\ Marks' = Marks /\ SkillFiles' = SkillFiles
  BY <1>2 DEF CatalogInv, CatalogTypeOK, KeptType, Marks, SkillFiles
<1>4. CASE /\ skillEntry' = <<>>
           /\ reload' = [reload EXCEPT !.at = "scan", !.todo = OnDisk]
  <2>1. reload' = [by |-> reload.by, key |-> reload.key, at |-> "scan", todo |-> OnDisk,
                   read |-> NoFile, quiet |-> reload.quiet]
    BY <1>1, <1>4
  <2>2. KeptType'
    BY <1>2, <1>3, <1>4, NothingEntered DEF KeptType
  <2>3. CatalogTypeOK'
    BY <1>1, <1>2, <2>1, <2>2 DEF KeptType, CatalogTypeOK, InReload
  <2>4. StampsAreFresh'
    <3>1. reload'.read = NoFile
      BY <2>1
    <3>2. DOMAIN skillEntry' = {}
      BY <1>4, NothingEntered, Zenon
    <3>3. QED  BY <3>1, <3>2 DEF StampsAreFresh
  <2>5. EntriesOf({})'
    BY <1>4, NothingEntered DEF EntriesOf
  <2>6. ScannedSoFar'
    <3>1. OnDisk' \ reload'.todo = {} /\ reload'.read = NoFile /\ reload'.todo \subseteq OnDisk'
      BY <1>2, <2>1
    <3>2. QED  BY <2>5, <3>1 DEF ScannedSoFar
  <2>7. AgentsFollow'
    BY <1>2, <2>1 DEF CatalogInv, AgentsFollow
  <2>8. QED  BY <2>1, <2>3, <2>4, <2>6, <2>7 DEF CatalogInv, CatalogIsCurrent, TurnSpeaksTheCatalog
<1>5. ASSUME NEW at \in {"raised", "same"}, reload' = Returns(at), skillEntry' = skillEntry,
             skillOrder' = skillOrder
      PROVE  /\ reload' = [by |-> reload.by, key |-> reload.key, at |-> at, todo |-> {},
                           read |-> NoFile, quiet |-> reload.quiet]
             /\ CatalogTypeOK' /\ StampsAreFresh' /\ AgentsFollow'
  <2>1. reload' = [by |-> reload.by, key |-> reload.key, at |-> at, todo |-> {},
                   read |-> NoFile, quiet |-> reload.quiet]
    BY <1>1, <1>5 DEF Returns
  <2>2. KeptType'
    BY <1>2, <1>3, <1>5 DEF KeptType
  <2>3. CatalogTypeOK'
    BY <1>1, <1>2, <2>1, <2>2 DEF KeptType, CatalogTypeOK, InReload
  <2>4. StampsAreFresh'
    BY <1>2, <1>5, <2>1 DEF CatalogInv, StampsAreFresh
  <2>5. AgentsFollow'
    BY <1>1, <1>2, <1>5, <2>1 DEF CatalogInv, AgentsFollow, RenderContext
  <2>6. QED  BY <2>1, <2>3, <2>4, <2>5
<1>6. CASE reload' = Returns("raised") /\ skillEntry' = skillEntry /\ skillOrder' = skillOrder
  BY <1>5, <1>6 DEF CatalogInv, ScannedSoFar, CatalogIsCurrent, TurnSpeaksTheCatalog
<1>7. CASE /\ changed = {} /\ gone = {} /\ ~Drifted
           /\ reload' = Returns("same") /\ skillEntry' = skillEntry /\ skillOrder' = skillOrder
  <2>1. reload'.at = "same" /\ reload'.quiet = reload.quiet /\ CatalogTypeOK' /\ StampsAreFresh' /\ AgentsFollow'
    BY <1>5, <1>7
  <2>2. CatalogIsCurrent'
    <3> SUFFICES ASSUME reload.quiet,
                        \A n \in DOMAIN skillEntry : skillEntry[n].text = skillEntry[n].mtime
                 PROVE  EntriesOf(OnDisk)
      <4>1. Written' = Written /\ (\A n : Winner(n)' = Winner(n))
        BY <1>2 DEF Written, Winner
      <4>2. QED  BY <1>2, <1>7, <2>1, <4>1, CurrentIsEntered DEF CatalogIsCurrent
    <3>1. \A p \in OnDisk : ~Differs(p)
      BY <1>1, <1>7 DEF CatalogInv
    <3>2. QED  BY <1>7, <3>1, SameCatalog DEF CatalogInv
  <2>3. QED  BY <2>1, <2>2 DEF CatalogInv, ScannedSoFar, TurnSpeaksTheCatalog
<1>8. QED  BY <1>4, <1>6, <1>7 DEF CheckMtimes

\* One file more is passed: it comes after those that were, and before the others.
LEMMA OneFileMore ==
  ASSUME SkillCatalogAssumption, reload.todo \subseteq OnDisk, reload.todo # {},
         \A p \in OnDisk \ reload.todo, q \in reload.todo : ScansBefore(p, q)
  PROVE  LET p == Earliest(reload.todo)
             rest == reload.todo \ {p}
         IN  /\ p \in reload.todo
             /\ OnDisk \ rest = (OnDisk \ reload.todo) \cup {p}
             /\ \A q \in OnDisk \ reload.todo : ScansBefore(q, p)
             /\ \A q \in OnDisk \ rest, t \in rest : ScansBefore(q, t)
<1> DEFINE p == Earliest(reload.todo)
           rest == reload.todo \ {p}
<1>1. reload.todo \in SUBSET SkillPaths
  BY DEF OnDisk
<1>2. p \in reload.todo /\ \A q \in reload.todo \ {p} : ScansBefore(p, q)
  BY <1>1, EarliestIs
<1>3. OnDisk \ rest = (OnDisk \ reload.todo) \cup {p}
  BY <1>2
<1>4. QED  BY <1>2, <1>3

LEMMA ParseStep ==
  ASSUME SkillCatalogAssumption, CatalogInv, ParseSkillFile
  PROVE  CatalogInv'
<1> DEFINE p == Earliest(reload.todo)
           f == skillFile[p]
<1>1. /\ reload.at = "scan" /\ reload.read = NoFile /\ reload.todo # {}
      /\ UNCHANGED <<skillFile, skillEntry, skillOrder, cachedAgent, eaten, edited>>
      /\ \/ f.name = Unreadable /\ reload' = [reload EXCEPT !.todo = @ \ {p}]
         \/ f.name # Unreadable /\ reload' = [reload EXCEPT !.read = f]
  BY DEF ParseSkillFile
<1>2. /\ reload.by # "none" /\ (reload.by = "turn" => reload.key \in AgentKeys)
      /\ reload.by \in {"none", "start", "turn", "tool"} /\ reload.quiet \in BOOLEAN
      /\ reload.todo \subseteq SkillPaths
      /\ reload = [by |-> reload.by, key |-> reload.key, at |-> reload.at, todo |-> reload.todo,
                   read |-> reload.read, quiet |-> reload.quiet]
  BY <1>1 DEF CatalogInv, CatalogTypeOK
<1>3. p \in reload.todo
  BY <1>1, <1>2, EarliestIs
<1>4. /\ KeptType' /\ Readings' = Readings /\ Marks' = Marks /\ OnDisk' = OnDisk
  BY <1>1 DEF CatalogInv, CatalogTypeOK, KeptType, Marks, SkillFiles, Readings, OnDisk
<1>5. PICK todo, read :
          /\ reload' = [by |-> reload.by, key |-> reload.key, at |-> "scan", todo |-> todo,
                        read |-> read, quiet |-> reload.quiet]
          /\ \/ f.name = Unreadable /\ todo = reload.todo \ {p} /\ read = NoFile
             \/ f.name # Unreadable /\ todo = reload.todo /\ read = f
  <2>1. CASE f.name = Unreadable
    BY <1>1, <1>2, <2>1
  <2>2. CASE f.name # Unreadable
    BY <1>1, <1>2, <2>2
  <2>3. QED  BY <2>1, <2>2
<1>6. /\ reload'.by = reload.by /\ reload'.key = reload.key /\ reload'.at = "scan"
      /\ reload'.todo = todo /\ reload'.read = read /\ reload'.quiet = reload.quiet
      /\ reload' = [by |-> reload'.by, key |-> reload'.key, at |-> reload'.at, todo |-> reload'.todo,
                    read |-> reload'.read, quiet |-> reload'.quiet]
  BY <1>5
<1>7. CatalogTypeOK'
  <2>1. NoFile \in Readings /\ (f.name # Unreadable => f \in Readings)
    <3>1. f \in SkillFiles
      BY <1>2, <1>3 DEF CatalogInv, CatalogTypeOK
    <3>2. QED  BY <3>1 DEF SkillFiles, Readings, NoFile
  <2>2. todo \subseteq SkillPaths /\ read \in Readings /\ (read # NoFile => todo # {})
    BY <1>1, <1>2, <1>5, <2>1
  <2>3. QED  BY <1>1, <1>2, <1>4, <1>6, <2>2 DEF KeptType, CatalogTypeOK, InReload
<1>8. StampsAreFresh'
  <2>1. read # NoFile => read = skillFile[Earliest(todo)]
    BY <1>5
  <2>2. QED  BY <1>1, <1>6, <2>1 DEF CatalogInv, StampsAreFresh
<1>9. ScannedSoFar'
  <2> SUFFICES ASSUME reload.quiet
               PROVE  /\ todo \subseteq OnDisk
                      /\ \A q \in OnDisk \ todo, t \in todo : ScansBefore(q, t)
                      /\ read # NoFile => read = skillFile[Earliest(todo)]
                      /\ EntriesOf(OnDisk \ todo)
    BY <1>1, <1>4, <1>6 DEF ScannedSoFar, EntriesOf
  <2>1. /\ reload.todo \subseteq OnDisk
        /\ \A q \in OnDisk \ reload.todo, t \in reload.todo : ScansBefore(q, t)
        /\ EntriesOf(OnDisk \ reload.todo)
    BY <1>1 DEF CatalogInv, ScannedSoFar
  <2>2. CASE f.name # Unreadable
    BY <1>5, <2>1, <2>2
  <2>3. CASE f.name = Unreadable
    <3>1. todo = reload.todo \ {p} /\ read = NoFile
      BY <1>5, <2>3
    <3>2. /\ OnDisk \ todo = (OnDisk \ reload.todo) \cup {p}
          /\ \A q \in OnDisk \ todo, t \in todo : ScansBefore(q, t)
      BY <1>1, <2>1, <3>1, OneFileMore
    <3>3. {skillFile[q].name : q \in OnDisk \ todo} \ {Unreadable}
            = {skillFile[q].name : q \in OnDisk \ reload.todo} \ {Unreadable}
      BY <2>3, <3>2
    <3>4. ASSUME NEW n \in DOMAIN skillEntry
          PROVE  {q \in OnDisk \ todo : skillFile[q].name = n}
                   = {q \in OnDisk \ reload.todo : skillFile[q].name = n}
      <4>1. n # Unreadable
        BY DEF CatalogInv, CatalogTypeOK, SkillCatalogAssumption
      <4>2. QED  BY <2>3, <3>2, <4>1
    <3>5. EntriesOf(OnDisk \ todo)
      BY <2>1, <3>3, <3>4 DEF EntriesOf
    <3>6. QED  BY <2>1, <3>1, <3>2, <3>5
  <2>4. QED  BY <2>2, <2>3
<1>10. AgentsFollow'
  BY <1>1, <1>6 DEF CatalogInv, AgentsFollow
<1>11. QED  BY <1>6, <1>7, <1>8, <1>9, <1>10 DEF CatalogInv, CatalogIsCurrent, TurnSpeaksTheCatalog

LEMMA EnterSkillStep ==
  ASSUME SkillCatalogAssumption, CatalogInv, EnterSkill
  PROVE  CatalogInv'
<1> DEFINE p == Earliest(reload.todo)
           n == reload.read.name
           rest == reload.todo \ {p}
           entered == [m \in DOMAIN skillEntry \cup {n} |->
                          IF m = n THEN [path |-> p, text |-> reload.read.stamp,
                                         mtime |-> skillFile[p].stamp]
                          ELSE skillEntry[m]]
<1>1. /\ reload.at = "scan" /\ reload.read # NoFile
      /\ UNCHANGED <<skillFile, cachedAgent, edited>>
      /\ \/ /\ p \in OnDisk /\ skillEntry' = entered /\ eaten' = eaten
            /\ reload' = [reload EXCEPT !.todo = @ \ {p}, !.read = NoFile]
         \/ /\ p \notin OnDisk /\ skillEntry' = skillEntry /\ eaten' = TRUE
            /\ reload' = Returns("raised")
  BY DEF EnterSkill
<1>2. /\ reload.by # "none" /\ (reload.by = "turn" => reload.key \in AgentKeys)
      /\ reload.by \in {"none", "start", "turn", "tool"} /\ reload.quiet \in BOOLEAN
      /\ reload.todo \subseteq SkillPaths /\ reload.todo # {} /\ reload.read \in Readings
      /\ reload = [by |-> reload.by, key |-> reload.key, at |-> reload.at, todo |-> reload.todo,
                   read |-> reload.read, quiet |-> reload.quiet]
  BY <1>1 DEF CatalogInv, CatalogTypeOK
<1>3. p \in reload.todo
  BY <1>2, EarliestIs
<1>4. /\ KeptType /\ Readings' = Readings /\ Marks' = Marks /\ OnDisk' = OnDisk /\ SkillFiles' = SkillFiles
      /\ NoFile \in Readings
  BY <1>1 DEF CatalogInv, CatalogTypeOK, KeptType, Marks, SkillFiles, Readings, OnDisk
<1>5. n \in Stems /\ reload.read.stamp \in Marks
  BY <1>1, <1>2 DEF Readings
<1>6. CASE /\ p \notin OnDisk /\ skillEntry' = skillEntry /\ eaten' = TRUE
           /\ reload' = Returns("raised")
  <2>1. /\ reload'.by = reload.by /\ reload'.key = reload.key /\ reload'.at = "raised"
        /\ reload'.todo = {} /\ reload'.read = NoFile /\ reload'.quiet = reload.quiet
        /\ reload' = [by |-> reload'.by, key |-> reload'.key, at |-> reload'.at, todo |-> reload'.todo,
                      read |-> reload'.read, quiet |-> reload'.quiet]
    BY <1>2, <1>6 DEF Returns
  <2>2. KeptType'
    BY <1>1, <1>4, <1>6 DEF KeptType
  <2>3. CatalogTypeOK'
    BY <1>2, <1>4, <2>1, <2>2 DEF KeptType, CatalogTypeOK, InReload
  <2>4. StampsAreFresh'
    BY <1>1, <1>6, <2>1 DEF CatalogInv, StampsAreFresh
  <2>5. AgentsFollow'
    BY <1>1, <1>6, <2>1 DEF CatalogInv, AgentsFollow
  <2>6. QED  BY <2>1, <2>3, <2>4, <2>5 DEF CatalogInv, ScannedSoFar, CatalogIsCurrent, TurnSpeaksTheCatalog
<1>7. CASE /\ p \in OnDisk /\ skillEntry' = entered /\ eaten' = eaten
           /\ reload' = [reload EXCEPT !.todo = @ \ {p}, !.read = NoFile]
  <2>1. /\ reload'.by = reload.by /\ reload'.key = reload.key /\ reload'.at = "scan"
        /\ reload'.todo = rest /\ reload'.read = NoFile /\ reload'.quiet = reload.quiet
        /\ reload' = [by |-> reload'.by, key |-> reload'.key, at |-> reload'.at, todo |-> reload'.todo,
                      read |-> reload'.read, quiet |-> reload'.quiet]
    BY <1>1, <1>2, <1>7
  <2>2. /\ DOMAIN skillEntry' = DOMAIN skillEntry \cup {n}
        /\ skillEntry'[n].path = p /\ skillEntry'[n].text = reload.read.stamp
        /\ \A m \in DOMAIN skillEntry \ {n} : skillEntry'[m] = skillEntry[m]
    BY <1>7
  <2>3. KeptType'
    <3>1. skillFile[p].stamp \in Marks
      <4>1. skillFile[p] \in SkillFiles /\ skillFile[p] # NoFile
        BY <1>4, <1>7 DEF KeptType, OnDisk
      <4>2. QED  BY <4>1 DEF SkillFiles
    <3>2. [path |-> p, text |-> reload.read.stamp, mtime |-> skillFile[p].stamp]
            \in [path : SkillPaths, text : Marks, mtime : Marks]
      BY <1>2, <1>3, <1>5, <3>1
    <3>3. \A m \in DOMAIN skillEntry : skillEntry[m] \in [path : SkillPaths, text : Marks, mtime : Marks]
      BY <1>4 DEF KeptType
    <3>4. /\ DOMAIN entered = DOMAIN skillEntry \cup {n}
          /\ entered \in [DOMAIN skillEntry \cup {n} -> [path : SkillPaths, text : Marks, mtime : Marks]]
      BY <3>2, <3>3
    <3>5. skillEntry' \in [DOMAIN skillEntry' -> [path : SkillPaths, text : Marks, mtime : Marks]]
      BY <1>7, <3>4
    <3>6. QED  BY <1>1, <1>4, <1>5, <2>2, <3>5 DEF KeptType
  <2>4. CatalogTypeOK'
    <3>1. rest \subseteq SkillPaths
      BY <1>2
    <3>2. QED  BY <1>2, <1>4, <2>1, <2>3, <3>1 DEF KeptType, CatalogTypeOK, InReload
  <2>5. StampsAreFresh'
    <3>1. ASSUME skillFile[p].stamp = reload.read.stamp
          PROVE  skillFile[p].name = n
      BY <1>1, <3>1 DEF CatalogInv, StampsAreFresh
    <3>2. ASSUME NEW m \in DOMAIN skillEntry', skillFile[skillEntry'[m].path].stamp = skillEntry'[m].text
          PROVE  skillFile[skillEntry'[m].path].name = m
      BY <2>2, <3>1, <3>2 DEF CatalogInv, StampsAreFresh
    <3>3. QED  BY <1>1, <2>1, <3>2 DEF StampsAreFresh
  <2>6. ScannedSoFar'
    <3> SUFFICES ASSUME reload.quiet
                 PROVE  /\ rest \subseteq OnDisk
                        /\ \A q \in OnDisk \ rest, t \in rest : ScansBefore(q, t)
                        /\ DOMAIN skillEntry' = {skillFile[q].name : q \in OnDisk \ rest} \ {Unreadable}
                        /\ \A m \in DOMAIN skillEntry' :
                               LET w == Latest({q \in OnDisk \ rest : skillFile[q].name = m})
                               IN  skillEntry'[m].path = w /\ skillEntry'[m].text = skillFile[w].stamp
      BY <1>1, <1>4, <2>1 DEF ScannedSoFar, EntriesOf
    <3>1. /\ reload.todo \subseteq OnDisk /\ reload.read = skillFile[p]
          /\ \A q \in OnDisk \ reload.todo, t \in reload.todo : ScansBefore(q, t)
          /\ EntriesOf(OnDisk \ reload.todo)
      BY <1>1 DEF CatalogInv, ScannedSoFar
    <3>2. /\ OnDisk \ rest = (OnDisk \ reload.todo) \cup {p}
          /\ \A q \in OnDisk \ reload.todo : ScansBefore(q, p)
          /\ \A q \in OnDisk \ rest, t \in rest : ScansBefore(q, t)
      BY <1>2, <3>1, OneFileMore
    <3>3. DOMAIN skillEntry' = {skillFile[q].name : q \in OnDisk \ rest} \ {Unreadable}
      <4>1. n # Unreadable /\ skillFile[p].name = n
        BY <1>5, <3>1 DEF SkillCatalogAssumption
      <4>2. DOMAIN skillEntry = {skillFile[q].name : q \in OnDisk \ reload.todo} \ {Unreadable}
        BY <3>1 DEF EntriesOf
      <4>3. QED  BY <2>2, <3>2, <4>1, <4>2
    <3>4. ASSUME NEW m \in DOMAIN skillEntry'
          PROVE  LET w == Latest({q \in OnDisk \ rest : skillFile[q].name = m})
                 IN  skillEntry'[m].path = w /\ skillEntry'[m].text = skillFile[w].stamp
      <4>1. CASE m = n
        <5> DEFINE named == {q \in OnDisk \ rest : skillFile[q].name = m}
        <5>1. named \in SUBSET SkillPaths /\ p \in named
          BY <3>1, <3>2, <4>1 DEF OnDisk
        <5>2. \A q \in named \ {p} : ScansBefore(q, p)
          BY <3>2
        <5>3. Latest(named) = p
          <6> HIDE DEF named
          <6> QED  BY <5>1, <5>2, LatestIs
        <5>4. QED  BY <2>2, <3>1, <4>1, <5>3
      <4>2. CASE m # n
        <5>1. m \in DOMAIN skillEntry /\ skillEntry'[m] = skillEntry[m]
          BY <2>2, <4>2
        <5>2. {q \in OnDisk \ rest : skillFile[q].name = m}
                = {q \in OnDisk \ reload.todo : skillFile[q].name = m}
          BY <3>1, <3>2, <4>2
        <5>3. QED  BY <3>1, <5>1, <5>2 DEF EntriesOf
      <4>3. QED  BY <4>1, <4>2
    <3>5. QED  BY <3>1, <3>2, <3>3, <3>4
  <2>7. AgentsFollow'
    BY <1>1, <2>1 DEF CatalogInv, AgentsFollow
  <2>8. QED  BY <2>1, <2>4, <2>5, <2>6, <2>7 DEF CatalogInv, CatalogIsCurrent, TurnSpeaksTheCatalog
<1>8. QED  BY <1>1, <1>6, <1>7

LEMMA ScanEndsStep ==
  ASSUME SkillCatalogAssumption, CatalogInv, ScanEnds
  PROVE  CatalogInv'
<1>1. PICK at \in {"same", "changed"} :
          /\ reload.at = "scan" /\ reload.todo = {} /\ reload' = Returns(at)
          /\ at = "same" => eaten' = TRUE
          /\ UNCHANGED <<skillFile, skillEntry, skillOrder, cachedAgent, edited>>
  BY DEF ScanEnds
<1>2. /\ reload.by # "none" /\ (reload.by = "turn" => reload.key \in AgentKeys)
      /\ reload.by \in {"none", "start", "turn", "tool"} /\ reload.quiet \in BOOLEAN
      /\ reload = [by |-> reload.by, key |-> reload.key, at |-> reload.at, todo |-> reload.todo,
                   read |-> reload.read, quiet |-> reload.quiet]
  BY <1>1 DEF CatalogInv, CatalogTypeOK
<1>3. /\ reload'.by = reload.by /\ reload'.key = reload.key /\ reload'.at = at
      /\ reload'.todo = {} /\ reload'.read = NoFile /\ reload'.quiet = reload.quiet
      /\ reload' = [by |-> reload'.by, key |-> reload'.key, at |-> reload'.at, todo |-> reload'.todo,
                    read |-> reload'.read, quiet |-> reload'.quiet]
  BY <1>1, <1>2 DEF Returns
<1>4. /\ KeptType' /\ NoFile \in Readings' /\ OnDisk' = OnDisk /\ Written' = Written
      /\ \A n : Winner(n)' = Winner(n)
  BY <1>1 DEF CatalogInv, CatalogTypeOK, KeptType, Marks, SkillFiles, Readings, OnDisk, Written, Winner
<1>5. CatalogTypeOK'
  BY <1>2, <1>3, <1>4 DEF KeptType, CatalogTypeOK, InReload
<1>6. StampsAreFresh'
  BY <1>1, <1>3 DEF CatalogInv, StampsAreFresh
<1>7. AgentsFollow'
  BY <1>1, <1>3 DEF CatalogInv, AgentsFollow
<1>8. CatalogIsCurrent'
  <2>1. reload.quiet => EntriesOf(OnDisk)
    BY <1>1 DEF CatalogInv, ScannedSoFar
  <2>2. QED  BY <1>1, <1>3, <1>4, <2>1, CurrentIsEntered DEF CatalogIsCurrent
<1>9. QED  BY <1>3, <1>5, <1>6, <1>7, <1>8 DEF CatalogInv, ScannedSoFar, TurnSpeaksTheCatalog

LEMMA TurnStep ==
  ASSUME SkillCatalogAssumption, CatalogInv, TurnGetsAgent
  PROVE  CatalogInv'
<1> DEFINE kept == IF reload.at = "changed" THEN Dropped ELSE cachedAgent
           Given(k) == IF kept[k] = NoPrompt THEN RenderContext ELSE kept[k]
<1>1. /\ reload.by = "turn" /\ reload.at \in {"same", "changed"}
      /\ eaten' = IF reload.at = "changed" THEN FALSE ELSE eaten
      /\ cachedAgent' = [kept EXCEPT ![reload.key] = IF @ = NoPrompt THEN RenderContext ELSE @]
      /\ reload' = [reload EXCEPT !.at = "agent"]
      /\ UNCHANGED <<skillFile, skillEntry, skillOrder, edited>>
  BY DEF TurnGetsAgent
<1>2. /\ reload.key \in AgentKeys /\ reload.quiet \in BOOLEAN
      /\ reload.todo \subseteq SkillPaths /\ reload.read = NoFile
      /\ reload = [by |-> reload.by, key |-> reload.key, at |-> reload.at, todo |-> reload.todo,
                   read |-> reload.read, quiet |-> reload.quiet]
  BY <1>1 DEF CatalogInv, CatalogTypeOK
<1>3. /\ reload'.by = "turn" /\ reload'.key = reload.key /\ reload'.at = "agent"
      /\ reload'.todo = reload.todo /\ reload'.read = NoFile /\ reload'.quiet = reload.quiet
      /\ reload' = [by |-> reload'.by, key |-> reload'.key, at |-> reload'.at, todo |-> reload'.todo,
                    read |-> reload'.read, quiet |-> reload'.quiet]
  BY <1>1, <1>2
<1>4. kept = [k \in AgentKeys |-> kept[k]]
  BY DEF Dropped, AllDropped, CatalogInv, CatalogTypeOK
<1>5. /\ cachedAgent' = [k \in AgentKeys |-> cachedAgent'[k]]
      /\ cachedAgent'[reload.key] = Given(reload.key)
      /\ \A k \in AgentKeys \ {reload.key} : cachedAgent'[k] = kept[k]
  <2> HIDE DEF kept
  <2> QED  BY <1>1, <1>2, <1>4
<1>6. KeptType' /\ NoFile \in Readings'
  BY <1>1, <1>5 DEF CatalogInv, CatalogTypeOK, KeptType, Marks, SkillFiles, Readings
<1>7. CatalogTypeOK'
  BY <1>2, <1>3, <1>6 DEF KeptType, CatalogTypeOK, InReload
<1>8. StampsAreFresh'
  BY <1>1, <1>3 DEF CatalogInv, StampsAreFresh
<1>9. ~eaten' => \A k \in AgentKeys : kept[k] \in {NoPrompt, RenderContext}
  BY <1>1 DEF Dropped, AllDropped, CatalogInv, AgentsFollow
<1>10. RenderContext' = RenderContext
  BY <1>1 DEF RenderContext
<1>11. ~eaten' => /\ cachedAgent'[reload.key] = RenderContext
                  /\ \A k \in AgentKeys : cachedAgent'[k] \in {NoPrompt, RenderContext}
  <2> HIDE DEF kept
  <2> QED  BY <1>2, <1>5, <1>9
<1>12. AgentsFollow' /\ TurnSpeaksTheCatalog'
  BY <1>3, <1>10, <1>11 DEF AgentsFollow, TurnSpeaksTheCatalog
<1>13. CatalogIsCurrent'
  <2>1. Written' = Written /\ \A n : Winner(n)' = Winner(n)
    BY <1>1 DEF Written, Winner, OnDisk
  <2>2. QED  BY <1>1, <1>3, <2>1 DEF CatalogInv, CatalogIsCurrent
<1>14. QED  BY <1>3, <1>7, <1>8, <1>12, <1>13 DEF CatalogInv, ScannedSoFar

LEMMA ToolStep ==
  ASSUME SkillCatalogAssumption, CatalogInv, ToolAnswers
  PROVE  CatalogInv'
<1>1. /\ reload.by # "turn" /\ reload.at \in {"same", "changed"}
      /\ eaten' = (eaten \/ (reload.at = "changed" /\ reload.by = "tool"))
      /\ reload' = [reload EXCEPT !.at = "answered"]
      /\ UNCHANGED <<skillFile, skillEntry, skillOrder, cachedAgent, edited>>
  BY DEF ToolAnswers
<1>2. /\ reload.by \in {"start", "tool"} /\ reload.quiet \in BOOLEAN
      /\ reload.todo \subseteq SkillPaths /\ reload.read = NoFile
      /\ reload = [by |-> reload.by, key |-> reload.key, at |-> reload.at, todo |-> reload.todo,
                   read |-> reload.read, quiet |-> reload.quiet]
  BY <1>1 DEF CatalogInv, CatalogTypeOK
<1>3. /\ reload'.by = reload.by /\ reload'.key = reload.key /\ reload'.at = "answered"
      /\ reload'.todo = reload.todo /\ reload'.read = NoFile /\ reload'.quiet = reload.quiet
      /\ reload' = [by |-> reload'.by, key |-> reload'.key, at |-> reload'.at, todo |-> reload'.todo,
                    read |-> reload'.read, quiet |-> reload'.quiet]
  BY <1>1, <1>2
<1>4. KeptType' /\ NoFile \in Readings'
  BY <1>1 DEF CatalogInv, CatalogTypeOK, KeptType, Marks, SkillFiles, Readings
<1>5. CatalogTypeOK'
  BY <1>2, <1>3, <1>4 DEF KeptType, CatalogTypeOK, InReload
<1>6. StampsAreFresh'
  BY <1>1, <1>3 DEF CatalogInv, StampsAreFresh
<1>7. RenderContext' = RenderContext
  BY <1>1 DEF RenderContext
<1>8. AgentsFollow'
  BY <1>1, <1>2, <1>3, <1>7 DEF CatalogInv, AgentsFollow
<1>9. CatalogIsCurrent'
  <2>1. Written' = Written /\ \A n : Winner(n)' = Winner(n)
    BY <1>1 DEF Written, Winner, OnDisk
  <2>2. QED  BY <1>1, <1>3, <2>1 DEF CatalogInv, CatalogIsCurrent
<1>10. QED  BY <1>3, <1>5, <1>6, <1>8, <1>9 DEF CatalogInv, ScannedSoFar, TurnSpeaksTheCatalog

LEMMA OverStep ==
  ASSUME SkillCatalogAssumption, CatalogInv, ReloadOver
  PROVE  CatalogInv'
<1>1. /\ reload.at \in {"agent", "answered", "raised"} /\ reload' = NoReload
      /\ UNCHANGED <<skillFile, skillEntry, skillOrder, cachedAgent, eaten, edited>>
  BY DEF ReloadOver
<1>2. /\ reload'.by = "none" /\ reload'.at = "idle"
      /\ reload'.todo = {} /\ reload'.read = NoFile /\ reload'.quiet = TRUE
      /\ reload' = [by |-> reload'.by, key |-> reload'.key, at |-> reload'.at, todo |-> reload'.todo,
                    read |-> reload'.read, quiet |-> reload'.quiet]
  BY <1>1 DEF NoReload
<1>3. KeptType' /\ NoFile \in Readings'
  BY <1>1 DEF CatalogInv, CatalogTypeOK, KeptType, Marks, SkillFiles, Readings
<1>4. CatalogTypeOK'
  BY <1>2, <1>3 DEF KeptType, CatalogTypeOK, InReload
<1>5. StampsAreFresh'
  BY <1>1, <1>2 DEF CatalogInv, StampsAreFresh
<1>6. AgentsFollow'
  BY <1>1, <1>2 DEF CatalogInv, AgentsFollow, RenderContext
<1>7. QED  BY <1>2, <1>4, <1>5, <1>6 DEF CatalogInv, ScannedSoFar, CatalogIsCurrent, TurnSpeaksTheCatalog

LEMMA CatalogStutters ==
  ASSUME CatalogInv, UNCHANGED catalogVars
  PROVE  CatalogInv'
<1>1. UNCHANGED <<skillFile, skillEntry, skillOrder, cachedAgent, reload, eaten, edited>>
  BY DEF catalogVars
<1>2. CatalogTypeOK' /\ StampsAreFresh' /\ (reload'.at = "check" /\ reload'.quiet => reload'.todo = OnDisk')
  BY <1>1 DEF CatalogInv, CatalogTypeOK, StampsAreFresh, SkillFiles, Readings, Marks, OnDisk
<1>3. ScannedSoFar' /\ AgentsFollow'
  BY <1>1 DEF CatalogInv, ScannedSoFar, EntriesOf, AgentsFollow, RenderContext, OnDisk
<1>4. CatalogIsCurrent' /\ TurnSpeaksTheCatalog'
  BY <1>1 DEF CatalogInv, CatalogIsCurrent, TurnSpeaksTheCatalog, Written, Winner, RenderContext, OnDisk
<1>5. QED  BY <1>2, <1>3, <1>4 DEF CatalogInv

\* Whatever is written, renamed, shadowed or deleted, a reload that nobody disturbed has the
\* skills of the files, and the agent of a turn was built with them, for any directories,
\* files and agents (PromptSkillRegistry.reload_if_changed, RyuuHandler.handle).
THEOREM CatalogCorrect == CatalogSpec => []SkillsReachThePrompt
<1>1. CatalogInit => CatalogInv
  BY SkillCatalogAssumption, CatalogInitial
<1>2. CatalogInv /\ [CatalogNext]_catalogVars => CatalogInv'
  <2> SUFFICES ASSUME CatalogInv, [CatalogNext]_catalogVars PROVE CatalogInv'
    OBVIOUS
  <2>1. ASSUME NEW p \in SkillPaths, EditSkillFile(p)  PROVE CatalogInv'
    BY <2>1, SkillCatalogAssumption, EditStep
  <2>2. ASSUME NEW k \in AgentKeys, BeginReload("turn", k) \/ BeginReload("tool", k)
        PROVE  CatalogInv'
    BY <2>2, SkillCatalogAssumption, BeginReloadStep
  <2>3. QED
    BY <2>1, <2>2, SkillCatalogAssumption, CheckStep, ParseStep, EnterSkillStep, ScanEndsStep, TurnStep,
       ToolStep, OverStep, CatalogStutters DEF CatalogNext
<1>3. CatalogInv => SkillsReachThePrompt
  BY DEF CatalogInv, SkillsReachThePrompt
<1>4. QED  BY <1>1, <1>2, <1>3, PTL DEF CatalogSpec

-----------------------------------------------------------------------------
(***************************************************************************)
(* The assistant, as long as one request at a time is under way.           *)
(***************************************************************************)
Utterance == Requests \X {"user", "assistant"}
Histories == {h \in Seq(SUBSET Utterance) : Len(h) <= MaxTurns}
SomeRequest == Requests \cup {Nobody}

Starting == {"reading handle", "loading handle", "handle"}
Started  == Starting \cup {"compacting", "prompting", "running", "running bare", "saving state",
                           "saving session"}
Chatting == Starting \cup {"gate", "reading gate", "loading gate", "placeholder", "stream session",
                           "streaming", "prompting", "running", "running bare", "saving state"}
WithCopy == Starting \cup {"routing", "streaming", "compacting", "prompting", "running",
                           "running bare"}
Saving   == {"saving state", "saving setting", "saving model"}
Steps    == Started \cup Chatting \cup WithCopy \cup Saving
              \cup {"session", "deleting", "reading apply", "loading apply", "apply", "fixing"}

IsTask(t) ==
    /\ t = [pc |-> t.pc, op |-> t.op, view |-> t.view, copy |-> t.copy, agent |-> t.agent,
            before |-> t.before]
    /\ t.pc \in Steps \cup Idle /\ t.op \in Operations /\ t.view \in StoredStates \cup {Nobody}
    /\ t.copy \in Histories /\ t.agent \in SomeRequest /\ t.before \in SomeRequest

SharedOK ==
    /\ row \in StoredStates \cup {Nobody} /\ session \in Histories
    /\ settings \in UserSettings /\ stats \in SUBSET Requests /\ loaded \in BOOLEAN
    /\ agents \in [Keys -> SomeRequest] /\ callbacks \in [Requests -> SomeRequest]
    /\ running \in SomeRequest /\ answered \in Seq(Utterance)

\* The latest utterances are in the history, in their order, and none is farther from its
\* end than there are utterances after it: what is trimmed is older than MaxTurns.
Recounts(h, said) ==
    \E at \in [1 .. Len(said) -> Nat] :
        \A i \in 1 .. Len(said) : i > Len(said) - MaxTurns =>
            /\ at[i] \in 1 .. Len(h) /\ said[i] \in h[at[i]]
            /\ Len(h) - at[i] <= Len(said) - i
            /\ \A j \in i .. Len(said) : at[i] <= at[j]

\* What a request holds is what is there, with its own changes.
TaskSane(r, t) ==
    /\ t.pc \in Chatting => t.op.kind # "compact"
    /\ t.pc = "compacting" => Len(t.copy) > KeepRecent
    /\ t.pc \in WithCopy => Recounts(t.copy, answered)
    /\ t.pc \in {"saving state", "saving session"} =>
         Recounts(t.copy, IF t.op.kind = "compact" THEN answered ELSE answered \o Utterances(r))
    /\ t.pc \in {"loading gate", "loading handle", "loading apply"} => t.view = row
    /\ t.pc \in Saving => t.view = [settings |-> settings, stats |-> stats]
    /\ t.pc \in {"compacting", "prompting", "running"} /\ t.op.kind # "compact" => t.agent \in Requests
    /\ t.pc = "running" => t.before = Nobody

RowAgrees ==
    IF row = Nobody THEN settings = Defaults /\ stats = {}
    ELSE loaded => row = [settings |-> settings, stats |-> stats]

Served ==
    /\ SharedOK
    /\ task = [r \in Requests |-> task[r]] /\ \A r \in Requests : IsTask(task[r])
    /\ \A q, r \in InProgress : q = r
    /\ running # Nobody => pc(running) \in Started
    /\ \A r \in Requests : TaskSane(r, task[r])
    /\ Recounts(session, answered)
    /\ (\A r \in Requests : pc(r) \notin Saving) => RowAgrees
    /\ \A a \in Requests : callbacks[a] # Nobody =>
           \E r \in Requests : pc(r) = "running" /\ task[r].agent = a

OwnerInv == ~overlapped => Served

LEMMA HistoryTypes ==
  ASSUME NEW h \in Histories
  PROVE  /\ h \in Seq(SUBSET Utterance) /\ Len(h) \in Nat /\ Len(h) <= MaxTurns
         /\ DOMAIN h = 1 .. Len(h) /\ \A k \in 1 .. Len(h) : h[k] \in SUBSET Utterance
<1>1. h \in Seq(SUBSET Utterance) /\ Len(h) <= MaxTurns
  BY DEF Histories
<1>2. QED  BY <1>1, LenProperties, ElementOfSeq

LEMMA NothingTold == <<>> \in Histories /\ Recounts(<<>>, <<>>)
<1>1. <<>> \in Seq(SUBSET Utterance) /\ Len(<<>>) = 0
  BY EmptySeq
<1>2. <<>> \in Histories
  BY <1>1, SenseiAssumption DEF Histories
<1>3. [i \in 1 .. 0 |-> 0] \in [1 .. 0 -> Nat]
  OBVIOUS
<1>4. Recounts(<<>>, <<>>)
  <2>1. \E at \in [1 .. 0 -> Nat] : TRUE
    BY <1>3
  <2>2. \A i : i \notin 1 .. 0
    OBVIOUS
  <2>3. Len(<<>>) = 0
    BY <1>1
  <2>4. QED  BY <2>1, <2>2, <2>3 DEF Recounts
<1>5. QED  BY <1>2, <1>4

\* One more turn (Session.append): the oldest goes when it is one too many.
LEMMA OneTurnMore ==
  ASSUME NEW h \in Histories, NEW said \in Seq(Utterance), Recounts(h, said), NEW u \in Utterance
  PROVE  AppendTo(h, {u}) \in Histories /\ Recounts(AppendTo(h, {u}), Append(said, u))
<1> DEFINE h1 == AppendTo(h, {u})
           said1 == Append(said, u)
           drop == IF Len(h) < MaxTurns THEN 0 ELSE 1
           n == Len(said)
<1>1. /\ h \in Seq(SUBSET Utterance) /\ Len(h) \in Nat /\ Len(h) <= MaxTurns /\ MaxTurns \in Nat \ {0}
      /\ n \in Nat /\ {u} \in SUBSET Utterance /\ drop \in {0, 1}
  BY HistoryTypes, SenseiAssumption, LenProperties
<1>2. /\ Append(h, {u}) \in Seq(SUBSET Utterance) /\ Len(Append(h, {u})) = Len(h) + 1
      /\ \A k \in 1 .. Len(h) : Append(h, {u})[k] = h[k]
      /\ Append(h, {u})[Len(h) + 1] = {u}
  BY <1>1, AppendProperties
<1>3. /\ h1 \in Seq(SUBSET Utterance) /\ Len(h1) = Len(h) + 1 - drop
      /\ \A k \in 1 .. Len(h) : k > drop => h1[k - drop] = h[k]
      /\ h1[Len(h1)] = {u}
  <2>1. CASE Len(h) < MaxTurns
    BY <1>1, <1>2, <2>1 DEF AppendTo
  <2>2. CASE ~(Len(h) < MaxTurns)
    <3>1. Len(h) = MaxTurns /\ drop = 1
      BY <1>1, <2>2
    <3> DEFINE long == Append(h, {u})
    <3>2. h1 = SubSeq(long, 2, Len(h) + 1)
      BY <1>1, <1>2, <2>2, <3>1 DEF AppendTo, Recent
    <3>3. 2 \in 1 .. Len(long) + 1 /\ Len(h) + 1 \in 2 - 1 .. Len(long) /\ long \in Seq(SUBSET Utterance)
      BY <1>1, <1>2, <3>1
    <3> HIDE DEF long, h1
    <3>4. /\ h1 \in Seq(SUBSET Utterance) /\ Len(h1) = Len(h)
          /\ \A k \in 1 .. Len(h) : h1[k] = long[2 + k - 1]
      BY <1>1, <3>2, <3>3, SubSeqProperties
    <3>5. \A k \in 1 .. Len(h) : k > 1 => h1[k - 1] = h[k]
      <4> TAKE k \in 1 .. Len(h)
      <4> HAVE k > 1
      <4>1. k - 1 \in 1 .. Len(h) /\ 2 + (k - 1) - 1 = k
        BY <1>1
      <4>2. h1[k - 1] = long[k]
        BY <3>4, <4>1
      <4>3. QED  BY <1>2, <4>2 DEF long
    <3>6. h1[Len(h1)] = {u}
      <4>1. Len(h) \in 1 .. Len(h) /\ 2 + Len(h) - 1 = Len(h) + 1
        BY <1>1, <3>1
      <4>2. QED  BY <1>2, <3>4, <4>1 DEF long
    <3>7. QED  BY <1>1, <3>1, <3>4, <3>5, <3>6
  <2>3. QED  BY <2>1, <2>2
<1>4. Len(h1) \in Nat /\ Len(h1) <= MaxTurns /\ Len(h1) >= 1 /\ h1 \in Histories
  <2>1. Len(h1) \in Nat /\ Len(h1) <= MaxTurns /\ Len(h1) >= 1
    BY <1>1, <1>3
  <2>2. QED  BY <1>3, <2>1 DEF Histories
<1>5. /\ Len(said1) = n + 1 /\ \A i \in 1 .. n : said1[i] = said[i]
      /\ said1[n + 1] = u
  BY AppendProperties
<1>6. PICK at \in [1 .. n -> Nat] :
          \A i \in 1 .. n : i > n - MaxTurns =>
              /\ at[i] \in 1 .. Len(h) /\ said[i] \in h[at[i]]
              /\ Len(h) - at[i] <= n - i
              /\ \A j \in i .. n : at[i] <= at[j]
  BY DEF Recounts
<1> DEFINE at1 == [i \in 1 .. n + 1 |-> IF i = n + 1 THEN Len(h1)
                                        ELSE IF at[i] > drop THEN at[i] - drop ELSE 0]
<1> HIDE DEF h1, said1, drop, n
<1>7. \A i \in 1 .. n : i > n + 1 - MaxTurns =>
          /\ i > n - MaxTurns /\ at[i] \in 1 .. Len(h) /\ at[i] > drop /\ at1[i] = at[i] - drop
  <2> TAKE i \in 1 .. n
  <2> HAVE i > n + 1 - MaxTurns
  <2>1. i > n - MaxTurns
    BY <1>1
  <2>2. at[i] \in 1 .. Len(h) /\ Len(h) - at[i] <= n - i
    BY <1>6, <2>1
  <2>3. at[i] > drop
    <3>1. CASE Len(h) < MaxTurns
      BY <2>2, <3>1 DEF drop
    <3>2. CASE ~(Len(h) < MaxTurns)
      <4>1. Len(h) = MaxTurns /\ drop = 1
        BY <1>1, <3>2 DEF drop
      <4>2. QED  BY <1>1, <2>2, <4>1
    <3>3. QED  BY <3>1, <3>2
  <2>4. i \in 1 .. n + 1 /\ i # n + 1
    BY <1>1
  <2>5. QED  BY <2>1, <2>2, <2>3, <2>4
<1>8. at1 \in [1 .. n + 1 -> Nat] /\ at1[n + 1] = Len(h1)
  <2>1. \A i \in 1 .. n + 1 : i # n + 1 => at[i] \in Nat
    BY <1>1, <1>6
  <2>2. \A i \in 1 .. n + 1 : at1[i] \in Nat
    BY <1>1, <1>4, <2>1
  <2>3. n + 1 \in 1 .. n + 1
    BY <1>1
  <2>4. QED  BY <2>2, <2>3
<1>9. ASSUME NEW i \in 1 .. n + 1, i > n + 1 - MaxTurns
      PROVE  /\ at1[i] \in 1 .. Len(h1) /\ said1[i] \in h1[at1[i]]
             /\ Len(h1) - at1[i] <= n + 1 - i
             /\ \A j \in i .. n + 1 : at1[i] <= at1[j]
  <2>1. CASE i = n + 1
    <3>1. at1[i] = Len(h1) /\ said1[i] = u /\ \A j \in i .. n + 1 : j = i
      BY <1>1, <1>5, <1>8, <2>1
    <3>2. QED  BY <1>1, <1>3, <1>4, <2>1, <3>1
  <2>2. CASE i # n + 1
    <3>1. i \in 1 .. n
      BY <1>1, <2>2
    <3>2. at[i] \in 1 .. Len(h) /\ at[i] > drop /\ at1[i] = at[i] - drop /\ i > n - MaxTurns
      BY <1>7, <1>9, <3>1
    <3>3. said[i] \in h[at[i]] /\ Len(h) - at[i] <= n - i /\ \A j \in i .. n : at[i] <= at[j]
      BY <1>6, <3>1, <3>2
    <3>4. at1[i] \in 1 .. Len(h1) /\ Len(h1) - at1[i] <= n + 1 - i
      <4>1. Len(h1) = Len(h) + 1 - drop /\ Len(h) \in Nat /\ drop \in {0, 1} /\ n \in Nat
        BY <1>1, <1>3
      <4>2. at[i] \in 1 .. Len(h) /\ at[i] > drop /\ at1[i] = at[i] - drop /\ Len(h) - at[i] <= n - i
        BY <3>2, <3>3
      <4> HIDE DEF at1
      <4>3. QED  BY <3>1, <4>1, <4>2
    <3>5. said1[i] \in h1[at1[i]]
      BY <1>3, <1>5, <3>1, <3>2, <3>3
    <3>6. ASSUME NEW j \in i .. n + 1
          PROVE  at1[i] <= at1[j]
      <4>1. CASE j = n + 1
        BY <1>4, <1>8, <3>4, <4>1
      <4>2. CASE j # n + 1
        <5>1. j \in 1 .. n /\ j \in i .. n /\ j > n + 1 - MaxTurns
          BY <1>1, <1>9, <3>1, <4>2
        <5>2. at1[j] = at[j] - drop /\ at[j] \in 1 .. Len(h)
          BY <1>7, <5>1
        <5>3. at[i] <= at[j]
          BY <3>3, <5>1
        <5>4. QED  BY <1>1, <3>2, <5>2, <5>3
      <4>3. QED  BY <4>1, <4>2
    <3>7. QED  BY <3>4, <3>5, <3>6
  <2>3. QED  BY <2>1, <2>2
<1>10. Recounts(h1, said1)
  <2> HIDE DEF at1
  <2>1. Len(said1) = n + 1
    BY <1>5
  <2>2. at1 \in [1 .. Len(said1) -> Nat]
    BY <1>8, <2>1
  <2>3. \A i \in 1 .. Len(said1) : i > Len(said1) - MaxTurns =>
            /\ at1[i] \in 1 .. Len(h1) /\ said1[i] \in h1[at1[i]]
            /\ Len(h1) - at1[i] <= Len(said1) - i
            /\ \A j \in i .. Len(said1) : at1[i] <= at1[j]
    <3> TAKE i \in 1 .. Len(said1)
    <3> HAVE i > Len(said1) - MaxTurns
    <3>1. i \in 1 .. n + 1 /\ i > n + 1 - MaxTurns
      BY <1>1, <2>1
    <3>2. /\ at1[i] \in 1 .. Len(h1) /\ said1[i] \in h1[at1[i]]
          /\ Len(h1) - at1[i] <= n + 1 - i
          /\ \A j \in i .. n + 1 : at1[i] <= at1[j]
      BY <1>9, <3>1
    <3>3. n \in Nat /\ at1 \in [1 .. n + 1 -> Nat]
      BY <1>1, <1>8
    <3>4. \A j \in i .. Len(said1) : at1[i] <= at1[j]
      BY <2>1, <3>2, <3>3
    <3>5. Len(h1) - at1[i] <= Len(said1) - i
      BY <2>1, <3>2, <3>3
    <3>6. QED  BY <3>2, <3>4, <3>5
  <2>4. QED  BY <2>2, <2>3, Zenon DEF Recounts
<1>11. QED  BY <1>4, <1>10 DEF h1, said1

\* Compaction: one turn stands for all but the last KeepRecent.
LEMMA OneForTheOld ==
  ASSUME NEW h \in Histories, NEW said \in Seq(Utterance), Recounts(h, said), Len(h) > KeepRecent
  PROVE  Compacted(h) \in Histories /\ Recounts(Compacted(h), said)
<1>1. /\ h \in Seq(SUBSET Utterance) /\ Len(h) \in Nat /\ Len(h) <= MaxTurns /\ MaxTurns \in Nat \ {0}
      /\ Len(said) \in Nat /\ KeepRecent \in Nat \ {0}
  BY HistoryTypes, SenseiAssumption, LenProperties
<1>2. PICK m \in Nat \ {0} : m = Len(h) - KeepRecent
  BY <1>1
<1>3. /\ m + KeepRecent = Len(h) /\ Len(h) - KeepRecent + 1 = m + 1 /\ Len(h) - (m + 1) + 1 = KeepRecent
      /\ m + 1 <= Len(h) /\ m \in 1 - 1 .. Len(h) /\ Len(h) \in m + 1 - 1 .. Len(h)
      /\ m + 1 \in 1 .. Len(h) + 1 /\ 1 \in 1 .. Len(h) + 1
  BY <1>1, <1>2
<1>4. PICK old : old = SubSeq(h, 1, m)
  OBVIOUS
<1>5. PICK recent : recent = SubSeq(h, m + 1, Len(h))
  OBVIOUS
<1>6. PICK h1 : h1 = Compacted(h)
  OBVIOUS
<1>7. h1 = <<Turns(old)>> \o recent
  BY <1>2, <1>3, <1>4, <1>5, <1>6 DEF Compacted
<1>8. /\ old \in Seq(SUBSET Utterance) /\ Len(old) = m /\ DOMAIN old = 1 .. m
      /\ \A k \in 1 .. m : old[k] = h[k]
  <2>1. /\ old \in Seq(SUBSET Utterance) /\ Len(old) = (IF 1 <= m THEN m - 1 + 1 ELSE 0)
        /\ \A k \in 1 .. m - 1 + 1 : old[k] = h[1 + k - 1]
    BY <1>1, <1>3, <1>4, SubSeqProperties
  <2>2. Len(old) = m /\ \A k \in 1 .. m : old[k] = h[k]
    BY <1>2, <2>1
  <2>3. QED  BY <2>1, <2>2, LenProperties
<1>9. /\ recent \in Seq(SUBSET Utterance) /\ Len(recent) = KeepRecent
      /\ \A k \in 1 .. KeepRecent : recent[k] = h[m + k]
  <2>1. PICK from \in Nat : from = m + 1
    BY <1>2
  <2>2. /\ recent \in Seq(SUBSET Utterance)
        /\ Len(recent) = (IF from <= Len(h) THEN Len(h) - from + 1 ELSE 0)
        /\ \A k \in 1 .. Len(h) - from + 1 : recent[k] = h[from + k - 1]
    <3>1. from \in 1 .. Len(h) + 1 /\ Len(h) \in from - 1 .. Len(h)
      BY <1>3, <2>1
    <3>2. recent = SubSeq(h, from, Len(h))
      BY <1>5, <2>1
    <3>3. QED  BY <1>1, <3>1, <3>2, SubSeqProperties
  <2>3. Len(recent) = KeepRecent /\ \A k \in 1 .. KeepRecent : recent[k] = h[from + k - 1]
    BY <1>3, <2>1, <2>2
  <2>4. \A k \in 1 .. KeepRecent : from + k - 1 = m + k
    BY <1>1, <1>2, <2>1
  <2>5. QED  BY <2>2, <2>3, <2>4
<1>10. Turns(old) \in SUBSET Utterance /\ \A k \in 1 .. m : h[k] \subseteq Turns(old)
  <2>1. \A k \in 1 .. m : old[k] \in SUBSET Utterance
    BY <1>8, LenProperties, ElementOfSeq
  <2>2. Turns(old) \in SUBSET Utterance
    BY <1>8, <2>1 DEF Turns
  <2>3. \A k \in 1 .. m : old[k] \subseteq Turns(old)
    BY <1>8 DEF Turns
  <2>4. QED  BY <1>8, <2>2, <2>3
<1>11. /\ h1 \in Seq(SUBSET Utterance) /\ Len(h1) = KeepRecent + 1 /\ h1[1] = Turns(old)
       /\ \A k \in 1 .. KeepRecent : h1[k + 1] = h[m + k]
  <2>1. PICK first : first = <<Turns(old)>>
    OBVIOUS
  <2>2. first \in Seq(SUBSET Utterance) /\ Len(first) = 1 /\ first[1] = Turns(old)
    BY <1>10, <2>1
  <2>3. /\ h1 \in Seq(SUBSET Utterance) /\ Len(h1) = 1 + KeepRecent
        /\ \A k \in 1 .. 1 + KeepRecent : h1[k] = IF k <= 1 THEN first[k] ELSE recent[k - 1]
    BY <1>7, <1>9, <2>1, <2>2, ConcatProperties
  <2>4. 1 \in 1 .. 1 + KeepRecent /\ 1 + KeepRecent = KeepRecent + 1
    BY <1>1
  <2>5. h1[1] = Turns(old)
    BY <2>2, <2>3, <2>4
  <2>6. \A k \in 1 .. KeepRecent : h1[k + 1] = recent[k]
    <3> TAKE k \in 1 .. KeepRecent
    <3>1. k + 1 \in 1 .. 1 + KeepRecent /\ ~(k + 1 <= 1) /\ (k + 1) - 1 = k
      BY <1>1
    <3>2. QED  BY <2>3, <3>1
  <2>7. QED  BY <1>9, <2>3, <2>4, <2>5, <2>6
<1>12. h1 \in Histories
  BY <1>1, <1>2, <1>3, <1>11 DEF Histories
<1>13. PICK at \in [1 .. Len(said) -> Nat] :
          \A i \in 1 .. Len(said) : i > Len(said) - MaxTurns =>
              /\ at[i] \in 1 .. Len(h) /\ said[i] \in h[at[i]]
              /\ Len(h) - at[i] <= Len(said) - i
              /\ \A j \in i .. Len(said) : at[i] <= at[j]
  BY DEF Recounts
<1> DEFINE at1 == [i \in 1 .. Len(said) |-> IF at[i] <= m THEN 1 ELSE at[i] - m + 1]
<1>14. /\ \A i \in 1 .. Len(said) : at[i] \in Nat /\ at1[i] = IF at[i] <= m THEN 1 ELSE at[i] - m + 1
       /\ at1 \in [1 .. Len(said) -> Nat]
  BY <1>2, <1>13
<1> HIDE DEF at1
<1>15. ASSUME NEW i \in 1 .. Len(said), i > Len(said) - MaxTurns
       PROVE  /\ at1[i] \in 1 .. Len(h1) /\ said[i] \in h1[at1[i]]
              /\ Len(h1) - at1[i] <= Len(said) - i
              /\ \A j \in i .. Len(said) : at1[i] <= at1[j]
  <2>1. /\ at[i] \in 1 .. Len(h) /\ said[i] \in h[at[i]] /\ Len(h) - at[i] <= Len(said) - i
        /\ \A j \in i .. Len(said) : at[i] <= at[j]
    BY <1>13, <1>15
  <2>2. at[i] \in Nat /\ at1[i] = IF at[i] <= m THEN 1 ELSE at[i] - m + 1
    BY <1>14
  <2>3. ASSUME NEW j \in i .. Len(said)
        PROVE  at1[i] <= at1[j]
    <3>1. j \in 1 .. Len(said)
      BY <1>1
    <3>2. at[j] \in Nat /\ at1[j] = (IF at[j] <= m THEN 1 ELSE at[j] - m + 1) /\ at[i] <= at[j]
      BY <1>14, <2>1, <3>1
    <3>3. QED  BY <1>2, <2>2, <3>2
  <2>4. Len(h1) = KeepRecent + 1 /\ m + KeepRecent = Len(h)
    BY <1>3, <1>11
  <2>5. CASE at[i] <= m
    <3>1. at[i] \in 1 .. m
      BY <1>1, <2>1, <2>5
    <3>2. said[i] \in h1[1] /\ at1[i] = 1
      BY <1>10, <1>11, <2>1, <2>2, <2>5, <3>1
    <3>3. 1 \in 1 .. Len(h1) /\ Len(h1) - 1 <= Len(said) - i
      BY <1>1, <1>2, <2>1, <2>4, <3>1
    <3>4. QED  BY <2>3, <3>2, <3>3
  <2>6. CASE ~(at[i] <= m)
    <3>1. PICK k \in 1 .. KeepRecent : k = at[i] - m
      <4>1. at[i] \in Nat /\ at[i] <= m + KeepRecent
        BY <1>1, <2>1, <2>4
      <4>2. at[i] - m \in 1 .. KeepRecent
        BY <1>1, <1>2, <2>6, <4>1
      <4>3. QED  BY <4>2
    <3>2. at1[i] = k + 1 /\ m + k = at[i]
      BY <1>2, <2>2, <2>6, <3>1
    <3>3. h1[at1[i]] = h[at[i]]
      BY <1>11, <3>1, <3>2
    <3>4. at1[i] \in 1 .. Len(h1) /\ Len(h1) - at1[i] <= Len(said) - i
      <4>1. k + 1 \in 1 .. KeepRecent + 1
        BY <1>1, <3>1
      <4>2. KeepRecent + 1 - (k + 1) = Len(h) - at[i]
        BY <1>1, <1>2, <2>4, <3>1, <3>2
      <4>3. at1[i] \in 1 .. Len(h1)
        BY <2>4, <3>2, <4>1
      <4>4. Len(h1) - at1[i] = Len(h) - at[i]
        BY <1>1, <2>4, <3>1, <3>2, <4>2
      <4>5. QED  BY <2>1, <4>3, <4>4
    <3>5. QED  BY <2>1, <2>3, <3>3, <3>4
  <2>7. QED  BY <2>5, <2>6
<1>16. Recounts(h1, said)
  BY <1>14, <1>15, Zenon DEF Recounts
<1>17. QED  BY <1>6, <1>12, <1>16

-----------------------------------------------------------------------------
\* No request but r is under way.
OnlyRequest(r) == \A q \in Requests : q # r => pc(q) \in Idle
At(t, l) == [t EXCEPT !.pc = l]
NoCallbacks == \A a \in Requests : callbacks[a] = Nobody

LEMMA TaskFields ==
  ASSUME NEW t, IsTask(t), NEW l
  PROVE  /\ At(t, l).pc = l /\ At(t, l).op = t.op /\ At(t, l).view = t.view
         /\ At(t, l).copy = t.copy /\ At(t, l).agent = t.agent /\ At(t, l).before = t.before
         /\ l \in Steps \cup Idle => IsTask(At(t, l))
<1>1. t = [pc |-> t.pc, op |-> t.op, view |-> t.view, copy |-> t.copy, agent |-> t.agent,
           before |-> t.before]
  BY DEF IsTask
<1>2. At(t, l) = [pc |-> l, op |-> t.op, view |-> t.view, copy |-> t.copy, agent |-> t.agent,
                  before |-> t.before]
  BY <1>1 DEF At
<1>3. /\ At(t, l).pc = l /\ At(t, l).op = t.op /\ At(t, l).view = t.view
      /\ At(t, l).copy = t.copy /\ At(t, l).agent = t.agent /\ At(t, l).before = t.before
  BY <1>2
<1>4. l \in Steps \cup Idle => IsTask(At(t, l))
  BY <1>2, <1>3 DEF IsTask
<1>5. QED  BY <1>3, <1>4

LEMMA AtTheEnd ==
  ASSUME NEW l \in Idle
  PROVE  IsTask(At(Fresh, l)) /\ At(Fresh, l).pc = l
<1>1. <<>> \in Histories
  BY NothingTold
<1>2. IsTask(Fresh)
  BY <1>1 DEF IsTask, Fresh, Idle, Operations, SomeRequest
<1>3. QED  BY <1>2, TaskFields

\* The only request under way is where its task says; the others have none.
LEMMA OnlyOne ==
  ASSUME Served, NEW r \in Requests, pc(r) \notin Idle
  PROVE  /\ OnlyRequest(r) /\ (running # Nobody => running = r)
         /\ pc(r) # "running" => NoCallbacks
         /\ pc(r) \notin Saving => RowAgrees
         /\ IsTask(task[r]) /\ TaskSane(r, task[r]) /\ SharedOK /\ Recounts(session, answered)
<1>1. r \in InProgress
  BY DEF InProgress
<1>2. OnlyRequest(r)
  BY <1>1 DEF Served, OnlyRequest, InProgress
<1>3. running # Nobody => running = r
  <2>1. running \in SomeRequest /\ (running # Nobody => pc(running) \in Started)
    BY DEF Served, SharedOK
  <2>2. \A l \in Started : l \notin Idle
    BY DEF Started, Starting, Idle
  <2>3. QED  BY <1>2, <2>1, <2>2 DEF OnlyRequest, SomeRequest
<1>4. pc(r) # "running" => NoCallbacks
  <2>1. \A q \in Requests : pc(q) = "running" => q = r
    BY <1>2 DEF OnlyRequest, Idle
  <2>2. QED  BY <2>1 DEF Served, NoCallbacks
<1>5. pc(r) \notin Saving => RowAgrees
  <2>1. \A l \in Saving : l \notin Idle
    BY DEF Saving, Idle
  <2>2. QED  BY <1>2, <2>1 DEF Served, OnlyRequest
<1>6. QED  BY <1>2, <1>3, <1>4, <1>5 DEF Served

\* A step of the only request.
LEMMA OneGoesOn ==
  ASSUME Served, NEW r \in Requests, NEW t, OnlyRequest(r), Become(r, t), IsTask(t), SharedOK',
         running' # Nobody => running' = r /\ t.pc \in Started,
         t.pc \in Idle \/ TaskSane(r, t)',
         Recounts(session, answered)',
         t.pc \notin Saving => RowAgrees',
         \A a \in Requests : callbacks'[a] # Nobody => t.pc = "running" /\ t.agent = a
  PROVE  Served'
<1>1. task = [q \in Requests |-> task[q]] /\ \A q \in Requests : IsTask(task[q])
  BY DEF Served
<1>2. task' = [q \in Requests |-> IF q = r THEN t ELSE task[q]]
  BY <1>1 DEF Become
<1>3. task'[r] = t /\ \A q \in Requests : q # r => task'[q] = task[q] /\ task[q].pc \in Idle
  BY <1>2 DEF OnlyRequest, pc
<1>4. task' = [q \in Requests |-> task'[q]] /\ \A q \in Requests : IsTask(task'[q])
  BY <1>1, <1>2
<1>5. \A q \in Requests : IsTask(task[q])'
  BY <1>4 DEF IsTask
<1>6. \A q \in Requests : q \in InProgress' => q = r
  BY <1>3 DEF InProgress, pc
<1>7. \A p, q \in InProgress' : p = q
  <2>1. InProgress' \subseteq Requests
    BY DEF InProgress
  <2>2. QED  BY <1>6, <2>1
<1>8. running' # Nobody => pc(running)' \in Started
  BY <1>3 DEF pc
<1>9. \A q \in Requests : TaskSane(q, task[q])'
  <2>1. \A l \in Idle : l \notin Chatting \cup WithCopy \cup Saving
                  \cup {"compacting", "saving session", "loading apply", "prompting", "running"}
    BY DEF Idle, Chatting, Starting, WithCopy, Saving
  <2>2. \A l \in Chatting : l = l
    OBVIOUS
  <2>3. {"loading gate", "loading handle"} \subseteq Chatting
    BY DEF Chatting, Starting
  <2>4. ASSUME NEW q \in Requests, task'[q].pc \in Idle
        PROVE  TaskSane(q, task[q])'
    BY <2>1, <2>3, <2>4 DEF TaskSane, Saving
  <2>5. QED  BY <1>3, <2>4
<1>10. \A q \in Requests : pc(q)' \notin Saving => t.pc \notin Saving \/ q # r
  BY <1>3 DEF pc
<1>11. (\A q \in Requests : pc(q)' \notin Saving) => RowAgrees'
  BY <1>10
<1>12. \A a \in Requests : callbacks'[a] # Nobody =>
           \E q \in Requests : pc(q)' = "running" /\ task'[q].agent = a
  BY <1>3 DEF pc
<1>13. QED  BY <1>4, <1>5, <1>7, <1>8, <1>9, <1>11, <1>12 DEF Served

\* The same when what it shares with others stays, but for the cached agents.
LEMMA OneMoves ==
  ASSUME Served, NEW r \in Requests, NEW t, pc(r) \notin Idle \cup Saving \cup {"running"},
         Become(r, t), IsTask(t), t.pc # "running", TaskSane(r, t),
         running' # Nobody => running' = r /\ t.pc \in Started, running' \in SomeRequest,
         agents' \in [Keys -> SomeRequest],
         UNCHANGED <<row, session, settings, stats, loaded, callbacks, answered>>
  PROVE  Served'
<1>1. /\ OnlyRequest(r) /\ NoCallbacks /\ RowAgrees /\ SharedOK /\ Recounts(session, answered)
  BY OnlyOne
<1>2. SharedOK'
  BY <1>1 DEF SharedOK
<1>3. Recounts(session, answered)'
  BY <1>1
<1>4. RowAgrees'
  BY <1>1 DEF RowAgrees
<1>5. TaskSane(r, t)'
  BY DEF TaskSane, Recounts
<1>6. \A a \in Requests : callbacks'[a] = Nobody
  BY <1>1 DEF NoCallbacks
<1>7. QED  BY <1>1, <1>2, <1>3, <1>4, <1>5, <1>6, OneGoesOn

\* A request whose task keeps what it holds and moves on to l.
LEMMA OneStepsTo ==
  ASSUME Served, NEW r \in Requests, NEW l \in Steps,
         pc(r) \notin Idle \cup Saving \cup {"running"}, Goto(r, l),
         l \notin {"running", "loading gate", "loading handle", "loading apply", "saving state",
                   "saving setting", "saving model"},
         l \in Chatting => op(r).kind # "compact",
         l = "compacting" => Len(task[r].copy) > KeepRecent,
         l \in WithCopy => Recounts(task[r].copy, answered),
         l = "saving session" =>
           Recounts(task[r].copy, IF op(r).kind = "compact" THEN answered ELSE answered \o Utterances(r)),
         l \in {"compacting", "prompting"} /\ op(r).kind # "compact" => task[r].agent \in Requests,
         running' # Nobody => running' = r /\ l \in Started, running' \in SomeRequest,
         UNCHANGED <<stores, memory, cache, answered>>
  PROVE  Served'
<1>1. /\ IsTask(task[r]) /\ SharedOK
  BY OnlyOne
<1>2. PICK t : t = At(task[r], l)
  OBVIOUS
<1>3. /\ IsTask(t) /\ t.pc = l /\ t.op = task[r].op /\ t.copy = task[r].copy
      /\ t.agent = task[r].agent
  <2>1. l \in Steps \cup Idle
    OBVIOUS
  <2>2. /\ IsTask(At(task[r], l)) /\ At(task[r], l).pc = l /\ At(task[r], l).op = task[r].op
        /\ At(task[r], l).copy = task[r].copy /\ At(task[r], l).agent = task[r].agent
    BY <1>1, <2>1, TaskFields
  <2>3. QED  BY <1>2, <2>2
<1>4. Become(r, t)
  BY <1>2 DEF Goto, At
<1>5. l \notin Saving
  BY DEF Saving
<1>6. TaskSane(r, t)
  BY <1>3, <1>5 DEF TaskSane, op
<1>7. agents' \in [Keys -> SomeRequest]
  BY <1>1 DEF SharedOK, cache
<1>8. QED  BY <1>3, <1>4, <1>6, <1>7, OneMoves DEF stores, memory, cache

\* The only request ends, and changes nothing on its way out.
LEMMA OneEnds ==
  ASSUME Served, NEW r \in Requests, pc(r) \notin Idle \cup Saving \cup {"running"},
         NEW l \in Idle, End(r, l), running' = Nobody,
         UNCHANGED <<stores, memory, cache, answered>>
  PROVE  Served'
<1>1. /\ SharedOK /\ (running # Nobody => running = r)
  BY OnlyOne
<1>2. PICK t : t = At(Fresh, l)
  OBVIOUS
<1>3. IsTask(t) /\ t.pc \in Idle /\ Become(r, t)
  BY <1>2, AtTheEnd DEF End, At
<1>4. running' = Nobody /\ running' \in SomeRequest
  BY <1>1 DEF SomeRequest
<1>5. t.pc # "running"
  BY <1>3 DEF Idle
<1>6. TaskSane(r, t)
  BY <1>3 DEF TaskSane, Idle, Chatting, Starting, WithCopy, Saving
<1>7. agents' \in [Keys -> SomeRequest]
  BY <1>1 DEF SharedOK, cache
<1>8. QED  BY <1>3, <1>4, <1>5, <1>6, <1>7, OneMoves DEF stores, memory, cache

LEMMA StepNames ==
  /\ Idle \cap Steps = {} /\ Idle \cap Saving = {} /\ Idle \cap Started = {}
  /\ Reading = [gate |-> "reading gate", handle |-> "reading handle", apply |-> "reading apply"]
  /\ Loading = [gate |-> "loading gate", handle |-> "loading handle", apply |-> "loading apply"]
  /\ DOMAIN Reading = {"gate", "handle", "apply"} /\ DOMAIN Loading = {"gate", "handle", "apply"}
  /\ Reading["gate"] = "reading gate" /\ Reading["handle"] = "reading handle"
  /\ Reading["apply"] = "reading apply" /\ Loading["gate"] = "loading gate"
  /\ Loading["handle"] = "loading handle" /\ Loading["apply"] = "loading apply"
<1>1. Idle \cap Steps = {} /\ Idle \cap Saving = {} /\ Idle \cap Started = {}
  BY DEF Idle, Steps, Started, Starting, Chatting, WithCopy, Saving
<1>2. QED  BY <1>1 DEF Reading, Loading

LEMMA ReadStateServes ==
  ASSUME Served, NEW r \in Requests, ReadState(r)
  PROVE  Served'
<1>1. PICK l \in DOMAIN Reading :
          pc(r) = Reading[l] /\ Become(r, [task[r] EXCEPT !.pc = Loading[l], !.view = row])
  BY DEF ReadState
<1>2. pc(r) \notin Idle \cup Saving \cup {"running"} /\ Loading[l] \in Steps /\ Loading[l] # "running"
  BY <1>1, StepNames DEF Idle, Saving, Steps, Chatting, Starting
<1>3. /\ IsTask(task[r]) /\ TaskSane(r, task[r]) /\ SharedOK /\ (running # Nobody => running = r)
  BY <1>2, OnlyOne
<1>4. PICK t : t = [task[r] EXCEPT !.pc = Loading[l], !.view = row]
  OBVIOUS
<1>5. t = [pc |-> Loading[l], op |-> task[r].op, view |-> row, copy |-> task[r].copy,
           agent |-> task[r].agent, before |-> task[r].before]
  BY <1>3, <1>4 DEF IsTask
<1>6. IsTask(t) /\ t.pc = Loading[l]
  BY <1>2, <1>3, <1>5 DEF IsTask, SharedOK
<1>7. TaskSane(r, t)
  BY <1>1, <1>3, <1>5, StepNames DEF TaskSane, pc, Chatting, Starting, WithCopy, Saving
<1>8. running' # Nobody => running' = r /\ t.pc \in Started
  <2>1. running # Nobody => pc(r) \in Started
    BY <1>3 DEF Served
  <2>2. running' = running
    BY DEF ReadState
  <2>3. QED  BY <1>1, <1>3, <1>6, <2>1, <2>2, StepNames DEF Started, Starting
<1>9. running' \in SomeRequest /\ agents' \in [Keys -> SomeRequest]
  BY <1>3 DEF ReadState, SharedOK, cache
<1>10. UNCHANGED <<row, session, settings, stats, loaded, callbacks, answered>>
  BY DEF ReadState, stores, memory, cache, history
<1>11. QED  BY <1>1, <1>2, <1>4, <1>6, <1>7, <1>8, <1>9, <1>10, OneMoves

LEMMA LoadStateServes ==
  ASSUME Served, NEW r \in Requests, LoadState(r)
  PROVE  Served'
<1>1. PICK l \in DOMAIN Loading :
          pc(r) = Loading[l] /\ Become(r, [task[r] EXCEPT !.pc = l, !.view = Nobody])
  BY DEF LoadState
<1>2. pc(r) \notin Idle \cup Saving \cup {"running"} /\ l \in Steps \ (Saving \cup {"running"})
  BY <1>1, StepNames DEF Idle, Saving, Steps, Chatting, Starting
<1>3. /\ IsTask(task[r]) /\ TaskSane(r, task[r]) /\ SharedOK /\ (running # Nobody => running = r)
      /\ OnlyRequest(r) /\ NoCallbacks /\ RowAgrees /\ Recounts(session, answered)
  BY <1>2, OnlyOne
<1>4. PICK t : t = [task[r] EXCEPT !.pc = l, !.view = Nobody]
  OBVIOUS
<1>5. PICK c : c = task[r].copy
  OBVIOUS
<1>6. t = [pc |-> l, op |-> task[r].op, view |-> Nobody, copy |-> c,
           agent |-> task[r].agent, before |-> task[r].before]
  BY <1>3, <1>4, <1>5 DEF IsTask
<1>7. IsTask(t) /\ t.pc = l /\ t.copy = c /\ t.op = task[r].op
  BY <1>2, <1>3, <1>6, <1>5 DEF IsTask
<1>8. TaskSane(r, t)'
  <2>1. answered' = answered
    BY DEF LoadState, history
  <2>2. l \in WithCopy => Recounts(c, answered)'
    <3>1. l \in WithCopy => pc(r) \in WithCopy
      BY <1>1, StepNames DEF WithCopy, Starting
    <3>2. l \in WithCopy => Recounts(c, answered)
      BY <1>3, <1>5, <3>1 DEF TaskSane, pc
    <3>3. QED  BY <2>1, <3>2 DEF Recounts
  <2>3. l \in Chatting => task[r].op.kind # "compact"
    BY <1>1, <1>3, StepNames DEF TaskSane, pc, Chatting, Starting
  <2>4. t.pc \in {"gate", "handle", "apply"}
    BY <1>7, StepNames
  <2>5. QED  BY <1>7, <2>2, <2>3, <2>4 DEF TaskSane, Saving
<1>9. running' # Nobody => running' = r /\ t.pc \in Started
  <2>1. running # Nobody => pc(r) \in Started
    BY <1>3 DEF Served
  <2>2. running' = running
    BY DEF LoadState
  <2>3. QED  BY <1>1, <1>3, <1>7, <2>1, <2>2, StepNames DEF Started, Starting
<1>10. task[r].view = row
  BY <1>1, <1>3, StepNames DEF TaskSane, pc
<1>11. /\ row' = row /\ loaded' = TRUE
       /\ row = Nobody => settings' = settings /\ stats' = stats
       /\ row # Nobody => settings' = row.settings /\ stats' = row.stats
  BY <1>10 DEF LoadState, stores
<1>12. row # Nobody => /\ row.settings \in UserSettings /\ row.stats \in SUBSET Requests
                       /\ row = [settings |-> row.settings, stats |-> row.stats]
  BY <1>3 DEF SharedOK, StoredStates
<1>13. SharedOK'
  BY <1>3, <1>11, <1>12 DEF LoadState, SharedOK, stores, cache, history
<1>14. RowAgrees'
  BY <1>3, <1>11, <1>12 DEF RowAgrees
<1>15. Recounts(session, answered)'
  BY <1>3 DEF LoadState, stores, history
<1>16. \A a \in Requests : callbacks'[a] = Nobody
  BY <1>3 DEF LoadState, NoCallbacks, cache
<1>17. QED  BY <1>1, <1>3, <1>4, <1>7, <1>8, <1>9, <1>13, <1>14, <1>15, <1>16, OneGoesOn

\* Every call begins with the settings: read first unless they are there.
LEMMA LoadsFirst ==
  ASSUME NEW t, IsTask(t), NEW r \in Requests, NEW l \in DOMAIN Reading, AfterLoad(r, t, l)
  PROVE  \E u : /\ IsTask(u) /\ u.pc \in {l, Reading[l]} /\ u.op = t.op /\ u.copy = t.copy
                /\ u.agent = t.agent /\ Become(r, u)
<1>1. PICK m : m = IF loaded THEN l ELSE Reading[l]
  OBVIOUS
<1>2. m \in {l, Reading[l]} /\ m \in Steps
  BY <1>1, StepNames DEF Steps, Chatting, Starting
<1>3. Become(r, At(t, m))
  BY <1>1 DEF AfterLoad, At
<1>4. PICK u : u = At(t, m)
  OBVIOUS
<1>5. /\ IsTask(u) /\ u.pc \in {l, Reading[l]} /\ u.op = t.op /\ u.copy = t.copy
      /\ u.agent = t.agent /\ Become(r, u)
  BY <1>2, <1>3, <1>4, TaskFields
<1>6. QED  BY <1>5

LEMMA ArriveServes ==
  ASSUME Served, NEW r \in Requests, NEW o \in Operations, Arrive(r, o), ~overlapped'
  PROVE  Served'
<1>1. pc(r) = "new" /\ InProgress = {}
  BY DEF Arrive
<1>2. \A q \in Requests : pc(q) \in Idle
  BY <1>1 DEF InProgress
<1>3. /\ OnlyRequest(r) /\ SharedOK /\ Recounts(session, answered) /\ IsTask(task[r])
  BY <1>2 DEF OnlyRequest, Served
<1>4. RowAgrees
  BY <1>2, StepNames DEF Served
<1>5. running = Nobody
  BY <1>2, <1>3, StepNames DEF Served, SharedOK, SomeRequest
<1>6. NoCallbacks
  BY <1>2 DEF Served, NoCallbacks, Idle
<1>7. PICK t : t = [task[r] EXCEPT !.op = o]
  OBVIOUS
<1>8. IsTask(t) /\ t.op = o
  <2>1. t = [pc |-> task[r].pc, op |-> o, view |-> task[r].view, copy |-> task[r].copy,
             agent |-> task[r].agent, before |-> task[r].before]
    BY <1>3, <1>7 DEF IsTask
  <2>2. QED  BY <1>3, <2>1 DEF IsTask
<1>9. \E u : /\ Become(r, u) /\ IsTask(u) /\ u.op = o
             /\ \/ u.pc \in {"gate", "reading gate"} /\ o.kind # "compact"
                \/ u.pc \in {"session", "deleting", "apply", "reading apply"}
  <2>1. o.kind \in {"telegram", "cli", "clear", "compact", "look", "set", "model"}
    BY DEF Operations
  <2>2. /\ {"gate", "apply"} \subseteq DOMAIN Reading
        /\ Reading["gate"] = "reading gate" /\ Reading["apply"] = "reading apply"
    BY StepNames
  <2>3. CASE o.kind = "telegram"
    <3>1. AfterLoad(r, t, "gate")
      BY <1>7, <2>3 DEF Arrive
    <3>2. PICK u : /\ IsTask(u) /\ u.pc \in {"gate", Reading["gate"]} /\ u.op = t.op /\ Become(r, u)
      BY <1>8, <2>2, <3>1, LoadsFirst
    <3>3. QED  BY <1>8, <2>2, <2>3, <3>2
  <2>4. CASE o.kind \in {"set", "model", "look"}
    <3>1. AfterLoad(r, t, "apply")
      BY <1>7, <2>4 DEF Arrive
    <3>2. PICK u : /\ IsTask(u) /\ u.pc \in {"apply", Reading["apply"]} /\ u.op = t.op /\ Become(r, u)
      BY <1>8, <2>2, <3>1, LoadsFirst
    <3>3. QED  BY <1>8, <2>2, <2>4, <3>2
  <2>5. CASE o.kind \in {"cli", "compact"}
    <3>1. Become(r, At(t, "session"))
      BY <1>7, <2>5 DEF Arrive, At
    <3>2. "session" \in Steps
      BY DEF Steps
    <3>3. IsTask(At(t, "session")) /\ At(t, "session").op = o /\ At(t, "session").pc = "session"
      BY <1>8, <3>2, TaskFields
    <3>4. QED  BY <3>1, <3>3
  <2>6. CASE o.kind = "clear"
    <3>1. Become(r, At(t, "deleting"))
      BY <1>7, <2>6 DEF Arrive, At
    <3>2. "deleting" \in Steps
      BY DEF Steps
    <3>3. IsTask(At(t, "deleting")) /\ At(t, "deleting").op = o /\ At(t, "deleting").pc = "deleting"
      BY <1>8, <3>2, TaskFields
    <3>4. QED  BY <3>1, <3>3
  <2>7. QED  BY <2>1, <2>3, <2>4, <2>5, <2>6
<1>10. PICK u : /\ Become(r, u) /\ IsTask(u) /\ u.op = o
                /\ \/ u.pc \in {"gate", "reading gate"} /\ o.kind # "compact"
                   \/ u.pc \in {"session", "deleting", "apply", "reading apply"}
  BY <1>9
<1>11. TaskSane(r, u)'
  BY <1>10 DEF TaskSane, Chatting, Starting, WithCopy, Saving
<1>12. /\ UNCHANGED <<row, session, settings, stats, loaded, agents, callbacks, running, answered>>
  BY DEF Arrive, stores, memory, cache
<1>13. SharedOK' /\ Recounts(session, answered)' /\ RowAgrees' /\ running' = Nobody
  BY <1>3, <1>4, <1>5, <1>12 DEF SharedOK, Recounts, RowAgrees
<1>14. \A a \in Requests : callbacks'[a] = Nobody
  BY <1>6, <1>12 DEF NoCallbacks
<1>15. QED  BY <1>3, <1>10, <1>11, <1>13, <1>14, OneGoesOn

\* What happens before a task is started.
LEMMA RoutingServes ==
  ASSUME Served, NEW r \in Requests,
         Gate(r) \/ SendPlaceholder(r) \/ LoadSession(r) \/ AnswerBusy(r) \/ BeginCompact(r)
  PROVE  Served'
<1>1. pc(r) \in {"gate", "placeholder", "session", "stream session", "routing"}
  BY DEF Gate, SendPlaceholder, LoadSession, AnswerBusy, BeginCompact
<1>2. pc(r) \notin Idle \cup Saving \cup {"running"} /\ pc(r) \notin Started
  BY <1>1 DEF Idle, Saving, Started, Starting
<1>3. /\ IsTask(task[r]) /\ TaskSane(r, task[r]) /\ SharedOK /\ Recounts(session, answered)
  BY <1>2, OnlyOne
<1>4. running = Nobody
  BY <1>2, OnlyOne DEF Served
<1>5. /\ running' = Nobody /\ UNCHANGED <<stores, memory, cache, answered>>
      /\ running' \in SomeRequest /\ agents' \in [Keys -> SomeRequest]
  <2>1. UNCHANGED <<stores, memory, cache, running, restarts, history>>
    BY DEF Gate, SendPlaceholder, LoadSession, AnswerBusy, BeginCompact
  <2>2. agents' = agents /\ answered' = answered
    BY <2>1 DEF cache, history
  <2>3. QED  BY <1>3, <1>4, <2>1, <2>2 DEF SomeRequest, SharedOK
<1>6. CASE Gate(r)
  <2>1. PICK l \in {"session", "placeholder"} : Goto(r, l)
    BY <1>6 DEF Gate
  <2>2. op(r).kind # "compact"
    BY <1>3, <1>6 DEF Gate, TaskSane, pc, op, Chatting
  <2>3. l \in Steps /\ l \notin WithCopy
    BY DEF Steps, Chatting, WithCopy, Starting
  <2>4. QED  BY <1>2, <1>4, <1>5, <2>1, <2>2, <2>3, OneStepsTo
<1>7. CASE SendPlaceholder(r)
  <2>1. CASE Goto(r, "stream session")
    <3>1. op(r).kind # "compact"
      BY <1>3, <1>7 DEF SendPlaceholder, TaskSane, pc, op, Chatting
    <3>2. "stream session" \in Steps /\ "stream session" \notin WithCopy
      BY DEF Steps, Chatting, WithCopy, Starting
    <3>3. QED  BY <1>2, <1>4, <1>5, <2>1, <3>1, <3>2, OneStepsTo
  <2>2. CASE End(r, "failed")
    <3>1. "failed" \in Idle
      BY DEF Idle
    <3>2. QED  BY <1>2, <1>4, <1>5, <2>2, <3>1, OneEnds
  <2>3. QED  BY <1>7, <2>1, <2>2 DEF SendPlaceholder
<1>8. CASE LoadSession(r)
  <2>1. PICK l : l = IF pc(r) = "session" THEN "routing" ELSE "streaming"
    OBVIOUS
  <2>2. PICK t : t = [task[r] EXCEPT !.pc = l, !.copy = session]
    OBVIOUS
  <2>3. t = [task[r] EXCEPT !.pc = IF @ = "session" THEN "routing" ELSE "streaming",
                            !.copy = session]
    BY <1>3, <2>1, <2>2 DEF pc, IsTask
  <2>4. t = [pc |-> l, op |-> task[r].op, view |-> task[r].view, copy |-> session,
             agent |-> task[r].agent, before |-> task[r].before]
    BY <1>3, <2>2 DEF IsTask
  <2>5. l \in Steps /\ l \in {"routing", "streaming"}
    BY <2>1 DEF Steps, WithCopy
  <2>6. IsTask(t) /\ t.pc # "running"
    BY <1>3, <2>4, <2>5 DEF IsTask, SharedOK
  <2>7. l \in Chatting => task[r].op.kind # "compact"
    BY <1>3, <1>8, <2>1 DEF LoadSession, TaskSane, pc, Chatting, Starting
  <2>8. TaskSane(r, t)
    BY <1>3, <2>4, <2>5, <2>7 DEF TaskSane, Saving
  <2>9. Become(r, t)
    BY <1>8, <2>3 DEF LoadSession
  <2>10. QED  BY <1>2, <1>4, <1>5, <2>6, <2>8, <2>9, OneMoves DEF stores, memory, cache
<1>9. CASE AnswerBusy(r)
  <2>1. End(r, "done") /\ "done" \in Idle
    BY <1>9 DEF AnswerBusy, Idle
  <2>2. QED  BY <1>2, <1>4, <1>5, <2>1, OneEnds
<1>10. CASE BeginCompact(r)
  <2>1. Recounts(task[r].copy, answered) /\ op(r).kind = "compact"
    BY <1>3, <1>10 DEF BeginCompact, TaskSane, pc, WithCopy
  <2>2. PICK l : l = IF TooShort(task[r].copy) THEN "saving session" ELSE "compacting"
    OBVIOUS
  <2>3. Goto(r, l) /\ l \in Steps /\ l \notin Chatting
    BY <1>10, <2>2 DEF BeginCompact, Steps, Started, Chatting, Starting
  <2>4. Len(task[r].copy) \in Nat /\ KeepRecent \in Nat
    BY <1>3, HistoryTypes, SenseiAssumption DEF IsTask
  <2>5. l = "compacting" => Len(task[r].copy) > KeepRecent
    BY <2>2, <2>4 DEF TooShort
  <2>6. QED  BY <1>2, <1>4, <1>5, <2>1, <2>2, <2>3, <2>5, OneStepsTo
<1>11. QED  BY <1>6, <1>7, <1>8, <1>9, <1>10

LEMMA StartTaskServes ==
  ASSUME Served, NEW r \in Requests, StartTask(r)
  PROVE  Served'
<1>1. /\ pc(r) \in {"routing", "streaming"} /\ AfterLoad(r, task[r], "handle")
      /\ pc(r) = "routing" => op(r).kind # "compact" /\ running' = r
      /\ pc(r) = "streaming" => running' = running
      /\ UNCHANGED <<stores, memory, cache, history>>
  BY DEF StartTask
<1>2. pc(r) \notin Idle \cup Saving \cup {"running"} /\ pc(r) \notin Started
  BY <1>1 DEF Idle, Saving, Started, Starting
<1>3. /\ IsTask(task[r]) /\ TaskSane(r, task[r]) /\ SharedOK
  BY <1>2, OnlyOne
<1>4. running = Nobody
  BY <1>2, OnlyOne DEF Served
<1>5. "handle" \in DOMAIN Reading /\ Reading["handle"] = "reading handle"
  BY StepNames
<1>6. PICK t : /\ IsTask(t) /\ t.pc \in {"handle", "reading handle"} /\ t.op = task[r].op
               /\ t.copy = task[r].copy /\ Become(r, t)
  <2>1. PICK t : /\ IsTask(t) /\ t.pc \in {"handle", Reading["handle"]} /\ t.op = task[r].op
                 /\ t.copy = task[r].copy /\ Become(r, t)
    BY <1>1, <1>3, <1>5, LoadsFirst
  <2>2. QED  BY <1>5, <2>1
<1>7. op(r).kind # "compact"
  BY <1>1, <1>3 DEF TaskSane, op, pc, Chatting
<1>8. TaskSane(r, t)
  BY <1>1, <1>3, <1>6, <1>7 DEF TaskSane, Saving, op, pc, WithCopy
<1>9. /\ running' # Nobody => running' = r /\ t.pc \in Started
      /\ running' \in SomeRequest
  BY <1>1, <1>4, <1>6 DEF SomeRequest, Started, Starting
<1>10. agents' \in [Keys -> SomeRequest]
  BY <1>1, <1>3 DEF SharedOK, cache
<1>11. t.pc # "running"
  BY <1>6
<1>12. QED  BY <1>1, <1>2, <1>6, <1>8, <1>9, <1>10, <1>11, OneMoves DEF stores, memory, cache, history

LEMMA BeginTurnServes ==
  ASSUME Served, NEW r \in Requests, BeginTurn(r)
  PROVE  Served'
<1> DEFINE key == <<settings.model, settings.verbose>>
           own == IF agents[key] = Nobody THEN r ELSE agents[key]
<1>1. /\ pc(r) = "handle" /\ agents' = [agents EXCEPT ![key] = own]
      /\ UNCHANGED <<stores, memory, callbacks, running, history>>
  BY DEF BeginTurn
<1>2. PICK l \in {"prompting", "compacting"} :
          /\ l = "compacting" => ~TooShort(task[r].copy)
          /\ Become(r, [task[r] EXCEPT !.pc = l, !.agent = own])
  BY DEF BeginTurn
<1>3. pc(r) \notin Idle \cup Saving \cup {"running"}
  BY <1>1 DEF Idle, Saving
<1>4. /\ IsTask(task[r]) /\ TaskSane(r, task[r]) /\ SharedOK /\ (running # Nobody => running = r)
  BY <1>3, OnlyOne
<1>5. key \in Keys
  BY <1>4 DEF SharedOK, UserSettings, Keys
<1>6. own \in Requests
  <2>1. agents[key] \in SomeRequest
    BY <1>4, <1>5 DEF SharedOK
  <2>2. QED  BY <2>1 DEF SomeRequest
<1>7. agents' \in [Keys -> SomeRequest]
  BY <1>1, <1>4, <1>6 DEF SharedOK, SomeRequest
<1> HIDE DEF own, key
<1>8. PICK t : t = [task[r] EXCEPT !.pc = l, !.agent = own]
  OBVIOUS
<1>9. t = [pc |-> l, op |-> task[r].op, view |-> task[r].view, copy |-> task[r].copy,
           agent |-> own, before |-> task[r].before]
  BY <1>4, <1>8 DEF IsTask
<1>10. IsTask(t) /\ t.pc = l
  <2>1. l \in Steps
    BY DEF Steps, Started
  <2>2. QED  BY <1>4, <1>6, <1>9, <2>1 DEF IsTask, SomeRequest
<1>11. Recounts(task[r].copy, answered) /\ task[r].op.kind # "compact"
  BY <1>1, <1>4 DEF TaskSane, pc, WithCopy, Chatting, Starting
<1>12. l = "compacting" => Len(task[r].copy) > KeepRecent
  <2>1. Len(task[r].copy) \in Nat /\ KeepRecent \in Nat
    BY <1>4, HistoryTypes, SenseiAssumption DEF IsTask
  <2>2. QED  BY <1>2, <2>1 DEF TooShort
<1>13. TaskSane(r, t)
  BY <1>6, <1>9, <1>11, <1>12 DEF TaskSane, Saving
<1>14. /\ running' # Nobody => running' = r /\ t.pc \in Started
       /\ running' \in SomeRequest
  BY <1>1, <1>4, <1>10 DEF SharedOK, Started
<1>15. t.pc # "running"
  BY <1>10
<1>16. QED  BY <1>1, <1>2, <1>3, <1>7, <1>8, <1>10, <1>13, <1>14, <1>15, OneMoves
            DEF stores, memory, history

\* What ends or goes on without changing what is shared.
LEMMA TurnMovesServe ==
  ASSUME Served, NEW r \in Requests, SelectModelFails(r) \/ CompactFails(r) \/ Look(r)
  PROVE  Served'
<1>1. pc(r) \in {"handle", "compacting", "apply"} /\ UNCHANGED <<stores, memory, cache, answered>>
  BY DEF SelectModelFails, CompactFails, Look, history
<1>2. pc(r) \notin Idle \cup Saving \cup {"running"}
  BY <1>1 DEF Idle, Saving
<1>3. running # Nobody => running = r
  BY <1>2, OnlyOne
<1>4. CASE Look(r)
  <2>1. pc(r) \notin Started
    BY <1>4 DEF Look, Started, Starting
  <2>2. running = Nobody
    BY <1>3, <2>1 DEF Served
  <2>3. End(r, "done") /\ "done" \in Idle /\ running' = Nobody
    BY <1>4, <2>2 DEF Look, Idle
  <2>4. QED  BY <1>1, <1>2, <2>3, OneEnds
<1>5. CASE SelectModelFails(r) \/ CompactFails(r)
  <2>1. Leave(r, "failed") /\ "failed" \in Idle
    BY <1>5 DEF SelectModelFails, CompactFails, Idle
  <2>2. End(r, "failed") /\ running' = Nobody
    BY <1>3, <2>1 DEF Leave, Streams
  <2>3. QED  BY <1>1, <1>2, <2>1, <2>2, OneEnds
<1>6. QED  BY <1>4, <1>5

LEMMA CompactServes ==
  ASSUME Served, NEW r \in Requests, Compact(r)
  PROVE  Served'
<1>1. pc(r) = "compacting" /\ UNCHANGED <<stores, memory, cache, running, history>>
  BY DEF Compact
<1>2. pc(r) \notin Idle \cup Saving \cup {"running"}
  BY <1>1 DEF Idle, Saving
<1>3. /\ IsTask(task[r]) /\ TaskSane(r, task[r]) /\ SharedOK /\ (running # Nobody => running = r)
  BY <1>2, OnlyOne
<1>4. PICK l : l = IF op(r).kind = "compact" THEN "saving session" ELSE "prompting"
  OBVIOUS
<1>5. PICK t : t = [task[r] EXCEPT !.copy = Compacted(task[r].copy), !.pc = l]
  OBVIOUS
<1>6. Become(r, t)
  BY <1>3, <1>4, <1>5 DEF Compact, IsTask
<1>7. t = [pc |-> l, op |-> task[r].op, view |-> task[r].view, copy |-> Compacted(task[r].copy),
           agent |-> task[r].agent, before |-> task[r].before]
  BY <1>3, <1>5 DEF IsTask
<1>8. Compacted(task[r].copy) \in Histories /\ Recounts(Compacted(task[r].copy), answered)
  <2>1. Len(task[r].copy) > KeepRecent /\ Recounts(task[r].copy, answered)
    BY <1>1, <1>3 DEF TaskSane, pc, WithCopy
  <2>2. task[r].copy \in Histories /\ answered \in Seq(Utterance)
    BY <1>3 DEF IsTask, SharedOK
  <2>3. QED  BY <2>1, <2>2, OneForTheOld
<1>9. IsTask(t) /\ t.pc # "running"
  <2>1. l \in Steps /\ l # "running"
    BY <1>4 DEF Steps, Started
  <2>2. QED  BY <1>3, <1>7, <1>8, <2>1 DEF IsTask
<1>10. TaskSane(r, t)
  <2>1. \/ l = "saving session" /\ task[r].op.kind = "compact"
        \/ l = "prompting" /\ task[r].op.kind # "compact"
    BY <1>4 DEF op
  <2>2. task[r].op.kind # "compact" => task[r].agent \in Requests
    BY <1>1, <1>3 DEF TaskSane, pc
  <2>3. QED  BY <1>7, <1>8, <2>1, <2>2 DEF TaskSane, Saving, Chatting, Starting, WithCopy
<1>11. /\ running' # Nobody => running' = r /\ t.pc \in Started
       /\ running' \in SomeRequest /\ agents' \in [Keys -> SomeRequest]
  BY <1>1, <1>3, <1>4, <1>7 DEF SharedOK, Started, cache
<1>12. QED  BY <1>1, <1>2, <1>6, <1>9, <1>10, <1>11, OneMoves DEF stores, memory, cache, history

LEMMA RunAgentServes ==
  ASSUME Served, NEW r \in Requests, RunAgent(r)
  PROVE  Served'
<1>1. pc(r) = "prompting" /\ UNCHANGED <<stores, memory, agents, running, history>>
  BY DEF RunAgent
<1>2. pc(r) \notin Idle \cup Saving \cup {"running"}
  BY <1>1 DEF Idle, Saving
<1>3. /\ IsTask(task[r]) /\ TaskSane(r, task[r]) /\ SharedOK /\ (running # Nobody => running = r)
      /\ OnlyRequest(r) /\ NoCallbacks /\ RowAgrees /\ Recounts(session, answered)
  BY <1>2, OnlyOne
<1>4. /\ Recounts(task[r].copy, answered) /\ task[r].op.kind # "compact" /\ task[r].agent \in Requests
  BY <1>1, <1>3 DEF TaskSane, pc, WithCopy, Chatting
<1>5. running' # Nobody => running' = r
  BY <1>1, <1>3
<1>6. CASE WithCallbacks(r)
  <2>1. callbacks' = [callbacks EXCEPT ![task[r].agent] = r]
    BY <1>6 DEF RunAgent
  <2>2. Become(r, [task[r] EXCEPT !.pc = "running", !.before = callbacks[task[r].agent]])
    BY <1>6 DEF RunAgent
  <2>3. PICK t : t = [task[r] EXCEPT !.pc = "running", !.before = callbacks[task[r].agent]]
    OBVIOUS
  <2>4. callbacks[task[r].agent] = Nobody
    BY <1>3, <1>4 DEF NoCallbacks
  <2>5. t = [pc |-> "running", op |-> task[r].op, view |-> task[r].view, copy |-> task[r].copy,
             agent |-> task[r].agent, before |-> Nobody]
    BY <1>3, <2>3, <2>4 DEF IsTask
  <2>6. IsTask(t) /\ t.pc = "running" /\ t.agent = task[r].agent
    BY <1>3, <2>5 DEF IsTask, Steps, Started, SomeRequest
  <2>7. TaskSane(r, t)'
    <3>1. Recounts(t.copy, answered) /\ t.op.kind # "compact" /\ t.agent \in Requests /\ t.before = Nobody
      BY <1>4, <2>5
    <3>2. answered' = answered
      BY <1>1 DEF history
    <3>3. Recounts(t.copy, answered)'
      BY <3>1, <3>2 DEF Recounts
    <3>4. QED  BY <2>6, <3>1, <3>3 DEF TaskSane, Saving
  <2>8. callbacks' \in [Requests -> SomeRequest]
    BY <1>3, <2>1 DEF SharedOK, SomeRequest
  <2>9. SharedOK' /\ RowAgrees' /\ Recounts(session, answered)'
    BY <1>1, <1>3, <2>8 DEF SharedOK, RowAgrees, stores, memory, history
  <2>10. \A a \in Requests : callbacks'[a] # Nobody => a = task[r].agent
    BY <1>3, <2>1 DEF SharedOK, NoCallbacks
  <2>11. t.pc \in Started
    BY <2>6 DEF Started
  <2>12. QED  BY <1>3, <1>5, <2>2, <2>3, <2>6, <2>7, <2>9, <2>10, <2>11, OneGoesOn
<1>7. CASE ~WithCallbacks(r)
  <2>1. callbacks' = callbacks /\ Goto(r, "running bare")
    BY <1>7 DEF RunAgent
  <2>2. "running bare" \in Steps /\ "running bare" \in Started
    BY DEF Steps, Started
  <2>3. running' \in SomeRequest
    BY <1>1, <1>3 DEF SharedOK
  <2>4. op(r).kind # "compact" /\ UNCHANGED <<stores, memory, cache, answered>>
    BY <1>1, <1>4, <2>1 DEF op, cache, history
  <2>5. QED  BY <1>2, <1>4, <1>5, <2>1, <2>2, <2>3, <2>4, OneStepsTo
<1>8. QED  BY <1>6, <1>7

\* The end of a turn puts back that its agent had no callbacks.
LEMMA NoneIsLeft ==
  ASSUME Served, NEW r \in Requests, pc(r) \in Turning, RestoreCallbacks(r)
  PROVE  callbacks' \in [Requests -> SomeRequest] /\ \A a \in Requests : callbacks'[a] = Nobody
<1>1. pc(r) \notin Idle
  BY DEF Turning, Idle
<1>2. TaskSane(r, task[r]) /\ SharedOK /\ OnlyRequest(r) /\ (pc(r) # "running" => NoCallbacks)
  BY <1>1, OnlyOne
<1>3. CASE pc(r) # "running"
  BY <1>2, <1>3 DEF RestoreCallbacks, NoCallbacks, SharedOK
<1>4. CASE pc(r) = "running"
  <2>1. task[r].before = Nobody
    BY <1>2, <1>4 DEF TaskSane, pc
  <2>2. callbacks' = [callbacks EXCEPT ![task[r].agent] = Nobody]
    BY <1>4, <2>1 DEF RestoreCallbacks
  <2>3. \A a \in Requests : callbacks[a] # Nobody => a = task[r].agent
    <3>1. \A q \in Requests : pc(q) = "running" => q = r
      BY <1>2 DEF OnlyRequest, Idle
    <3>2. QED  BY <3>1 DEF Served
  <2>4. callbacks \in [Requests -> SomeRequest] /\ Nobody \in SomeRequest
    BY <1>2 DEF SharedOK, SomeRequest
  <2>5. QED  BY <2>2, <2>3, <2>4
<1>5. QED  BY <1>3, <1>4

LEMMA TwoUtterances ==
  ASSUME NEW said \in Seq(Utterance), NEW r \in Requests
  PROVE  /\ said \o Utterances(r) = Append(Append(said, Utterances(r)[1]), Utterances(r)[2])
         /\ Utterances(r)[1] \in Utterance /\ Utterances(r)[2] \in Utterance
         /\ said \o Utterances(r) \in Seq(Utterance)
<1> DEFINE first == <<r, "user">>
           second == <<r, "assistant">>
<1>1. first \in Utterance /\ second \in Utterance /\ Utterances(r) = <<first, second>>
  BY DEF Utterance, Utterances
<1> HIDE DEF first, second
<1>2. /\ Utterances(r) \in Seq(Utterance) /\ Len(Utterances(r)) = 2
      /\ Utterances(r)[1] = first /\ Utterances(r)[2] = second
  BY <1>1
<1>3. PICK pair : pair = Utterances(r)
  OBVIOUS
<1> DEFINE both == Append(Append(said, first), second)
           n == Len(said)
<1>4. n \in Nat
  BY LenProperties
<1>5. /\ Append(said, first) \in Seq(Utterance) /\ Len(Append(said, first)) = n + 1
      /\ \A i \in 1 .. n : Append(said, first)[i] = said[i]
      /\ Append(said, first)[n + 1] = first
  BY <1>1, AppendProperties
<1>6. /\ both \in Seq(Utterance) /\ Len(both) = n + 2
      /\ \A i \in 1 .. n + 1 : both[i] = Append(said, first)[i]
      /\ both[n + 2] = second
  <2>1. PICK longer : longer = Append(said, first)
    OBVIOUS
  <2>2. /\ Append(longer, second) \in Seq(Utterance) /\ Len(Append(longer, second)) = Len(longer) + 1
        /\ \A i \in 1 .. Len(longer) : Append(longer, second)[i] = longer[i]
        /\ Append(longer, second)[Len(longer) + 1] = second
    BY <1>1, <1>5, <2>1, AppendProperties
  <2>3. QED  BY <1>4, <1>5, <2>1, <2>2
<1>7. /\ said \o pair \in Seq(Utterance) /\ Len(said \o pair) = n + 2
      /\ \A i \in 1 .. n + 2 : (said \o pair)[i] = IF i <= n THEN said[i] ELSE pair[i - n]
  <2>1. pair \in Seq(Utterance) /\ Len(pair) = 2
    BY <1>2, <1>3
  <2>2. /\ said \o pair \in Seq(Utterance) /\ Len(said \o pair) = Len(said) + Len(pair)
        /\ \A i \in 1 .. Len(said) + Len(pair) :
              (said \o pair)[i] = IF i <= Len(said) THEN said[i] ELSE pair[i - Len(said)]
    BY <2>1, ConcatProperties
  <2>3. QED  BY <2>1, <2>2
<1>8. \A i \in 1 .. n + 2 : (said \o pair)[i] = both[i]
  <2> TAKE i \in 1 .. n + 2
  <2>1. CASE i <= n
    BY <1>4, <1>5, <1>6, <1>7, <2>1
  <2>2. CASE i = n + 1
    <3>1. (said \o pair)[i] = pair[1]
      BY <1>4, <1>7, <2>2
    <3>2. QED  BY <1>2, <1>3, <1>4, <1>5, <1>6, <2>2, <3>1
  <2>3. CASE i = n + 2
    <3>1. (said \o pair)[i] = pair[2]
      BY <1>4, <1>7, <2>3
    <3>2. both[i] = second
      BY <1>6, <2>3
    <3>3. pair[2] = second
      BY <1>2, <1>3
    <3>4. QED  BY <3>1, <3>2, <3>3
  <2>4. i <= n \/ i = n + 1 \/ i = n + 2
    <3> HIDE DEF n
    <3> QED  BY <1>4
  <2>5. QED  BY <2>1, <2>2, <2>3, <2>4, Zenon
<1>9. said \o pair = both
  <2> HIDE DEF both, n
  <2>1. /\ said \o pair = [i \in 1 .. n + 2 |-> (said \o pair)[i]]
        /\ both = [i \in 1 .. n + 2 |-> both[i]]
    <3>1. PICK a : a = said \o pair
      OBVIOUS
    <3>2. a = [i \in 1 .. Len(a) |-> a[i]] /\ both = [i \in 1 .. Len(both) |-> both[i]]
      BY <1>6, <1>7, <3>1, LenProperties
    <3>3. QED  BY <1>6, <1>7, <3>1, <3>2
  <2>2. QED  BY <1>8, <2>1
<1>10. QED  BY <1>1, <1>2, <1>3, <1>7, <1>9

LEMMA EndTurnServes ==
  ASSUME Served, NEW r \in Requests, EndTurn(r)
  PROVE  Served'
<1>1. /\ pc(r) \in Turning /\ RestoreCallbacks(r)
      /\ UNCHANGED <<stores, settings, loaded, agents, running, history>>
  BY DEF EndTurn
<1>2. pc(r) \notin Idle \cup Saving
  BY <1>1 DEF Idle, Saving, Turning
<1>3. /\ IsTask(task[r]) /\ TaskSane(r, task[r]) /\ SharedOK /\ (running # Nobody => running = r)
      /\ OnlyRequest(r) /\ RowAgrees /\ Recounts(session, answered)
  BY <1>2, OnlyOne
<1>4. callbacks' \in [Requests -> SomeRequest] /\ \A a \in Requests : callbacks'[a] = Nobody
  BY <1>1, NoneIsLeft
<1> DEFINE u1 == Utterances(r)[1]
           u2 == Utterances(r)[2]
<1>5. PICK longer : longer = AppendTo(AppendTo(task[r].copy, {u1}), {u2})
  OBVIOUS
<1>6. Recounts(task[r].copy, answered) /\ task[r].op.kind # "compact"
  BY <1>1, <1>3 DEF TaskSane, pc, WithCopy, Chatting, Turning
<1>7. longer \in Histories /\ Recounts(longer, answered \o Utterances(r))
  <2>1. /\ task[r].copy \in Histories /\ answered \in Seq(Utterance)
        /\ u1 \in Utterance /\ u2 \in Utterance
        /\ answered \o Utterances(r) = Append(Append(answered, u1), u2)
    BY <1>3, TwoUtterances DEF IsTask, SharedOK
  <2> HIDE DEF u1, u2
  <2>2. PICK one : one = AppendTo(task[r].copy, {u1})
    OBVIOUS
  <2>3. PICK said : said = Append(answered, u1)
    OBVIOUS
  <2>4. one \in Histories /\ Recounts(one, said) /\ said \in Seq(Utterance)
    BY <1>6, <2>1, <2>2, <2>3, OneTurnMore, AppendProperties
  <2>5. AppendTo(one, {u2}) \in Histories /\ Recounts(AppendTo(one, {u2}), Append(said, u2))
    BY <2>1, <2>4, OneTurnMore
  <2>6. QED  BY <1>5, <2>1, <2>2, <2>3, <2>5
<1>8. PICK t : t = [task[r] EXCEPT !.copy = longer]
  OBVIOUS
<1>9. t = [pc |-> task[r].pc, op |-> task[r].op, view |-> task[r].view, copy |-> longer,
           agent |-> task[r].agent, before |-> task[r].before]
  BY <1>3, <1>8 DEF IsTask
<1>10. \/ /\ stats' = stats \cup {r}
          /\ Become(r, SaveState([t EXCEPT !.pc = "saving state"], settings, stats'))
       \/ Become(r, [t EXCEPT !.pc = "saving session"]) /\ UNCHANGED stats
  <2>1. t = [task[r] EXCEPT !.copy = AppendTo(AppendTo(@, {Utterances(r)[1]}), {Utterances(r)[2]})]
    BY <1>5, <1>3, <1>8 DEF IsTask
  <2>2. QED  BY <2>1, Zenon DEF EndTurn
<1>11. stats' \in SUBSET Requests
  BY <1>3, <1>10 DEF SharedOK
<1>12. SharedOK'
  BY <1>1, <1>3, <1>4, <1>11 DEF SharedOK, stores, history
<1>13. Recounts(session, answered)' /\ Recounts(longer, answered \o Utterances(r))'
  <2>1. session' = session /\ answered' = answered
    BY <1>1 DEF stores, history
  <2>2. (answered \o Utterances(r))' = answered \o Utterances(r)
    BY <2>1 DEF Utterances
  <2>3. QED  BY <1>3, <1>7, <2>1, <2>2 DEF Recounts
<1>14. running' # Nobody => running' = r
  BY <1>1, <1>3
<1>15. [settings |-> settings, stats |-> stats'] \in StoredStates
  BY <1>3, <1>11 DEF SharedOK, StoredStates
<1>16. CASE /\ stats' = stats \cup {r}
            /\ Become(r, SaveState([t EXCEPT !.pc = "saving state"], settings, stats'))
  <2>1. PICK s : s = SaveState([t EXCEPT !.pc = "saving state"], settings, stats')
    OBVIOUS
  <2>2. s = [pc |-> "saving state", op |-> task[r].op,
             view |-> [settings |-> settings, stats |-> stats'], copy |-> longer,
             agent |-> task[r].agent, before |-> task[r].before]
    BY <1>9, <2>1 DEF SaveState
  <2>3. IsTask(s) /\ s.pc \in Started /\ s.pc \in Saving
    BY <1>3, <1>7, <1>15, <2>2 DEF IsTask, Steps, Started, Saving
  <2>4. settings' = settings
    BY <1>1
  <2>5. TaskSane(r, s)'
    <3>1. /\ s.pc = "saving state" /\ s.op.kind # "compact" /\ s.copy = longer
          /\ s.view = [settings |-> settings', stats |-> stats']
      BY <1>6, <2>2, <2>4
    <3>2. QED  BY <1>13, <3>1 DEF TaskSane, WithCopy, Starting
  <2>6. QED  BY <1>3, <1>4, <1>12, <1>13, <1>14, <1>16, <2>1, <2>3, <2>5, OneGoesOn
<1>17. CASE Become(r, [t EXCEPT !.pc = "saving session"]) /\ UNCHANGED stats
  <2>1. PICK s : s = [t EXCEPT !.pc = "saving session"]
    OBVIOUS
  <2>2. s = [pc |-> "saving session", op |-> task[r].op, view |-> task[r].view, copy |-> longer,
             agent |-> task[r].agent, before |-> task[r].before]
    BY <1>9, <2>1
  <2>3. IsTask(s) /\ s.pc \in Started
    BY <1>3, <1>7, <2>2 DEF IsTask, Steps, Started
  <2>4. TaskSane(r, s)'
    <3>1. s.pc = "saving session" /\ s.op.kind # "compact" /\ s.copy = longer
      BY <1>6, <2>2
    <3>2. QED  BY <1>13, <3>1 DEF TaskSane, WithCopy, Starting, Saving, Chatting
  <2>5. RowAgrees'
    BY <1>1, <1>3, <1>17 DEF RowAgrees, stores
  <2>6. QED  BY <1>3, <1>4, <1>12, <1>13, <1>14, <1>17, <2>1, <2>3, <2>4, <2>5, OneGoesOn
<1>18. QED  BY <1>10, <1>16, <1>17

LEMMA FailTurnServes ==
  ASSUME Served, NEW r \in Requests, FailTurn(r)
  PROVE  Served'
<1>1. /\ pc(r) \in Turning /\ RestoreCallbacks(r) /\ Leave(r, "failed")
      /\ UNCHANGED <<stores, memory, agents, history>>
  BY DEF FailTurn
<1>2. pc(r) \notin Idle \cup Saving
  BY <1>1 DEF Idle, Saving, Turning
<1>3. /\ SharedOK /\ (running # Nobody => running = r)
      /\ OnlyRequest(r) /\ RowAgrees /\ Recounts(session, answered)
  BY <1>2, OnlyOne
<1>4. callbacks' \in [Requests -> SomeRequest] /\ \A a \in Requests : callbacks'[a] = Nobody
  BY <1>1, NoneIsLeft
<1>5. PICK t : t = At(Fresh, "failed")
  OBVIOUS
<1>6. "failed" \in Idle
  BY DEF Idle
<1>7. IsTask(t) /\ t.pc \in Idle /\ Become(r, t) /\ running' = Nobody
  BY <1>1, <1>3, <1>5, <1>6, AtTheEnd DEF Leave, End, Streams, At
<1>8. SharedOK' /\ RowAgrees' /\ Recounts(session, answered)'
  BY <1>1, <1>3, <1>4, <1>7 DEF SharedOK, RowAgrees, stores, memory, history, SomeRequest
<1>9. QED  BY <1>3, <1>4, <1>7, <1>8, OneGoesOn

LEMMA SaveSessionServes ==
  ASSUME Served, NEW r \in Requests, SaveSession(r)
  PROVE  Served'
<1>1. /\ pc(r) = "saving session" /\ session' = task[r].copy /\ Leave(r, "done")
      /\ answered' = IF op(r).kind = "compact" THEN answered ELSE answered \o Utterances(r)
      /\ UNCHANGED <<row, memory, cache>>
  BY DEF SaveSession
<1>2. pc(r) \notin Idle \cup Saving \cup {"running"}
  BY <1>1 DEF Idle, Saving
<1>3. /\ IsTask(task[r]) /\ TaskSane(r, task[r]) /\ SharedOK /\ (running # Nobody => running = r)
      /\ OnlyRequest(r) /\ NoCallbacks /\ RowAgrees
  BY <1>2, OnlyOne
<1>4. PICK said : said = IF op(r).kind = "compact" THEN answered ELSE answered \o Utterances(r)
  OBVIOUS
<1>5. Recounts(task[r].copy, said) /\ said \in Seq(Utterance) /\ answered' = said
  <2>1. Recounts(task[r].copy, said)
    BY <1>1, <1>3, <1>4 DEF TaskSane, pc, op
  <2>2. answered \in Seq(Utterance)
    BY <1>3 DEF SharedOK
  <2>3. QED  BY <1>1, <1>4, <2>1, <2>2, TwoUtterances
<1>6. Recounts(session, answered)'
  BY <1>1, <1>5 DEF Recounts
<1>7. PICK t : t = At(Fresh, "done")
  OBVIOUS
<1>8. "done" \in Idle
  BY DEF Idle
<1>9. IsTask(t) /\ t.pc \in Idle /\ Become(r, t) /\ running' = Nobody
  BY <1>1, <1>3, <1>7, <1>8, AtTheEnd DEF Leave, End, Streams, At
<1>10. SharedOK'
  BY <1>1, <1>3, <1>5, <1>9 DEF SharedOK, IsTask, memory, cache, SomeRequest
<1>11. RowAgrees' /\ \A a \in Requests : callbacks'[a] = Nobody
  BY <1>1, <1>3 DEF RowAgrees, NoCallbacks, memory, cache
<1>12. QED  BY <1>3, <1>6, <1>9, <1>10, <1>11, OneGoesOn

\* A command that changes what it saves.
LEMMA OneSaves ==
  ASSUME Served, NEW r \in Requests, pc(r) \notin Idle \cup Saving \cup Started, SharedOK',
         NEW l \in {"saving setting", "saving model"}, Recounts(session, answered)',
         Become(r, SaveState([task[r] EXCEPT !.pc = l], settings', stats')),
         UNCHANGED <<cache, running>>
  PROVE  Served'
<1>1. pc(r) # "running"
  BY DEF Started
<1>2. /\ IsTask(task[r]) /\ SharedOK /\ (running # Nobody => running = r) /\ OnlyRequest(r) /\ NoCallbacks
  BY <1>1, OnlyOne
<1>3. running = Nobody
  BY <1>2 DEF Served
<1>4. PICK now : now = [settings |-> settings', stats |-> stats']
  OBVIOUS
<1>5. PICK t : t = SaveState([task[r] EXCEPT !.pc = l], settings', stats')
  OBVIOUS
<1>6. t = [pc |-> l, op |-> task[r].op, view |-> now, copy |-> task[r].copy,
           agent |-> task[r].agent, before |-> task[r].before]
  BY <1>2, <1>4, <1>5 DEF IsTask, SaveState
<1>7. now \in StoredStates
  BY <1>4 DEF SharedOK, StoredStates
<1>8. IsTask(t) /\ t.pc \in Saving
  BY <1>2, <1>6, <1>7 DEF IsTask, Steps, Saving
<1>9. TaskSane(r, t)'
  BY <1>4, <1>6 DEF TaskSane, Chatting, Starting, WithCopy
<1>10. running' = Nobody /\ \A a \in Requests : callbacks'[a] = Nobody
  BY <1>2, <1>3 DEF NoCallbacks, cache
<1>11. QED  BY <1>2, <1>5, <1>8, <1>9, <1>10, OneGoesOn

LEMMA SetServes ==
  ASSUME Served, NEW r \in Requests, NEW f, NEW v, NEW l \in {"saving setting", "saving model"},
         pc(r) \in {"apply", "fixing"}, Set(r, f, v, l),
         \/ f \in {"verbose", "auto_compact", "adaptive_routing", "streaming"} /\ v \in BOOLEAN
         \/ f = "model" /\ v \in ChatModels
  PROVE  Served'
<1>1. pc(r) \notin Idle \cup Saving \cup Started
  BY DEF Idle, Saving, Started, Starting
<1>2. SharedOK /\ Recounts(session, answered)
  BY <1>1, OnlyOne
<1>3. /\ settings' = [settings EXCEPT ![f] = v]
      /\ Become(r, SaveState([task[r] EXCEPT !.pc = l], settings', stats))
      /\ UNCHANGED <<stores, stats, loaded, cache, running, history>>
  BY DEF Set
<1>4. settings' \in UserSettings
  <2>1. settings \in UserSettings
    BY <1>2 DEF SharedOK
  <2>2. settings = [verbose |-> settings.verbose, auto_compact |-> settings.auto_compact,
                    adaptive_routing |-> settings.adaptive_routing,
                    streaming |-> settings.streaming, model |-> settings.model]
    BY <2>1 DEF UserSettings
  <2>3. /\ settings.verbose \in BOOLEAN /\ settings.auto_compact \in BOOLEAN
        /\ settings.adaptive_routing \in BOOLEAN /\ settings.streaming \in BOOLEAN
        /\ settings.model \in ChatModels
    BY <2>1 DEF UserSettings
  <2>4. CASE f = "model"
    <3>1. settings' = [settings EXCEPT !.model = v] /\ v \in ChatModels
      BY <1>3, <2>4
    <3>2. QED  BY <2>2, <2>3, <3>1 DEF UserSettings
  <2>5. CASE f = "verbose"
    <3>1. settings' = [settings EXCEPT !.verbose = v] /\ v \in BOOLEAN
      BY <1>3, <2>5
    <3>2. QED  BY <2>2, <2>3, <3>1 DEF UserSettings
  <2>6. CASE f = "auto_compact"
    <3>1. settings' = [settings EXCEPT !.auto_compact = v] /\ v \in BOOLEAN
      BY <1>3, <2>6
    <3>2. QED  BY <2>2, <2>3, <3>1 DEF UserSettings
  <2>7. CASE f = "adaptive_routing"
    <3>1. settings' = [settings EXCEPT !.adaptive_routing = v] /\ v \in BOOLEAN
      BY <1>3, <2>7
    <3>2. QED  BY <2>2, <2>3, <3>1 DEF UserSettings
  <2>8. CASE f = "streaming"
    <3>1. settings' = [settings EXCEPT !.streaming = v] /\ v \in BOOLEAN
      BY <1>3, <2>8
    <3>2. QED  BY <2>2, <2>3, <3>1 DEF UserSettings
  <2>9. QED  BY <2>4, <2>5, <2>6, <2>7, <2>8
<1>5. SharedOK' /\ Recounts(session, answered)'
  BY <1>2, <1>3, <1>4 DEF SharedOK, stores, cache, history
<1>6. Become(r, SaveState([task[r] EXCEPT !.pc = l], settings', stats')) /\ UNCHANGED <<cache, running>>
  BY <1>3
<1>7. QED  BY <1>1, <1>5, <1>6, OneSaves

LEMMA ApplySettingServes ==
  ASSUME Served, NEW r \in Requests, ApplySetting(r)
  PROVE  Served'
<1>1. pc(r) = "apply"
  BY DEF ApplySetting
<1>2. IsTask(task[r])
  BY <1>1, OnlyOne DEF Idle
<1>3. op(r) \in Operations
  BY <1>2 DEF IsTask, op
<1>4. CASE op(r).kind = "set" /\ Set(r, op(r).flag, op(r).on, "saving setting")
  <2>1. op(r).flag \in Toggles /\ op(r).on \in BOOLEAN
    BY <1>3, <1>4 DEF Operations
  <2>2. op(r).flag \in {"verbose", "auto_compact", "adaptive_routing", "streaming"}
    BY <2>1, SenseiAssumption
  <2>3. QED  BY <1>1, <1>4, <2>1, <2>2, SetServes
<1>5. CASE op(r).kind = "model" /\ Set(r, "model", op(r).model, "saving model")
  <2>1. op(r).model \in ChatModels
    BY <1>3, <1>5 DEF Operations
  <2>2. QED  BY <1>1, <1>5, <2>1, SetServes
<1>6. QED  BY <1>4, <1>5 DEF ApplySetting

LEMMA FixModelServes ==
  ASSUME Served, NEW r \in Requests, FixModel(r)
  PROVE  Served'
<1>1. pc(r) = "fixing" /\ pc(r) \notin Idle \cup Saving \cup {"running"} /\ pc(r) \notin Started
  BY DEF FixModel, Idle, Saving, Started, Starting
<1>2. CASE Set(r, "adaptive_routing", FALSE, "saving setting")
  BY <1>1, <1>2, SetServes
<1>3. CASE End(r, "done") /\ UNCHANGED <<stores, memory, cache, running, restarts, history>>
  <2>1. running = Nobody
    BY <1>1, OnlyOne DEF Served
  <2>2. "done" \in Idle
    BY DEF Idle
  <2>3. running' = Nobody /\ answered' = answered
    BY <1>3, <2>1 DEF history
  <2>4. QED  BY <1>1, <1>3, <2>2, <2>3, OneEnds
<1>4. QED  BY <1>2, <1>3 DEF FixModel

LEMMA SaveRowServes ==
  ASSUME Served, NEW r \in Requests, SaveRow(r)
  PROVE  Served'
<1>1. /\ row' = task[r].view /\ UNCHANGED <<session, memory, cache, running, history>>
      /\ \/ pc(r) = "saving state" /\ Goto(r, "saving session")
         \/ pc(r) = "saving setting" /\ End(r, "done")
         \/ pc(r) = "saving model" /\ Goto(r, "fixing")
  BY DEF SaveRow
<1>2. pc(r) \notin Idle \cup {"running"} /\ pc(r) \in Saving
  BY <1>1 DEF Idle, Saving
<1>3. /\ IsTask(task[r]) /\ TaskSane(r, task[r]) /\ SharedOK /\ (running # Nobody => running = r)
      /\ OnlyRequest(r) /\ NoCallbacks /\ Recounts(session, answered)
  BY <1>2, OnlyOne
<1>4. task[r].view = [settings |-> settings, stats |-> stats]
  BY <1>2, <1>3 DEF TaskSane, pc
<1>5. row' \in StoredStates /\ row' # Nobody
  <2>1. [settings |-> settings, stats |-> stats] \in StoredStates
    BY <1>3 DEF SharedOK, StoredStates
  <2>2. QED  BY <1>1, <1>4, <2>1, NobodyAssumption
<1>6. SharedOK' /\ Recounts(session, answered)'
  BY <1>1, <1>3, <1>5 DEF SharedOK, memory, cache, history
<1>7. RowAgrees'
  BY <1>1, <1>4, <1>5 DEF RowAgrees, memory
<1>8. \A a \in Requests : callbacks'[a] = Nobody
  BY <1>1, <1>3 DEF NoCallbacks, cache
<1>9. pc(r) \in {"saving setting", "saving model"} => running = Nobody
  BY <1>3 DEF Served, Started, Starting
<1>10. CASE pc(r) = "saving state" /\ Goto(r, "saving session")
  <2>1. PICK t : t = At(task[r], "saving session")
    OBVIOUS
  <2>2. "saving session" \in Steps
    BY DEF Steps, Started
  <2>3. IsTask(t) /\ t.pc = "saving session" /\ t.op = task[r].op /\ t.copy = task[r].copy
    BY <1>3, <2>1, <2>2, TaskFields
  <2>4. Recounts(task[r].copy, IF task[r].op.kind = "compact" THEN answered ELSE answered \o Utterances(r))
    BY <1>3, <1>10 DEF TaskSane, pc
  <2>5. answered' = answered
    BY <1>1 DEF history
  <2>6. TaskSane(r, t)'
    BY <2>3, <2>4, <2>5 DEF TaskSane, Chatting, Starting, WithCopy, Saving, Recounts, Utterances
  <2>7. t.pc \in Started
    BY <2>3 DEF Started
  <2>8. QED  BY <1>1, <1>3, <1>6, <1>7, <1>8, <1>10, <2>1, <2>3, <2>6, <2>7, OneGoesOn DEF Goto, At
<1>11. CASE pc(r) = "saving setting" /\ End(r, "done")
  <2>1. PICK t : t = At(Fresh, "done")
    OBVIOUS
  <2>2. "done" \in Idle
    BY DEF Idle
  <2>3. IsTask(t) /\ t.pc \in Idle /\ Become(r, t)
    BY <1>11, <2>1, <2>2, AtTheEnd DEF End, At
  <2>4. QED  BY <1>1, <1>3, <1>6, <1>7, <1>8, <1>9, <1>11, <2>3, OneGoesOn
<1>12. CASE pc(r) = "saving model" /\ Goto(r, "fixing")
  <2>1. PICK t : t = At(task[r], "fixing")
    OBVIOUS
  <2>2. "fixing" \in Steps
    BY DEF Steps
  <2>3. IsTask(t) /\ t.pc = "fixing"
    BY <1>3, <2>1, <2>2, TaskFields
  <2>4. TaskSane(r, t)'
    BY <2>3 DEF TaskSane, Chatting, Starting, WithCopy, Saving
  <2>5. QED  BY <1>1, <1>3, <1>6, <1>7, <1>8, <1>9, <1>12, <2>1, <2>3, <2>4, OneGoesOn DEF Goto, At
<1>13. QED  BY <1>1, <1>10, <1>11, <1>12

LEMMA DeleteSessionServes ==
  ASSUME Served, NEW r \in Requests, DeleteSession(r)
  PROVE  Served'
<1>1. /\ pc(r) = "deleting" /\ session' = <<>> /\ answered' = <<>> /\ stats' = {} /\ loaded' = FALSE
      /\ Become(r, SaveState([task[r] EXCEPT !.pc = "saving setting"], settings, {}))
      /\ UNCHANGED <<row, settings, cache, running>>
  BY DEF DeleteSession
<1>2. pc(r) \notin Idle \cup Saving \cup Started
  BY <1>1 DEF Idle, Saving, Started, Starting
<1>3. SharedOK
  BY <1>2, OnlyOne
<1>4. <<>> \in Seq(Utterance)
  BY EmptySeq
<1>5. SharedOK'
  BY <1>1, <1>3, <1>4, NothingTold DEF SharedOK, cache
<1>6. Recounts(session, answered)'
  BY <1>1, NothingTold DEF Recounts
<1>7. Become(r, SaveState([task[r] EXCEPT !.pc = "saving setting"], settings', stats'))
  BY <1>1
<1>8. QED  BY <1>1, <1>2, <1>5, <1>6, <1>7, OneSaves

LEMMA Unmoved ==
  ASSUME UNCHANGED <<task, row, settings, stats, answered>>, NEW r \in Requests, TaskSane(r, task[r])
  PROVE  TaskSane(r, task[r])'
<1>1. PICK t : t = task[r]
  OBVIOUS
<1>2. TaskSane(r, t)
  BY <1>1
<1>3. TaskSane(r, t)'
  BY <1>2 DEF TaskSane, Recounts, Utterances
<1>4. t = task'[r]
  BY <1>1
<1>5. QED  BY <1>3, <1>4 DEF TaskSane, Recounts

LEMMA DropAgentsServes ==
  ASSUME Served, DropAgents
  PROVE  Served'
<1>1. /\ agents' = [k \in Keys |-> Nobody]
      /\ UNCHANGED <<stores, memory, callbacks, running, task, history>>
  BY DEF DropAgents
<1>2. /\ row' = row /\ session' = session /\ settings' = settings /\ stats' = stats
      /\ loaded' = loaded /\ callbacks' = callbacks /\ running' = running /\ task' = task
      /\ answered' = answered
  BY <1>1 DEF stores, memory, history
<1>3. SharedOK'
  BY <1>1, <1>2 DEF Served, SharedOK, SomeRequest
<1>4. (RowAgrees => RowAgrees') /\ (Recounts(session, answered) => Recounts(session, answered)')
  BY <1>2 DEF RowAgrees, Recounts
<1>5. \A r \in Requests : TaskSane(r, task[r])'
  BY <1>2, Unmoved DEF Served
<1>6. QED  BY <1>2, <1>3, <1>4, <1>5 DEF Served, pc, InProgress, IsTask

LEMMA RestartServes ==
  ASSUME Served, Restart
  PROVE  Served'
<1>1. /\ settings' = Defaults /\ stats' = {} /\ loaded' = FALSE
      /\ agents' = [k \in Keys |-> Nobody] /\ callbacks' = [r \in Requests |-> Nobody]
      /\ running' = Nobody /\ row' = row /\ session' = session /\ answered' = answered
      /\ task' = [r \in Requests |->
                    IF r \in InProgress THEN [Fresh EXCEPT !.pc = "lost"] ELSE task[r]]
  BY DEF Restart, stores, history
<1>2. Defaults \in UserSettings
  BY SenseiAssumption DEF Defaults, UserSettings
<1>3. SharedOK'
  BY <1>1, <1>2 DEF Served, SharedOK, SomeRequest
<1>4. "lost" \in Idle
  BY DEF Idle
<1>5. PICK t : t = At(Fresh, "lost")
  OBVIOUS
<1>6. IsTask(t) /\ t.pc \in Idle
  BY <1>4, <1>5, AtTheEnd
<1>7. task' = [r \in Requests |-> IF r \in InProgress THEN t ELSE task[r]]
  BY <1>1, <1>5 DEF At
<1>8. ASSUME NEW r \in Requests
      PROVE  IsTask(task'[r]) /\ task'[r].pc \in Idle
  <2>1. task'[r] = IF r \in InProgress THEN t ELSE task[r]
    BY <1>7
  <2>2. r \notin InProgress => task[r].pc \in Idle
    BY DEF InProgress, pc
  <2>3. IsTask(task[r])
    BY DEF Served
  <2>4. QED  BY <1>6, <2>1, <2>2, <2>3
<1>9. task' = [r \in Requests |-> task'[r]]
  BY <1>7
<1>10. \A r \in Requests : IsTask(task[r])' /\ pc(r)' \in Idle
  BY <1>8 DEF IsTask, pc
<1>11. InProgress' = {}
  BY <1>10 DEF InProgress
<1>12. \A r \in Requests : TaskSane(r, task[r])'
  BY <1>8 DEF TaskSane, Idle, Chatting, Starting, WithCopy, Saving
<1>13. RowAgrees'
  BY <1>1 DEF RowAgrees
<1>14. Recounts(session, answered)'
  BY <1>1 DEF Served, Recounts
<1>15. QED  BY <1>1, <1>3, <1>9, <1>10, <1>11, <1>12, <1>13, <1>14 DEF Served

LEMMA RequestServes ==
  ASSUME Served, NEW r \in Requests, RequestStep(r)
  PROVE  Served'
<1>1. CASE StopTurn(r)
  <2>1. PICK q \in Requests : pc(q) = "routing"
    BY <1>1 DEF StopTurn
  <2>2. running = r /\ r # Nobody
    BY <1>1, SenseiAssumption DEF StopTurn
  <2>3. pc(r) \in Started
    BY <2>2 DEF Served
  <2>4. q = r
    <3>1. pc(r) \notin Idle /\ pc(q) \notin Idle
      BY <2>1, <2>3, StepNames DEF Idle
    <3>2. r \in InProgress /\ q \in InProgress
      BY <3>1 DEF InProgress
    <3>3. QED  BY <3>2 DEF Served
  <2>5. QED  BY <2>1, <2>3, <2>4 DEF Started, Starting
<1>2. CASE ReadState(r) \/ LoadState(r)
  BY <1>2, ReadStateServes, LoadStateServes
<1>3. CASE Gate(r) \/ SendPlaceholder(r) \/ LoadSession(r) \/ AnswerBusy(r) \/ BeginCompact(r)
  BY <1>3, RoutingServes
<1>4. CASE StartTask(r) \/ BeginTurn(r) \/ Compact(r) \/ RunAgent(r)
  BY <1>4, StartTaskServes, BeginTurnServes, CompactServes, RunAgentServes
<1>5. CASE SelectModelFails(r) \/ CompactFails(r) \/ Look(r)
  BY <1>5, TurnMovesServe
<1>6. CASE EndTurn(r) \/ FailTurn(r) \/ SaveSession(r)
  BY <1>6, EndTurnServes, FailTurnServes, SaveSessionServes
<1>7. CASE ApplySetting(r) \/ SaveRow(r) \/ FixModel(r) \/ DeleteSession(r)
  BY <1>7, ApplySettingServes, SaveRowServes, FixModelServes, DeleteSessionServes
<1>8. QED  BY <1>1, <1>2, <1>3, <1>4, <1>5, <1>6, <1>7 DEF RequestStep

LEMMA OwnerStep == OwnerInv /\ [SenseiNext]_senseiVars => OwnerInv'
<1> SUFFICES ASSUME OwnerInv, [SenseiNext]_senseiVars, ~overlapped' PROVE Served'
  BY DEF OwnerInv
<1>1. ~overlapped
  <2>1. CASE UNCHANGED senseiVars
    BY <2>1 DEF senseiVars
  <2>2. CASE DropAgents \/ Restart
    BY <2>2 DEF DropAgents, Restart, history
  <2>3. ASSUME NEW r \in Requests, NEW o \in Operations, Arrive(r, o)
        PROVE  ~overlapped
    BY <2>3 DEF Arrive
  <2>4. ASSUME NEW r \in Requests, RequestStep(r)
        PROVE  overlapped' = overlapped
    BY <2>4 DEF RequestStep, ReadState, LoadState, Gate, SendPlaceholder, LoadSession, AnswerBusy,
       StartTask, SelectModelFails, BeginTurn, Compact, CompactFails, RunAgent, EndTurn, FailTurn,
       StopTurn, SaveSession, Look, ApplySetting, Set, SaveRow, FixModel, BeginCompact,
       DeleteSession, history
  <2>5. QED  BY <2>1, <2>2, <2>3, <2>4 DEF SenseiNext
<1>2. Served
  BY <1>1 DEF OwnerInv
<1>3. CASE UNCHANGED senseiVars
  <2>1. /\ row' = row /\ session' = session /\ settings' = settings /\ stats' = stats
        /\ loaded' = loaded /\ agents' = agents /\ callbacks' = callbacks /\ running' = running
        /\ task' = task /\ answered' = answered
    BY <1>3 DEF senseiVars
  <2>2. \A r \in Requests : TaskSane(r, task[r])'
    BY <1>2, <2>1, Unmoved DEF Served
  <2>3. (RowAgrees => RowAgrees') /\ (Recounts(session, answered) => Recounts(session, answered)')
    BY <2>1 DEF RowAgrees, Recounts
  <2>4. QED  BY <1>2, <2>1, <2>2, <2>3 DEF Served, SharedOK, InProgress, pc, IsTask
<1>4. CASE DropAgents \/ Restart
  BY <1>2, <1>4, DropAgentsServes, RestartServes
<1>5. ASSUME NEW r \in Requests, NEW o \in Operations, Arrive(r, o)
      PROVE  Served'
  BY <1>2, <1>5, ArriveServes
<1>6. ASSUME NEW r \in Requests, RequestStep(r)
      PROVE  Served'
  BY <1>2, <1>6, RequestServes
<1>7. QED  BY <1>3, <1>4, <1>5, <1>6 DEF SenseiNext

LEMMA OwnerInit == SenseiInit => OwnerInv
<1> SUFFICES ASSUME SenseiInit PROVE Served
  BY DEF OwnerInv
<1>1. <<>> \in Seq(Utterance)
  BY EmptySeq
<1>2. Defaults \in UserSettings
  BY SenseiAssumption DEF Defaults, UserSettings
<1>3. SharedOK
  BY <1>1, <1>2, NothingTold DEF SenseiInit, SharedOK, SomeRequest
<1>4. IsTask(Fresh) /\ Fresh.pc = "new"
  BY NothingTold DEF IsTask, Fresh, Idle, Operations, SomeRequest
<1>5. \A r \in Requests : task[r] = Fresh
  BY DEF SenseiInit
<1>6. \A r \in Requests : TaskSane(r, task[r])
  BY <1>4, <1>5 DEF TaskSane, Chatting, Starting, WithCopy, Saving
<1>7. InProgress = {}
  BY <1>4, <1>5 DEF InProgress, pc, Idle
<1>8. task = [r \in Requests |-> task[r]]
  BY DEF SenseiInit
<1>9. RowAgrees /\ Recounts(session, answered)
  BY NothingTold DEF SenseiInit, RowAgrees
<1>10. QED  BY <1>3, <1>4, <1>5, <1>6, <1>7, <1>8, <1>9 DEF SenseiInit, Served

LEMMA LaterIsInTheRest ==
  ASSUME NEW h \in Histories, NEW k \in 1 .. Len(h), NEW m \in k .. Len(h), NEW x, x \in h[m]
  PROVE  x \in Turns(SubSeq(h, k, Len(h)))
<1> DEFINE rest == SubSeq(h, k, Len(h))
<1>1. h \in Seq(SUBSET Utterance) /\ Len(h) \in Nat
  BY HistoryTypes
<1>2. k \in 1 .. Len(h) + 1 /\ Len(h) \in k - 1 .. Len(h)
  BY <1>1
<1>3. /\ rest \in Seq(SUBSET Utterance) /\ Len(rest) = Len(h) - k + 1
      /\ \A i \in 1 .. Len(h) - k + 1 : rest[i] = h[k + i - 1]
  BY <1>1, <1>2, SubSeqProperties
<1> HIDE DEF rest
<1>4. m - k + 1 \in 1 .. Len(rest) /\ k + (m - k + 1) - 1 = m
  BY <1>1, <1>3
<1>5. rest[m - k + 1] = h[m]
  BY <1>3, <1>4
<1>6. DOMAIN rest = 1 .. Len(rest)
  BY <1>3, LenProperties
<1>7. QED  BY <1>4, <1>5, <1>6 DEF Turns, rest

LEMMA ServedIsKept == OwnerInv => OwnerIsServed
<1> SUFFICES ASSUME OwnerInv, AtRest, ~overlapped PROVE OwnerIsServed
  BY DEF OwnerIsServed, SequentialScopeIsStored, NoForeignCallbacks
<1>1. Served
  BY DEF OwnerInv
<1>2. \A r \in Requests : pc(r) \in Idle
  BY DEF AtRest, InProgress
<1>3. RowAgrees
  BY <1>1, <1>2, StepNames DEF Served
<1>4. \A a \in Requests : callbacks[a] = Nobody
  BY <1>1, <1>2 DEF Served, Idle
<1>5. /\ agents \in [Keys -> SomeRequest] /\ session \in Histories /\ answered \in Seq(Utterance)
      /\ Recounts(session, answered)
  BY <1>1 DEF Served, SharedOK
<1>6. NoForeignCallbacks
  BY <1>4, <1>5 DEF NoForeignCallbacks, SomeRequest
<1>7. Len(answered) \in Nat /\ DOMAIN answered = 1 .. Len(answered)
      /\ Len(session) \in Nat /\ DOMAIN session = 1 .. Len(session)
  BY <1>5, LenProperties, HistoryTypes
<1>8. PICK at \in [1 .. Len(answered) -> Nat] :
          \A i \in 1 .. Len(answered) : i > Len(answered) - MaxTurns =>
              /\ at[i] \in 1 .. Len(session) /\ answered[i] \in session[at[i]]
              /\ \A j \in i .. Len(answered) : at[i] <= at[j]
  BY <1>5 DEF Recounts
<1>9. ASSUME NEW i \in DOMAIN answered, i > Len(answered) - MaxTurns
      PROVE  \E k \in DOMAIN session :
                 /\ answered[i] \in session[k]
                 /\ \A j \in i + 1 .. Len(answered) :
                       answered[j] \in Turns(SubSeq(session, k, Len(session)))
  <2>1. i \in 1 .. Len(answered) /\ MaxTurns \in Nat
    BY <1>7, SenseiAssumption
  <2>2. at[i] \in 1 .. Len(session) /\ answered[i] \in session[at[i]]
    BY <1>8, <1>9, <2>1
  <2>3. ASSUME NEW j \in i + 1 .. Len(answered)
        PROVE  answered[j] \in Turns(SubSeq(session, at[i], Len(session)))
    <3>1. j \in 1 .. Len(answered) /\ j \in i .. Len(answered) /\ j > Len(answered) - MaxTurns
      BY <1>7, <1>9, <2>1
    <3>2. at[j] \in 1 .. Len(session) /\ answered[j] \in session[at[j]] /\ at[i] <= at[j]
      BY <1>8, <1>9, <2>1, <3>1
    <3>3. at[j] \in at[i] .. Len(session)
      BY <1>7, <2>2, <3>2
    <3>4. QED  BY <1>5, <2>2, <3>2, <3>3, LaterIsInTheRest
  <2>4. QED  BY <1>7, <2>2, <2>3
<1>10. SequentialScopeIsStored
  BY <1>3, <1>9 DEF SequentialScopeIsStored, RowAgrees
<1>11. QED  BY <1>6, <1>10 DEF OwnerIsServed

\* For every number of requests and restarts, every set of models and settings and every
\* length of history: as long as one request runs at a time, the store holds what the owner
\* chose and spent, the latest turns stay in the stored history, and no agent at rest
\* carries the callbacks of an earlier turn (RyuuHandler, Session, the stores behind it).
THEOREM OwnerCorrect == SenseiSpec => []OwnerIsServed
<1>1. OwnerInv /\ [SenseiNext]_senseiVars => OwnerInv'
  BY OwnerStep
<1>2. QED  BY <1>1, OwnerInit, ServedIsKept, PTL DEF SenseiSpec
=============================================================================
