# Formal models of the RYUU agent framework

TLA+ specifications of the parts of this repository that have a protocol to get
wrong: the durable workflow engine, the dispatcher of a chat scope, agents and
everything they share, the model router and the providers behind it, memory and
storage, the evaluation server and the pages in front of it. TLC checks every module
on small instances; TLAPS proves the safety of most of what they check for every instance.

The server side is asyncio programs. A *step* of a model is the code a coroutine runs
between two awaits; whatever the event loop may run in between is an interleaving
of the model. Plain `def` endpoints of the evaluation API run in threads: there a
step is one file operation. What a model calls, a state's `execute`, a language model,
a tool, a hook, a remote service, answers or fails as it likes within its interface.

To run a check (TLC and tlapm on the path):

    tlc -workers 2 -config MCWorkflowEngine.cfg MCWorkflowEngine.tla
    tlapm WorkflowEngineProofs.tla

`PROJECT.json` lists the runs, the code each definition was translated from, the
mutants that show what each property is sensitive to, the hazards and the theorems.

## 1. Inventory

The repository is a family of Python packages (`src/packages`), a facade package
(`src/ryuu`), an evaluation server with a web UI, and examples. The components that
keep state or have a protocol:

| Component | State | Operations | What is hard | What makes it correct |
|---|---|---|---|---|
| Workflow engine, `ryuu-workflow` | locals of one call; checkpoints in a store | `run`, `resume`, `save`, `load_latest`, `delete` | death of the process between any two awaits; retries; deletes cut short | the checkpoints are one gap-free computation; nothing runs after its end; answers agree with it; calls end |
| Scope dispatcher and orchestrator, `ryuu-messaging-core` | per scope: task, steer queue, summary; a session per message and in the store | `_dispatch`, `route`, `start_task`, `finish_task`, STOP, STEER, `clear_scope` | every message is a coroutine; state is read before awaits and used after | one handler per scope; steers applied once; everybody answered |
| Sensei application | settings and statistics, session, agent cache, callbacks | turns, commands, compaction, streaming, restart | a lazy load and whole-object saves around awaits | what a scope's owner chose, said and spent is stored; agents call nobody else's chat |
| Agent factory, `ryuu/factory`, and ReAct loop | fields of one shared `_FactoryLLMAgent`; tool objects wrapped in place | `run`, adaptive run, best-of-n, `stream`; building | per-run values live in fields of a shared object | a run uses its own model, recorder, callbacks; the agent is left as built; hooks fire once |
| Hooks, audit and cost around an agent | handlers, wraps, audit entries | `fire`, `wrap_*`, `_execute` | user code raises anywhere | an execution is told once, with its outcome |
| Agent pool, rate limiter, cost tracker | results, semaphore, token bucket, total | `fan_out`, `execute`, `acquire`, `enforce`, `record` | check and record an await apart; cancellation | rate kept; overrun bounded; never hangs |
| Model router, circuit breaker | a breaker per provider | `complete`, `stream`, `embed`, `record_*` | late results of old calls meet a new state | trips exactly on consecutive failures; leaves a failing provider alone; probes it again |
| Providers and fallback chain | what a model is known to refuse | `complete`, `stream`, `embed` | overlapping calls learn from each other's refusals | a refusal costs one request, never the answer |
| Batch runner | semaphore, task group, a remote job | `run` | answers out of order, missing, with clashing ids | every input gets its own answer |
| Strategies, facades, verifiers | drafts, verdicts, workers | `handle`, loops, fan-outs, voting | ties, failing workers, bounds | the answer is the best that was generated; all workers are awaited |
| Skill catalog of prompts | entries by name, mtimes; agents built with them | `reload_if_changed`, tools | files change under the scan | a turn speaks the catalog on disk |
| Skills and MCP client | clients, processes, tools, `skills.yaml`, logins | install, uninstall, reauth, reload, boot | steps that fail or are cancelled half-way | one client per skill; reports match the file |
| Memory layers, consolidator | working, episodic, semantic entries | write, `run_cycle`, evict, archive | store and mark are an await apart; cycles overlap | no observation lost, none promoted twice |
| Recall pipeline | one context through stages | six stages | any order, failing helpers, empty lists | the answer is ranked and within budget |
| Storage collections and PostgreSQL stores | items per scope; rows; pool | append, update, delete, list; set_value | unlocked readers, cursors, transactions, connections | changes are whole, a cursor skips nothing, a fact has one value |
| Audit file | queue, worker, hash chain | `append`, `_worker`, `shutdown` | worker death, shutdown, restart | every event once, in order; the chain verifies |
| Evaluation runs | runs, queues, four copies of results | start, stream, cancel, read | queue removed before results are set | a reader learns how a run ended |
| Evaluation archive, settings, projects | files on disk | history, batches, suite settings, mirror, sync | read-modify-write in threads; cut-off writes | what is told of past runs is so; a copy says that it is one |
| Oracle studio | fixture and review files, cases, prompts, versions | generate, review, promote, save, run | two files per change; stale pages; late answers | nothing unreviewed is promoted; no case or prompt is lost |
| Web UI | query cache, drafts, monitors | queries, mutations | stale copies | own changes are shown |

The rest is functions of their input (guardrails, intent, chunking, parsers), pure
I/O (logging, tracing, tools) or layout. `PROJECT.json` names every component with
its files and the reason when it is not modelled.

How they interact: an adapter hands a message to the orchestrator, which routes it
through the scope dispatcher and runs a handler; the handler runs a factory agent
whose prompt carries the skill catalog and whose tools come from builders, skills and
system tools; the agent's template method (`BaseAgent.execute`) passes the rate
limiter, the budget and the audit log, fires its hooks, then runs the ReAct loop
against a provider, possibly behind a fallback chain or the model router. A
workflow's states do the same from inside the workflow engine. `AgentPool`,
`BatchRunner` and the facades start many runs at once; that is where the shared
objects of the lower layers meet. The evaluation server runs suites of cases against
agents, keeps results in memory, files and rows, and serves pages that watch runs,
review oracle fixtures and edit prompts.

## 2. Plan

All of the first plan is done (workflow, dispatcher, factory, pool, router, audit
file, collections, consolidation, evaluation runs, prompt versions, skills), and
was extended by the application, hooks, providers, batches, strategies, building,
catalog, scoring, the archive, settings, mirror, oracle runs and the pages.

A run per component would answer no more than a run per question about shared
state. Components that share no state are therefore *parts* of one MC module:
`MCAgents`, `MCKnowledge` and `MCEvalParts` choose a part in `Init`, let that part move
and the others stay as they began. The states of such a run are the sum of its
parts' states, each part is as exhaustively searched as it would be alone, and no
property of one part can be helped or hurt by another.

What composes what: `WorkflowEngine` implements `DurableJob`; `ScopeDispatcher`,
`SenseiApp` and `FactoryAgent` model three layers of a turn and assume of each other
what the interface says (a handler returns, raises or is cancelled; an agent answers
or fails); `EvalRuns` produces what `RunArchive` keeps; `EvalStudio`, `StudioDraft`,
`OracleRuns` and `PromptVersions` are four views of the studio that meet only in data
they do not interpret; `QueryCache` is the client of all of them.

Left for later: the collection-backed memory stores.

## 3. The modules

### WorkflowEngine, DurableJob, MCWorkflowEngine

One `workflow_id`, one call at a time (the stores are single-writer per id). `call`
holds the locals of `_run_loop`, `store` the checkpoints by sequence number, `pc`
what the call awaits. `Run`, `ResumeFresh`, `ResumeDone`, `ResumeRefused` and
`ResumeContinue` are the branches of the two entry points; `Finish`, `Overrun`,
`ExecuteOk`, `ExecuteRetryable`, `RetriesExhausted`, `ExecuteFails`, `ExecuteRaises`,
`SaveCheckpoint`, `SaveRefused` are the exits of one turn of the loop; the delete is
one step in memory and file by file on disk; `Kill` is `kill -9`: the memory store
goes with the process, the file store keeps what was renamed into place. The file
store replaces a checkpoint of the same sequence and the memory store appends a
second one that `load_latest` never prefers: both are in `SaveCheckpoint`.

The data of a computation is its provenance: an output is the job it belongs to and
the number of states its input went through, which is what the properties tell
apart. A workflow may change between calls (a deployment between kill and resume):
`Workflows` is a set, and each call picks one.

`CleanCaller` is the contract of the store: an id is reused for a new `run` only
after its checkpoints were deleted. Without it the log of the old job lies under
the new one, and `load_latest` after a shorter second run returns the first job's
end; `LogIsChained` and what follows from it are stated under it.

`DurableJob` is the promise to a caller: durable steps are added one at a time
until the history is closed, `COMPLETED` is answered only for a closed history (or
an empty one), and only a delete or the loss of a memory store takes steps away.
`Durable` maps it: number of checkpoints, whether the latest ends the workflow, and
the last answer.

### ScopeDispatcher, MCScopeDispatcher

The messages of one scope. Each has a coroutine (`pc`), its own copy of the session,
and possibly a handler task (`task`); `scope` is the `ScopeState`, `store` the session
store. Actions follow `_dispatch` branch by branch: `GetSession`, then `Route` or
`StartTask`, then by label `NewWhileRunning`, `Steer`, `Stop`/`StopNothing`/`StopEnded`
with `StopWake` and `StopTimeout` for the two-second wait; `SummarizeDone` and
`TaskDone` are the owner's way through `_summarize` and `_run_handler` to
`finish_task`; `BuildPrompt`, `HandlerReturns`, `SaveSession`, `HandlerFails` and
`HandlerCancelled` are the handler task. Scopes share nothing (states and sessions
are keyed by `scope_key`), so one scope is the whole story.

The label of a message is any label (`Classified`): it depends on its text and on an
LLM. asyncio's rule that awaiting a finished future does not suspend is modelled, as
is the order in which the waiters of one task resume (owner before STOP). `StopEnded`
is the behaviour of `wait_for` from Python 3.12 on; under 3.11 the same case goes
through `Stop` and `StopWake`, which the model also has. The drain and pop of
`BuildPrompt` are `RyuuHandler`'s of the Sensei example, the one handler of the
repository that uses steering.

`_dispatch` adds a steer to the queue of a running scope wherever its handler is:
before `BuildPrompt` drains the queue, before the leftover drain of `HandlerReturns`,
while the session is being saved, or after the task has ended and not been finished.
`late` keeps the steers that came after the last drain (`TakesSteers` is what comes
before it), which the code acknowledges and nobody drains. `AckedSteerIsKept` says of both kinds what
becomes of them.

`clobbered` records that a `finish_task` reset the state of another message's task
(see the finding `ScopeTwoHandlers`). `TurnIsSteered` holds until that happens, and is
stated so: it isolates the one defect instead of being violated by it in ever new
ways.

### AgentPool

`fan_out` over tasks of one scope. Per task: `Enter` (semaphore), `Grant` or a later
poll (`Limited` decides), `Start` or `Refuse` (budget), `Complete`, `Fail`,
`AuditFails`, `CancelTask`; for the group: `Raise` in both error modes,
`CancelFanOut`, `FanOutEnds`. The token bucket counts in ticks, so that refilling by
elapsed time is exact: `bucket.lag` is the time since `last_refill` and `Refilled`
what a poll would find.

### ModelRouter, MCModelRouter

Callers of `ModelRouter.complete` with one breaker per registered provider. `Begin`
routes and sends the request, `Refuse` is a `route` that raises, `RouteOnly` is
`stream`, `embed` and `estimate_cost` (they ask the breaker, which may turn it half
open, and record nothing), `Succeeds`, `Fails`, `FallbackEnds`, `Cancelled` are the
ways a call ends, `Tick` the clock. `history` is what a breaker has been told so far.

### MCAgents: eight parts around agents

- **FactoryAgent**: one `Agent` and the calls made on it. `agent` holds the four fields
  of the shared `_FactoryLLMAgent` that runs change: provider, tier (model, iterations,
  max_tokens, changed together), recorder, callbacks; `run[r]` the locals of a run: what
  it found and will put back, where its failover loop is, what its ReAct loop read when
  it started. The entry points exclude each other as the agent was built (`mode`);
  streams may join any. `PutBack` with `CallEnds` and `Cancelled` are the `finally`
  blocks. `overlap` records that two runs were ever in flight at once: what the code
  promises of the shared fields it promises to one run at a time, and
  `SoloRunOwnsTheAgent` is stated so (section 6 says what overlapping runs do).
- **SenseiApp**: requests (messages, commands) of one owner over `RyuuHandler`'s loaded
  state, the handler-state row, the session store, the agent cache with its callbacks,
  compaction and restarts. Reads and writes of the two stores are steps of their own,
  with everything the code keeps from before them in the request's locals.
- **AgentHooks**: one execution with its hook registry, the audit log and the cost
  around it. `stage` follows `_execute` and, inside the loop, each tool call; a handler
  keeps, mutates or replaces its context or raises; a wrap calls `next` any number of
  times. The cost tracker and the audit log may raise wherever they are called:
  `RefuseExecution` before `_execute`, `CompleteFails` after it, with the cost recorded or
  not, and `RaiseFailure` when the failure itself is logged. Token streaming is the path `FireStreamPreLLM`, `OpenNext`, `StreamEnds`. The
  events of the execution (`fired`) and of its tools (`toolFired`) are two histories,
  because they promise different things: a fixed sequence, and pairs.
- **ProviderCalls**: overlapping calls on one provider object, or a chain of them: what a
  model refuses (`Refuses`), what the provider remembers (`rejected`), the retry, the
  fallback from thinking to a chain-of-thought instruction, streams and embeddings.
- **BatchRun**: one `BatchRunner.run`, as a semaphore and task group over the agent, or as
  one job of a remote batch API from upload to results.
- **ReasoningLoops**: one request through any strategy, facade or the prompt optimizer.
  A verdict is any that the verifiers, or a pipeline of them, can give (`Verdicts`).
- **AgentBuild**: `Agent.__post_init__` over shared tool objects: introspected and YAML
  schemas, whose hooks wrap whose `execute`, the providers a configuration builds.
- **SkillCatalog**: skill files in two directories that people edit between any two file
  operations, the registry's scan and its check, the two tools, the cached agents.

### MCKnowledge: six parts of storing and recalling

- **MemoryLayers**: the three stores of one scope, the filter, two overlapping dreaming
  cycles with embedder and model, eviction and archives. A bucket is a set of entries with
  their order of storing, what a cycle has at hand too. Text is abstracted to which
  observations are about one subject; time to the order of the code's three periods.
- **RecallPipeline**: six stages over one context, in any order a pipeline may list
  them; fusion by reciprocal ranks, a budget in words, materialisation as in the code.
  An order is a relation and `InOrder` its sequence; a sum is the number of elements of a
  union. `Unit` makes the reciprocals whole numbers, so scores are exact where the code
  adds floats: rounding may make a tie of two scores or break one, but addition stays
  monotone, so a text that beats another in every list is still not behind it.
- **ProfileFacts**: the transactions of `set_value` and `delete_key` under read committed.
- **Collections**: append, update, delete, clear and the paging reader in four stores.
- **ConnectionPool**: who holds and who waits for a connection, the creation of tables
  and of pools.
- **AuditTrail**: both file stores, the worker, shutdown, crash, the chain of hashes.

### EvalRuns

The POST that starts runs, the background task `_bg` of each, the runner in sequential
and parallel mode with budget, cancel and failing cases, the memory, key-value, file
and database copies, and the pages as readers of the event stream.

### EvalStudio, MCEvalStudio

A fixture with its companion review file and the promoted case as file and row. A
request is a slot with a program counter; `torn` records that two writers met or one
was killed midway, `clean` whether a page promoted what it showed without unsaved
work. A case file is looked for (`LookAtFile`) and written (`SaveFile`) in two steps.
The `async` endpoints have no await between them, so a request that is to write keeps the
event loop; the plain `def` endpoints (`Threaded`) run in threads and may come between
(`MayRun`).

### SkillManager, MCSkillManager

`install_skill`, `uninstall_skill`, `reauth_skill`, `complete_oauth`, `reload_skills` and
the boot, over `skills.yaml`, the toolset's clients, tools and processes, login
processes and cached agents. `_read_yaml` may fail and start afresh (`Readings`), the write
may fail before or after it has truncated the file and leave any part of it
(`WriteFails`); an installation reports that as an error, logins and `complete_oauth`
swallow it and report success. `disturbed` are the skills whose calls overlapped or were cut off: what
a call leaves and reports is promised for the others, one client per skill for all.
`lost` are the skills whose entry such a failed read or write has made other than what
was last reported of them.

### MCEvalParts: eight parts of the evaluation server and its pages

- **CaseScoring**: target, scorer, fixture metrics, structured and judged scores over all
  matrices in all shapes and spellings of a small vocabulary.
- **PromptVersions**: both prompt stores, their endpoints, and two pages with old lists.
- **SuiteConfig**: the settings file of a suite, read and rewritten by threads.
- **RunArchive**: history lines, last run, batch records, grouping by pauses, compare
  page, with restarts and a full disk.
- **ProjectMirror**: an external project that changes and goes away, its snapshot, sync.
- **OracleRuns**: meta-generation and runs with structured output, both fallbacks.
- **StudioDraft**: the page on which a person edits and runs an oracle prompt: selection,
  tabs, drafts in the browser, previews, reloads with a deep link, answers that come late.
  `Renders` is what the effects of a render do, those of a mounted editor before those of the
  page. The tab bar works while the fixture is loading (`OpenTab`), and a link may name
  the editor's tab (`Landing`): then the editor is mounted together with its data, and an
  empty text replaces the draft. `overwritten` are the fixtures to which that has happened.
- **QueryCache**: each query of `api/hooks.ts` with the mutations that invalidate it, over
  TanStack Query as it is bundled (`dist/assets/query-2jX299At.js`): a mutation that
  invalidates a query starts its fetch anew, unless its first fetch is still under way, which it then
  joins (`Invalidated`).

## 4. The runs

Passing runs check what holds; each violation run checks one sentence of the
repository's comments that the code does not keep (`findings` in `PROJECT.json`
quotes it).

| Run | Bounds | Distinct states | Shows |
|---|---|---|---|
| `MCWorkflowEngine` | 2 states, a marker, an undefined id; three workflow objects (deployed, trivial, invalid); 2 runs, 2 kills, 2 retries, 2 transitions per call, 4 sequence numbers; both stores | 70,254 | `LogIsChained`, `ClosedLogIsQuiet`, `CompletedAnswerIsTheLog`, `CallReturns`, refinement of `DurableJob` |
| `MCScopeDispatcher` | 3 messages, 1 clear | 204,473 | `TurnIsSteered`: the scope knows its task, a steer acknowledged before the last drain is prompted, once, a later one is lost; `EveryMessageAnswered` |
| `ScopeTwoHandlers` | 3 messages, symmetric | violation | `OneHandlerPerScope`: two handlers of one scope run at once |
| `AgentPool` | 3 tasks, 2 at a time, estimates 1 or 2, costs 0 to 2, cap 1, burst 2, 2 ticks per token | 548,704 | `BudgetOverrunIsBounded`, `RateIsKept`, `FanOutReturns` |
| `MCModelRouter` | 3 callers, 2 tiers with a provider each, either or none as fallback, threshold 2, recovery timeout 2 | 138,822 | `TripsOnConsecutiveFailures`, `FailingProviderIsLeftAlone`, `OpenBreakerIsProbed` |
| `MCAgents` | see below | 1.7 million | one property for each of its eight parts |
| `SkillTurns` | as `MCAgents` | violation | `TurnsSeeEveryReload`: deleting the last skill leaves agents with the old catalog |
| `MCKnowledge` | see below | 2.0 million | one property for each of its six parts, two for collections |
| `MCSkillManager` | 2 skills, one with a login, one with parameters; 3 calls and the boot; 1 restart | 3.4 million | `SkillsAgree`: one client per skill, nothing left behind, reports match `skills.yaml` but for failed reads and writes, cached agents hold the current tools |
| `EvalRuns` | 1 run, 1 page, 2 cases, 1 restart, concurrency 2 | 1.8 million | `ReadersAreToldTheRun`, `MonitorLearnsTheEnd` |
| `MCEvalStudio` | 1 page, 2 overlapping requests of 3, 1 cell, 1 restart | 3.1 million | `ReviewIsKept`, `CasesAreKept` |
| `MCEvalParts` | see below | 2.7 million | one property for seven of its eight parts, two parts (oracle runs, drafts) share `StudioKeepsItsWord` |

| Part | Bounds | Property |
|---|---|---|
| FactoryAgent | 2 runs, primary and 2 fallbacks, 2 rounds, 2 tiers, all modes | `SoloRunOwnsTheAgent` |
| SenseiApp | 4 requests, 2 overlapping, 2 settings and a model, 1 turn kept by compaction, 3 turns of history, 1 restart | `OwnerIsServed` |
| AgentHooks | 3 handlers of one event (sequential, parallel, sequential), 2 wraps of the LLM call, 1 of a tool, 3 inner calls | `HooksTellTheOutcome` |
| ProviderCalls | 2 callers, 3 models with different refusals, 1 chunk of a stream | `RefusalsAreAbsorbed` |
| BatchRun | 3 inputs, 2 at a time, given ids of which one looks like a default | `InputsAreAnswered` |
| ReasoningLoops | 2 answers, confidences 0, 40, 80 (mark 70), 3 rounds, 3 workers | `AnswerIsTheBest` |
| AgentBuild | 3 builds over a registry with one tool under two names | `AgentsOwnTheirTools` |
| SkillCatalog | 2 directories of 2 file names, 2 cached agents, 2 skills shown, 3 stamps | `SkillsReachThePrompt` |
| MemoryLayers | 3 observations, 2 about one subject, 2 cycles, stores of 1 and 2 entries | `ObservationsAreKept` |
| RecallPipeline | 3 queries with 2 keys, texts of 1, 3 and 9 words, 1 variant, 1 sub-query, 2 results per query, budget 5, scores in units of 1/3782 | `AnswerIsRanked` |
| ProfileFacts | 2 setters, 4 values, 1 erasure | `FactHasOneValue` |
| Collections | 2 writers, 4 calls, 2 times, 3 polls of pages of 2, four stores | `ReaderMissesNothing`, `ChangesAreWhole` |
| ConnectionPool | 3 clients, a pool of 2, a collection store and a key-value store | `OnlyFirstUseWedgesPool` |
| AuditTrail | 2 loggers, 4 events, batches of 2, 1 crash | `AuditIsSound` |
| CaseScoring | 2 cells of 4 spellings, 3 ops, judge scores 40 and 70 | `CountsAgree` |
| PromptVersions | 2 versions, 2 pages, 3 clicks, both stores | `LiveVersionIsPromoted` |
| SuiteConfig | 2 threads, 2 categories, 4 saves | `SequentialSavesKeepTheCategory` |
| RunArchive | 3 runs, pages of 2, 1 restart, 1 failed write | `HistoryIsTold` |
| ProjectMirror | 2 remote suites with 1 case id, 2 visitors, 2 changes, 2 visits | `MirrorIsHonest` |
| OracleRuns | 2 tabs, 3 runs | `StudioKeepsItsWord` |
| StudioDraft | 2 fixtures, 1 prompt text, 2 calls to the server | `StudioKeepsItsWord` |
| QueryCache | 2 mutations here, 1 elsewhere, 3 pages opened | `OwnChangesAreShown` |

Why the bounds are enough for what is asked:

- *Workflow.* Two kills give a resume of a resume; two runs the reuse of an id after
  a delete; two transitions a log of a call that overruns and is then resumed past it;
  four sequence numbers two such calls. The bound `SequenceBound` stops a resume
  that would pass it, never a call in progress. The proofs have none of these bounds.
- *Dispatcher.* The defects need an owner, a second task and a third message; every
  pair of labels meets within three messages. What only a fourth message could do is
  not covered (a steer carried through two later handlers, for instance; the first
  conjunct of `SteerIsPromptedOnce` rules out its cause instead).
- *Pool.* Three tasks at two places: one waits for the semaphore, two share the
  window between check and record. `elapsed` counts only up to `Horizon`, after
  which the rate bound cannot be broken any more; the bucket's clock stops when it
  is full.
- *Router.* Threshold 2 distinguishes a count from its reset; timeout 2 has a state in
  the middle of the wait; three callers allow a late success, a late failure and a
  new call at once.
- *Agents.* A shared field is disturbed by one other run; two fallbacks distinguish
  "next provider" from "last". Four requests are a turn, a command that overtakes it,
  a restart between them and a turn that shows the damage. Three handlers are one
  before, one beside and one after a failing one. Three models are one that refuses
  nothing it is not told about, one that refuses a temperature, one that refuses what
  the other provider's call carries. Ids 2 and 7 are a clash with a default id and none.
- *Knowledge.* Two related observations and one alone give a cluster and a singleton;
  two cycles overlap at every await; the episodic bound of 2 evicts at the third. The
  retrieval limit is as large as the store, so that its cut is not exercised here.
  Pages of 2 end inside and at the end of three items. Three clients at two
  connections are the least that wedge a pool with one to spare.
- *Evaluation runs and studio.* One run with two cases has a case in flight while the
  other is told; two slots are all pairs of requests, the third the one that shows or
  repairs what the pair left. What two runs of one batch, or two pages, do to each
  other is in `RunArchive` and `PromptVersions`.
- *Archive and pages.* Gap 1 tells "within the pause" from "beyond" over three runs; a
  page of two cuts a group. Three clicks of two pages are the stale list, the change
  behind it and the click that meets it; with four clicks the run passed as well
  (4 million states). Drafts: with two texts that part was searched alone and passed.

Deadlock is checked where the system goes on for ever: the workflow, pool, router,
dispatcher (with an explicit final stutter `AllAnswered`, enabled only when everybody
is done) and studio runs. The other cfgs say `CHECK_DEADLOCK FALSE`: their calls are
bounded and come to an end. `SYMMETRY` is used where model values are interchangeable
and no temporal property with fairness is checked (the two fixtures of `StudioDraft`, the
only part of `MCEvalParts` that has them, are interchangeable).

Every property has a mutant of the code that breaks it (the operators commented as
mutants, each placed before the definition it varies): a missing finally, a dropped
guard, a lost reset, an off-by-one. The type invariants of the proved modules are
proved and not run; the bounded parts need none to be readable by TLC.

### Conditions that histories carry

Several properties hold for calls that do not overlap and say so with a history
variable: `overlap` (FactoryAgent), `overlapped` (SenseiApp, Collections), `together`
(ProfileFacts), `disturbed` (SkillManager), `torn` (EvalStudio), `crowded`
(SuiteConfig), `mishaps` (PromptVersions), `late` (StudioDraft), `faults` (AuditTrail),
`clobbered` (ScopeDispatcher). Four more keep to one object what the code has lost of it:
`late` (ScopeDispatcher, steers), `lost` (SkillManager, entries), `overwritten`
(StudioDraft, drafts), `crossed` (QueryCache, a change that met the first fetch). Each is set exactly when the code gives its promise
up, is narrower than "something happened" (a call on another skill, an old page, a
failed call, a restart leave it alone), and section 6 says what happens then. The
models go on after it is set, and the conjuncts that do not mention it hold there too;
only a behaviour of `StudioDraft` ends there, as nothing is promised any more: what answers
do that arrive after that is listed in section 6 and checked by no property.

### Liveness and fairness

- `WorkflowEngine`: weak fairness of the engine's own step. A coroutine that can go on
  is resumed; a state's `execute` returns or raises. Callers and kills are not fair.
- `ScopeDispatcher`: weak fairness per coroutine and per handler task. Providers,
  stores and handlers are assumed to return, raise or time out. No message has to be
  sent, no label has to be given.
- `AgentPool`: weak fairness per task and of the clock. The limiter is polled in no
  particular order, and `FanOutReturns` holds without more: the tasks are finitely
  many, and each grant removes one from the queue.
- `ModelRouter`: weak fairness of the clock only; nobody has to call and no provider
  has to answer. `OpenBreakerIsProbed` therefore has the premise that its tier is
  asked again and again. A provider that is also the fallback is excepted, and has
  to be: `route` hands the fallback out without asking its breaker, its failures
  reset the breaker's clock, and a busy router can keep it open for ever.
- `EvalRuns`: weak fairness of each run's background task and of each page that reads
  an open stream. Agents under test return, raise or time out. `MonitorLearnsTheEnd`
  excepts pages that share a run's queue and restarts of the server.
- The other modules state no liveness: what they promise is about what is there when a
  call has ended, and a call that never ends is the environment's.

## 5. The proofs

All are of the specification a run checks, for every value of its constants under
the assumptions the module names; TLC evaluates those assumptions in the runs.

**WorkflowEngineProofs.** `Inv` is `TypeOK`, `DepthMatchesSequence` and `CallBounds`
(a call has room for the transitions it may still take, and saves only the output of
a state of its workflow within its bound on transitions). It is inductive without further premises:
`TypeCorrect`, `DepthCorrect`. For the log it takes `LogInv`: besides `LogIsChained`
itself that there is no gap below any checkpoint (`NoGaps`, what resume relies on
when it continues after the latest), that the call in progress continues exactly
where the log ends (`CallFollowsLog`, without which `SaveCheckpoint` could start a new
chain), and that a delete excludes a call. `LogCorrect` and `QuietCorrect` have the
premise `CleanCaller`: it is the callers' contract, and TLC finds both violated
without it.

`AnswerCorrect` adds `AnswersInv`: an answer that stands between calls agrees with the
log. The same module has the refinement: `EngineImplementsDurableJob` shows that initial
states map to initial states and that every step is a step of `DurableJob` or leaves
its three variables alone. Its second premise, `MarkersAgree`, says that what is a
marker to one workflow object of the id is not an ordinary state of another;
otherwise "closed" would mean different things to different calls. Counting
checkpoints needs `Written = 0 .. n - 1`, which is where `LogInv` enters.

**AgentPoolProofs.** `Inv` is `TypeOK`, `Admitted` (no more tasks past the semaphore
than `MaxConcurrency`), the budget bound, and `RateInv`: the rate bound with the
balance the bucket *would* have if it were polled now, because between polls the
stored balance lags behind the clock. `BudgetOverrunIsBounded` reserves `MaxCost` for
every executing task: a start passes `enforce` with an estimate of at least
`MinEstimate`, so that what is spent is then at most `Cap - MinEstimate`, and at most
`MaxConcurrency` reservations exist; a completion exchanges a reservation for a cost
of at most `MaxCost`. `PoolTypeCorrect`, `BudgetCorrect`, `RateCorrect`.

The same module has the evaluation runs. `RunsInv` says that the copies of a result (the
one in memory, its `case_done` event, the one a page has) are whole or not there; that the
events of a run are one `case_done` per result, then at most one that closes it, then
nothing but the sentinel (`LogOf`); what memory has of a run that ended (`ResultKept`); and
that the only reader of a run has of it exactly the events taken from its queue
(`ReadSoFar`), where a page that opens it first starts with none (`Unread`).
`SuiteEnds` and `LoopGoesOn` are the lemmas for the steps of a run's background task,
`OneRun` says that they leave every other run alone, and `PageKeeps` is the one for
the steps of pages. `ReadersCorrect`.

**ModelRouterProofs.** `Linked` relates a breaker to what it has been told: its count is
the streak of failures, it is closed exactly below the threshold, once tripped its
clock is the time since the last failure, and half open only after the whole wait.
One lemma per method of the breaker shows that it keeps the link; the actions then
only say which breakers are asked and told. `RouterTypeCorrect`, `TripsCorrect`, and
the action property `LeftAloneCorrect`.

**ScopeDispatcherProofs.** `DispatcherInv` adds five links to the types. `OwnersAwait`: a
handler runs only while its message's coroutine still awaits it, and the attached task
is one whose coroutine has still to finish it. `RunningIsAttached` is the promise about
tasks. `SteerIsSomewhere` follows an acknowledged steer from the queue to the prompt or
the session of the handler it was sent to. `SteersMoveOn` says that a steer is at one
place: no session, in use or stored, carries one that a turn of its history was given
or that is still queued. `LateIsLost` says of the steers that came after the last drain that
their own coroutines have ended and that nobody is left to drain them.
`RunningIsAttached`, `SteerIsSomewhere` and what `LateIsLost` says of prompts and
sessions need the premise `~clobbered`, the others do not: a reset loses steers and
repeats none. `DispatcherTypeCorrect`, `SteeredCorrect`.

**SkillManagerProofs.** The argument is ownership. `SkillInv` says that two calls touch the
same skill only when it is disturbed (`OneCallPerSkill`), that a client which has left the
list is one that a call is about to stop (`Leftovers`), how far a call has got with its
skill (`Progress`), and that nothing is told of a skill while a call works on it
(`NothingToldYet`, why nobody has to look at the reports of other calls). Of an undisturbed
skill these say everything there is to know from the one call that works on it (`AtSkill`),
so that a step of that call is judged by what it does to this skill and to itself, and by
what it leaves alone (`WorksOn`): the lemma `WorkStep` draws the rest, for the fourteen
actions that start, stop and roll back servers; `QuietStep` is the one for calls that touch
no client. What a write for a skill, or a failed one, does to the file is a lemma of its own
(`PersistStep`, `DropStep`): every other entry stays as it is or is `lost` (`EntryStays`).
Restarts and edits of `skills.yaml` are steps of their own. `SkillsCorrect`.

**AgentPartsProofs.** The parts of `MCAgents` that are proved, each with an inductive
invariant of its own:

- `AgentInv`: while nothing has overlapped it describes the one run in progress. Outside
  the loop the agent has its primary provider and is otherwise *lent* (what the run
  changed, with what it will put back in its locals); inside, its provider is the one
  failover is at, and the run has read what it was lent. So the `finally` blocks restore
  the agent at whatever step the run ends. `AgentTypeCorrect` holds for overlapping runs
  too; `SoloRunCorrect`.
- `ProviderInv`: what the first and the second request to each provider may carry
  (`FirstSane`, `SecondSane`), that there is no third, and that without an outage complete
  stays with the first provider of its chain. A second request carries nothing that could
  be refused once more, so there is nothing left to raise. `RefusalsCorrect`.
- `BatchInv`: each line of the output file is of one input and has the id that its input
  was given or its place, and no two lines are of the same input. `InputsAreAnswered` is
  about the last line with an id; `ItemIsOfLines` says whose answer that can be.
  `BatchCorrect`.
- `ReasoningInv`: a loop goes on only after drafts that did not end it (`NoneEnded`), what
  it keeps as its best is the first of the best drafts, or nothing while all were judged 0
  (`BestIsLeader`), and who is cancelled had a companion that failed (`FailuresShow`).
  `LeadGoesOn` is the lemma on how one more draft changes who leads; `FirstGreatest` that
  a vote has a winner. `ReasoningCorrect`.
- `HooksInv`: the place a run is at says which events have been fired (`FiredSoFar`), that
  all handlers heard them unless it is about to fail (`AllHeard`), and who has been told of
  a failure (`FailureTold`); a tool that is run was announced by the event before
  (`ToolsPaired`). That a wrap may call the loop again changes nothing, because the loop
  fires only events of tools. An execution that completed may still fail when its end is
  recorded; then every handler has heard all five events, which is what `FailureTold` says
  of that failure. `HooksCorrect`.
- `BuildInv`: the registry's names are names of objects that exist (`BuildTypeOK`), an agent
  built from functions has objects of its own (`BuiltIsSane`), and nobody else's hooks are
  around those (`OwnIsOwn`). `WrapsMore` counts the hooks around an object after one more
  agent was built over it; `AgentBuildAssumption` says that tools are finitely many, so
  that the names of an object can be counted. `BuildCorrect`.
- `CatalogInv`: what an undisturbed scan has passed comes before what it has not, and the
  entries are those of the files passed (`ScannedSoFar`, `EntriesOf`); a file that still
  has the stamp of a reading is what was read (`StampsAreFresh`); the cached agents have
  the catalog that is there unless nobody was told of a change (`AgentsFollow`). The check
  that finds nothing to do needs a count: as many files as entries, each at its stem, are
  all entries there are (`SameCatalog`). `CatalogCorrect`.
- `OwnerInv`: until two requests overlapped, one is under way; what it has read is what is
  stored, what it is about to write is what is in memory or, for the history, a history
  that recounts the conversation (`TaskSane`), and in between the row agrees with memory
  (`RowAgrees`). `Recounts` says where each late utterance stands in a history and bounds
  how far from its end: a turn that is appended (`OneTurnMore`), with the oldest trimmed,
  and a compaction (`OneForTheOld`) both keep it. A request that is stopped needs a second
  one, so that step does not arise. `OwnerCorrect`.

**EvalPartsProofs.** The parts of `MCEvalParts`, each with an inductive invariant of its
own:

- `ConfigInv`, the settings file and what each thread has read of it: a thread that
  saves alone writes what it read with its own field changed. `ConfigTypeCorrect`,
  `CategoryCorrect`.
- `TraceInv`, for the scores: the trace of an answer compares what the answer says, and
  the verdict is given once. What needs an argument is that the two ways from spellings
  to cells agree: `TabledIsCanonical` (a document read through the table of names
  last-wins is the one whose keys were made canonical), `MetricsAreAgreement` (the
  counts of a matrix are the agreement of two such documents). `CountsCorrect`.
- `PromptInv`: no transaction in flight promotes a retired version, its stamp is above
  every stamp there is, and a page's request is for a row the page was shown.
  `VersionsCorrect`.
- `MirrorInv`: what a call has seen of the remote since it began contains what it was
  told, what a sync has fetched and no user has deleted since is in the files, and the
  suites left, done and failed are the ones it was told of. `MirrorCorrect`.
- `CacheInv`: after a change the entry has it, or an answer on its way has it, or the
  server has not been asked yet; and nobody's own changes are ahead of the server's. A
  change that crossed the first answer (`Crossing`, then `Crossed`) is excepted until the next fetch.
  `ShownCorrect`.
- `OracleInv`: only a fixed schema is in force, and a second call is made without one.
  `StudioInv`, until an answer comes too late: the page shows what it fetched, previews
  and expectations are found at the fixture they were run for, who waits for a
  generated prompt has the editor on screen, and a text that the server has not is
  the draft, with no other one in the editor, or its draft was `overwritten` (`Safe`). What
  a render makes of editor and draft is the lemma `RenderedFields`. `StudioCorrect` is of both, as the run
  checks them.
- `ArchiveInv`: the lines of the history tell of runs that finished, each once, in the
  order they did; a batch is named after its first run, and its runs are known to the POST
  that is under way or broken off, and then to its record; the two files agree while
  nothing failed to be written. What needs an argument is the grouping of solo runs: two
  of them are shown together exactly when no line opens a group between them
  (`OneOpener`), and one does exactly when a pause parts them (`PausesOpen`). A group only
  grows because the history does and a line looks back, never ahead (`GroupsStay`).
  `HistoryCorrect`.

**StorageProofs.** `ProfileInv`: rows differ by their begin, a row that a transaction has
closed is locked by it, only one transaction can have inserted, and then it has closed
whatever was active. That gives one current value under any overlap; the line of the
history is added for transactions that do not overlap. `FactCorrect`. `PoolInv` says where
between two awaits an operation is and that it asks for its connections in order: the
one to create a table second, so that a client which waits while it holds one is a first
use. Counting connections against holders needs the clients to be finitely many
(`PoolAssumption`). `PoolCorrect`. `AuditInv`: of the loggers that are alive without a fault
there is one, its `last` is the identity of the last event of the file and its queue, and
the two read as one sequence are chained and numbered without gaps. `AuditCorrect`.
`CollectionInv`: what a rewrite under its lock is about to write is the current file with
its own change made. From it the action property `ChangesCorrect`. `ReaderInv`, until a
call was cancelled: items have ids of their own and what is still to be stored has been
read by nobody (`NewAreUnread`); in a database the times tell the order of what is in
flight, too (`TimesTell`); the reader has exactly what is up to its cursor (`ReadUpTo`). A
change keeps the order of what stays (`Thins`) and a page of either kind follows the cursor
(`Follows`). `ReadingCorrect`. `ReviewInv`: until two
overlapping requests tear the two files, there is one request that writes at a time; what
it has written so far is what its kind of request writes up to there, the fixture and the
review agree but for the cells it has still to settle, and a promoted cell is out of the
review. `ReviewCorrect`. With it `LookedFirst`: where a
request is about to write a case file and had not said overwrite, there is none, or a thread
has written it since. From both the action property `CasesCorrect`: what request a step
ends, and whether it may replace a listed case. `MemoryInv`: an entry that is archived is
unimportant and its age and the time left to it add up to both its times; one that is
consolidated is a fact (`EntryOK`); what a cycle started with and has to promote is a
fact, was skipped, or is still in what the cycle has at hand (`Owed`), which holds no entry
twice and clusters of one subject each (`DreamOK`). That much is true however cycles
overlap each other, a clear and the passing of days. While they do not, what could still
become a fact is in none (`Apart`), so nothing is promoted twice. `PromotedStep` is the
one lemma for both ways in which facts are added, `EvictedEntries` what eviction may
delete. `MemoryCorrect`. `RecallInv`: what is fused is a ranking of what was found (`Ranks`:
each text once, none before one that beats it), and nothing is found before the retrieval,
so it makes no ranking stale; after the budget the ranking keeps it, or is empty because
some text alone is too large (`Trimmed`). `InOrderIs` says that the sequence of an order has
each element once and its pairs in order, `SoonerIsOrder` that first occurrence is one, and
`BeatenLater` that what beats a text is met sooner and scores no less: each unit of the
other's score has one of its own at an earlier rank of the same list. `RecallCorrect`.

Only model-checked are the liveness properties and `FanOutReturns`.

Out of the prover's reach: liveness under fairness and `ENABLED`; what a recursive
definition, a fold or a filter of a sequence computes for every input. Where a property
depends on such a value, the model states it without one: as a function, an order or a set.

## 6. Observed divergences without a run of their own

What the models say of the code beyond the promises that are checked: behaviour
that contradicts a document, a comment or an expectation, or what happens where a
history variable of section 4 is set. Paths are short where the module's map names
the file.

**Workflow.** A state that raises anything but the engine's own errors escapes `run`
and `resume` (`ExecuteRaises`); FR-14 of the architecture wants it "into the fatal tier". A run that
ends at a marker which is no state is `COMPLETED`, but a resume of it is not answered so
again (engine.py:122), against NFR-7 "Idempotent resume" (architecture-uaaf-workflow.md:119).

**Dispatcher.** A message that meets a running task is told "I'll handle this one right
after" and never is (orchestrator.py:123). STOP reads the task's summary after
`finish_task` has reset it (orchestrator.py:110). The STOP heuristic matches substrings
of short messages. A steer that arrives while the session is being saved, or when the task
is over and not yet finished, is told "I'll keep that in mind for the current task" and is
in no prompt and no session: the leftover was drained before (orchestrator.py:144), and
`finish_task` or the next `start_task` drops the queue, against the comment at
:140-142 that it is carried (`late`).

**Factory.** Overlapping failovers leave a fallback as primary
(_internal_agent.py:127-132); overlapping runs exchange or lose their traces
(agent.py:452-459, which batches do: batch.py:165-183), adaptive runs their tier,
streams their callbacks. Without an estimate the budget is never enforced
(base agent.py:52, against 01-factory.md:194). Best-of-n leaves samples running when
one raises. The closing synthesis request of the ReAct loop drops system prompt,
response schema and tools (llm_agent.py:229-240). An adaptive tier that has a
model and no limits raises a KeyError after the model is swapped and before the `try`
(agent.py:515-517), which leaves the agent swapped; the model's tables list every tier.

**Hooks and building.** `fire` awaits parallel handlers, and what a PRE_LLM handler
returns is discarded, though hooks.py:203 says that "next handler / agent sees mutated
context". `_do_llm(ctx)` ignores the context that a wrap passes on. ON_BUDGET_EXCEEDED
and ON_RATE_LIMITED never fire for the framework's own limits, which are refused before
`_execute`. A failing PRE_EXECUTE, POST_EXECUTE or ON_COMPLETE handler fires no ON_ERROR,
and the cost of an answer whose POST_EXECUTE raises is not recorded. The record of the cost
and `log_complete` are inside the `try` of `execute` (agent.py:63-75): when one raises, an
execution of which every hook has heard POST_EXECUTE and ON_COMPLETE is logged as an
error and raises `FatalError`, its cost recorded or not (`CompleteFails`); if `log_error`
raises too, the entry stays open. A cancelled
execution leaves its audit entry open. Token streaming without tools bypasses budget,
rate limit, audit, cost, fallback and schema. Two agents over one registry wrap its
handlers twice, a tool under two names fires its hooks twice, one registered after
building has none, and a failed YAML pairing leaves earlier schemas replaced.

**Providers and router.** The late success of a call sent before the trip closes an open
breaker before its recovery timeout, and half open admits every caller, not one probe.
A chain sends one model name to every provider; status 500 counts as fatal. A thinking
budget for an OpenAI model without reasoning is only turned into instructions after an
error, and any error is retried once (provider.py:136); OpenAI's stream has no such
retry and drops system prompt and tool calls. `acquire` is never called with a timeout.

**Batches.** A client error while polling abandons the created batch (batch.py:231); a
completed batch without output file raises even with "collect"; failed lines are in the
error file, which is never read; default ids can collide with given ones.

**Strategies.** A refine event counts one more than the refinements on exhaustion;
EvaluatorOptimizer returns "" when all confidences are 0; a Z3 refutation has confidence
1.0 and a rule failure 0.8, above a pass with warnings at 0.5, so that the "best" draft
may be a refuted one. ReAct returns a text that starts with ACTION when it runs out of
rounds. The optimizer leaves its last variant in the base agent. HierarchicalRouter
lower-cases the category and not its keys.

**Skill catalog.** The registry rescans every turn with shadowed, renamed or unreadable
files, though it "only does work if something actually changed". A file edited between
reading and `stat` stays stale; a file deleted there raises out of the turn, as
`path.stat()` is outside the `try`. The tool `reload_prompt_skills` reloads the registry
and not the cached agents. The block is cut at the user's own skills first.

**Sensei.** Requests that overlap overwrite each other's session, settings and
statistics, and a `/clear` during a turn is undone by its save. `reset_scope` saves
without loading (ryuu_handler.py:425-427): a `/clear` that is the first request of a
process replaces the stored settings by the defaults. Adaptive routing raises without a difficulty function.

**Memory and recall.** Working memory over a collection lists its oldest entries and
freezes after 50; the episodic lifecycle sees nothing with a collection backend; a full
episodic store deletes its oldest entry, consolidated or not (by design). Without an
embedder every entry becomes its own cluster, though the consolidator says that "clustering
falls back to sequential grouping". An oversized first text empties the ranking and
the answer is everything that was found. The retrieval stage is not idempotent, though
stages "SHOULD be" (recall/pipeline.py:77). Overlapping cycles promote observations twice.

**Storage.** Five first operations of collection stores that overlap wait for each other
for ever; two concurrent `get_pool` calls create two pools. Overlapping `set_value` calls
invert or overlap a fact's intervals or fail on its unique index. JSONL scopes whose names
sanitise to one file share the file and not the lock; a cancelled rewrite gives the lock
back while its thread goes on, and an acknowledged append can be lost; a file may go
between `exists()` and `open`. `since_id` skips equal times in the databases and starts
over in files once its item is gone.

**Audit.** A failed flush loses a batch and breaks the chain; a cut-off line makes the
next start raise; events logged after `shutdown` stay in the queue.

**Evaluation runs.** Two readers of a run share one queue; `GET /runs` of a run store
answers with what was written so far (router.py:1443, :1464); the budget is not enforced
in parallel mode; `budget_cap_usd` of the suite is advisory.

**Archive and settings.** Solo runs that end close together are shown as a batch
(router.py:329) whose compare page answers 404. A record is missing when a later model
is refused, or after a restart without a key-value store. A cut-off line swallows the
next entry. Deleting a suite leaves its last run, history and settings to the next suite
of that name. PUTs that overlap lose or empty `suite_config`, so that a run is built
without its template (router.py:645-646). The compare page reads eight runs at most.

**Mirror.** A sync without overwrite never refreshes what an earlier one copied; a
failed write of the snapshot destroys the one before.

**Studio, server side.** Actions on fixtures with several inputs update `expected` only;
saving a prompt drops `inputs`. In database deployments the cases of templates, factories
and syncs go to files that nobody lists, and two creations of one case both succeed. As files,
`create_case_from_template` is a `def` in a thread (router.py:697): a case it writes
between another request's `exists()` and `write_text` (:792/:794, :2846/:2851, :1842/:1854)
is replaced, by a sync too, against "Existing UI-created cases are NOT overwritten".
Fixtures that are no CRUD matrix are promotable without review. Provenance shows a
regenerated expectation. An oracle prompt's version stays the same when its text is
edited, though it is a "timestamp/hash for audit" (router.py:2146). Of two calls the cost
of the last is reported; a schema derived from a hint is forced even for a map; a list
under "cells" raises after the paid call. The newest-first list of oracle runs freezes
at the oldest fifty (router.py:2624).

**Studio page.** A promotion with unsaved work is possible (OracleReviewPage.tsx:1506,
against :1509 "Resolve pending reviews before promoting to suite"). Answers that arrive
after another fixture was selected change that one's page: a preview of A can be saved as
the expectation of B, A's generated prompt overwrites B's draft. A generated prompt that
arrives while the editor tab is closed is lost with the next selection; selecting the
selected fixture again blanks its prompt; an editor
that is opened while its fixture is loading, by the tab bar (:2334) or by the deep link to a
prompt tab, stores its empty text over the draft before that is read (:604-606, :2091-2095),
and typing during a save loses its copy, though "drafts auto-persist locally per
fixture (survives refresh)" (:866). A link followed inside the application is
modelled as a reload, without the state that React keeps. A cleared draft falls back to the stored prompt. `handleSave` clears actions made
while it saved; a page that is stale after "Save review" posts stale cells (:2139). "New
case" with an existing id overwrites that fixture; a deleted fixture's draft is hydrated
by the next one of its name.

**Prompt versions.** Saving resets status and stamps; "Create draft" and "Save & promote"
(`v${count+1}`, :403) with a used name overwrite that version; a live draft is editable in
place though the panel says "Edit (draft) or Fork (staging/live)"
(PromptVersionsPanel.tsx:181); a stale page archives the live version; overlapping
promotions leave live version and latest stamp apart; a failed query shows "none live".

**Query cache.** Nine pairs of mutation and query are forgotten (`Forgotten` in
QueryCache): updating or deleting a case leaves the suite as it was shown, a sync the
suite, cases and provenance, a generation or deletion the fixture, a promotion the
suites list and the promotions. A mutation joins a first fetch that is under way
(`Query.fetch` cancels only when there is data), whose success makes the query valid: a case
that is added while the cases are loading (SuiteDetail.tsx:813) stays unseen until the
next fetch if the server had answered before (`crossed`). The end of a run invalidates nothing. Editing a case
replaces its metadata by the tags alone (SuiteDetail.tsx:398).

**Skills.** A `skills.yaml` that cannot be read is taken for an empty one
(skill_manager.py:414-417): the next persist drops every other entry, an uninstall leaves
its own. A write opens the file with "w", so one that fails has truncated it. After a login the
failure to persist is a warning and the answer `ok: True` (:241-244, :335-338): the skill
is gone after a restart. The rollback of an installation deletes an entry that was there before; a
cancelled one leaves a client that was never started; an uninstall meets an install that
awaits its start; after a failed `start_all`, reload says "already running"; a failed
reauth leaves the server removed. No start has a timeout.

**Scoring.** An expectation under a leaked wrapper gives a trace with everything matched
and a score of 0 (target.py:64-66); a flat one is emptied by the target and kept by the
scorer; an answer in some shapes is an empty matrix without parse error. A scorer that
raises loses output and cost. Two empty matrices score 0 in one scorer and agree in the
other; `Contains([])` passes with score 0. A dry run of the oracle "should be perfect"
and is not when a fixture names an unknown field.

## 7. Not modelled

- Guardrails, intent analysis, the parser of thinking marks, chunking and vector
  retrieval: functions of one text, without state between calls; what they answer is an
  input of the modules that use it.
- Loggers, tracers, system tools, the sandbox's policy: output and pure I/O.
- The knowledge graph and the hybrid backbone: merges of result lists.
- The investigator's store and the oracle workflow's own file (one row or file each).
- The in-memory key-value and blob stores and SQLite's key-value table: single
  assignments and statements. Two processes on one file or database are not modelled
  except where a store is a database (prompts, facts, collections, runs).
- Collection-backed memory stores (their divergences are in section 6), the
  hierarchical compactor and token metering.
- Channel start and stop, Telegram's polling and mark-up, the CLI adapter.
- Sensei's memory tools and prompt rendering; its other example applications.
- Exports, the refine history and the HTML of the evaluation API; layout, filters and
  forms of its pages.
- `AgentPool.dispatch` and registration: they choose an agent and call `execute`.

Data is abstracted everywhere: texts, vectors, tokens and money appear only as what the
properties tell apart.
