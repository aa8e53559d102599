--------------------------- MODULE ReasoningLoops ---------------------------
(*****************************************************************************)
(* One request through the patterns that compose agents: the strategies of   *)
(* ryuu_cognitive, picked by RequestHandler, the facades of ryuu.facades,    *)
(* best-of-n of the factory and the prompt optimizer.  They loop over an     *)
(* agent and a verifier, or start workers side by side and wait for them.    *)
(*                                                                           *)
(* What an agent says is a member of Said, a confidence is in percent.       *)
(*****************************************************************************)
EXTENDS Naturals, Sequences, FiniteSets, SequencesExt, FiniteSetsExt

CONSTANTS Said,          \* an agent's answers; those of Finals say DONE
          Finals,
          Scores,        \* that a judge or a score function may give
          PassMark,
          NothingSaid,   \* the empty string
          MaxRounds,     \* max_rounds, max_steps, max_refines + 1
          MaxWorkers     \* samples, items, subtasks

ASSUME ReasoningAssumption ==
    /\ Finals \subseteq Said /\ NothingSaid \notin Said /\ Scores \subseteq 0 .. 100
    /\ PassMark \in 0 .. 100 /\ MaxRounds \in Nat \ {0} /\ MaxWorkers \in Nat \ {0}

VARIABLES pattern,   \* the one that serves the request
          drafts,    \* what was said and how it was judged, in order
          bestSoFar, \* best_output and best_confidence, of the loops that keep them
          worker,    \* of the workers that were started: at work, or how they ended
          refineLog, \* events of the refine logger
          outcome    \* of the request

reasoningVars == <<pattern, drafts, bestSoFar, worker, refineLog, outcome>>

Strategies == {"direct", "thinking", "adaptive", "react", "evaluator_optimizer",
               "parallel", "best_of_n"}

Routers == {"router", "hierarchical_router"}

Facades == {"chain", "evaluator", "optimizer", "fan_out", "orchestrator"} \union Routers

Unanswered == [status |-> "open", content |-> NothingSaid, confidence |-> 0]
Raised == [Unanswered EXCEPT !.status = "raised"]
Returned(content, confidence) ==
    [status |-> "returned", content |-> content, confidence |-> confidence]

NothingBest == [said |-> NothingSaid, confidence |-> 0]

Running  == [is |-> "running"]
Failed   == [is |-> "failed"]
Canceled == [is |-> "cancelled"]
Has(said) == [is |-> "done", said |-> said]

WorkersAre(is) == {w \in DOMAIN worker : worker[w].is = is}

-----------------------------------------------------------------------------
\* What the verifiers can say of an answer.

Verdict(passed, confidence) == [passed |-> passed, confidence |-> confidence]

Rejected == Verdict(FALSE, 0)

\* LLMJudgeVerifier and word_overlap: the score decides; no score, no pass.
Judged == {Verdict(s >= PassMark, s) : s \in Scores} \union {Rejected}

\* SchemaVerifier, exact and substring.
Plain == {Verdict(TRUE, 100), Rejected}

\* RuleVerifier: the critical rules decide, a warning halves the confidence.
Ruled ==
    {Verdict(TRUE, 100), Verdict(TRUE, 50), Rejected}
        \union {Verdict(FALSE, 100 - 20 * critical) : critical \in 1 .. 5}

\* Z3Verifier: refuted for sure, or unknown.
Solved == {Verdict(TRUE, 100), Verdict(FALSE, 100), Verdict(FALSE, 50), Rejected}

\* VerifierPipeline over results rs, but for the threshold mode, which is a mean.
Piped(rs) ==
    {Verdict(\A r \in rs : r.passed, Min({r.confidence : r \in rs})),    \* ALL_PASS
     Verdict(\E r \in rs : r.passed, Max({r.confidence : r \in rs}))}    \* ANY_PASS

Verdicts == Judged \union Plain \union Ruled \union Solved
            \union UNION {Piped({a, b}) : a \in Judged, b \in Plain}

-----------------------------------------------------------------------------
\* RequestHandler.handle takes the first strategy that applies; the facades and the
\* optimizer are called by name.
Applicable(p, complexity, entities) ==
    CASE p \in {"direct", "thinking", "adaptive", "best_of_n"} -> TRUE
      [] p = "react"               -> complexity \in {"MEDIUM", "HIGH"}
      [] p = "evaluator_optimizer" -> complexity = "HIGH"
      [] p = "parallel"            -> complexity = "HIGH" /\ entities > 1

Selected(strategies, complexity, entities) ==
    SelectSeq(strategies, LAMBDA p : Applicable(p, complexity, entities))

ReasoningInit ==
    /\ pattern = "none" /\ drafts = <<>> /\ bestSoFar = NothingBest /\ worker = <<>>
    /\ refineLog = <<>> /\ outcome = Unanswered

Handle ==
    /\ pattern = "none" /\ outcome = Unanswered
    /\ \E strategies \in SeqOf(Strategies, 2), complexity \in {"LOW", "MEDIUM", "HIGH"},
          entities \in 0 .. MaxWorkers :
          LET able == Selected(strategies, complexity, entities)
          IN  IF able = <<>>
              THEN outcome' = Raised /\ UNCHANGED pattern   \* No applicable strategy found
              ELSE pattern' = Head(able) /\ UNCHANGED outcome
    /\ UNCHANGED <<drafts, bestSoFar, worker, refineLog>>

CallFacade ==
    /\ pattern = "none" /\ outcome = Unanswered
    /\ pattern' \in Facades
    /\ UNCHANGED <<drafts, bestSoFar, worker, refineLog, outcome>>

\* A route is an agent or a facade.
Routes == (Facades \ Routers) \union {"direct"}

\* Analyzer's route, or "_default"; without either, a KeyError.
Route ==
    /\ pattern = "router" /\ outcome = Unanswered
    /\ \/ pattern' \in Routes /\ UNCHANGED outcome
       \/ outcome' = Raised /\ UNCHANGED pattern
    /\ UNCHANGED <<drafts, bestSoFar, worker, refineLog>>

\* A known category: the option picked, or the first; else the fallback, or a KeyError.
RouteByCategory ==
    /\ pattern = "hierarchical_router" /\ outcome = Unanswered
    /\ \E known, fallback \in BOOLEAN :
          IF known \/ fallback THEN pattern' \in Routes /\ UNCHANGED outcome
                               ELSE outcome' = Raised /\ UNCHANGED pattern
    /\ UNCHANGED <<drafts, bestSoFar, worker, refineLog>>

-----------------------------------------------------------------------------
\* Loops: one call after the other; any of them may raise, which ends the request.

AtWork(p) == pattern = p /\ outcome = Unanswered

DraftOf(said, verdict) == [said |-> said, verdict |-> verdict]

LastRound == Len(drafts) + 1 = MaxRounds

\* An agent, a plan, a verifier, a vote or an aggregation.
CallRaises ==
    /\ pattern # "none" /\ outcome = Unanswered /\ WorkersAre("running") = {}
    /\ outcome' = Raised
    /\ UNCHANGED <<pattern, drafts, bestSoFar, worker, refineLog>>

SaidOnce(confidence) ==
    /\ \E said \in Said : outcome' = Returned(said, confidence)
    /\ UNCHANGED <<pattern, drafts, bestSoFar, worker, refineLog>>

DirectAnswer == AtWork("direct") /\ SaidOnce(100)

\* What stands between the answer tags, or all that was said.
ThinkingAnswer == AtWork("thinking") /\ SaidOnce(90)

\* By the model of the tier; without difficulty_fn it raises.
AdaptiveAnswer == AtWork("adaptive") /\ SaidOnce(95)

\* Each step gets what the one before it said.
ChainStep ==
    /\ AtWork("chain") /\ Len(drafts) < MaxRounds
    /\ \E said \in Said :
          /\ drafts' = Append(drafts, DraftOf(said, Rejected))
          /\ outcome' \in {outcome, Returned(said, 0)}
    /\ LastRound => outcome' # outcome
    /\ UNCHANGED <<pattern, bestSoFar, worker, refineLog>>

\* Until it says DONE; after the last step, whatever it said.
ReactStep ==
    /\ AtWork("react")
    /\ \E said \in Said :
          /\ drafts' = Append(drafts, DraftOf(said, Rejected))
          /\ outcome' = IF said \in Finals THEN Returned(said, 90)
                        ELSE IF LastRound THEN Returned(said, 50)
                        ELSE outcome
    /\ UNCHANGED <<pattern, bestSoFar, worker, refineLog>>

\* Mutant: a later draft that is as good takes the place of an earlier one.
ImprovedOrEqual(said, confidence) ==
    IF confidence >= bestSoFar.confidence
    THEN [said |-> said, confidence |-> confidence] ELSE bestSoFar

Improved(said, confidence) ==
    IF confidence > bestSoFar.confidence
    THEN [said |-> said, confidence |-> confidence] ELSE bestSoFar

\* Generate, verify, refine: the first draft that passes, or the best of all.
OptimizeRound ==
    /\ AtWork("evaluator_optimizer")
    /\ \E said \in Said, verdict \in Verdicts :
          /\ drafts' = Append(drafts, DraftOf(said, verdict))
          /\ bestSoFar' = Improved(said, verdict.confidence)
          /\ outcome' = IF verdict.passed THEN Returned(said, verdict.confidence)
                        ELSE IF LastRound THEN Returned(bestSoFar'.said, bestSoFar'.confidence)
                        ELSE outcome
    /\ UNCHANGED <<pattern, worker, refineLog>>

\* An event unless the first attempt passed: the feedback of each failed one.
Refined(verdict) ==
    LET failures == Len(drafts) + (IF verdict.passed THEN 0 ELSE 1)
    IN  IF failures = 0 THEN refineLog
        ELSE Append(refineLog, [refine_count |-> failures, passed |-> verdict.passed])

\* The facade keeps no best: when nothing passed, the last draft is the answer.
EvaluatorRound ==
    /\ AtWork("evaluator")
    /\ \E said \in Said, verdict \in Plain :
          /\ drafts' = Append(drafts, DraftOf(said, verdict))
          /\ IF verdict.passed \/ LastRound
             THEN outcome' = Returned(said, 0) /\ refineLog' = Refined(verdict)
             ELSE UNCHANGED <<outcome, refineLog>>
    /\ UNCHANGED <<pattern, bestSoFar, worker>>

\* The prompt optimizer scores the base prompt and then variants of its best.
ScorePrompt ==
    /\ AtWork("optimizer") /\ Len(drafts) < MaxRounds
    /\ \E prompt \in Said, score \in Scores :
          /\ drafts' = Append(drafts, DraftOf(prompt, Verdict(FALSE, score)))
          /\ bestSoFar' = IF drafts = <<>> THEN [said |-> prompt, confidence |-> score]
                          ELSE Improved(prompt, score)
    /\ UNCHANGED <<pattern, worker, refineLog, outcome>>

OptimizerReturns ==
    /\ AtWork("optimizer") /\ drafts # <<>>
    /\ outcome' = Returned(bestSoFar.said, bestSoFar.confidence)
    /\ UNCHANGED <<pattern, drafts, bestSoFar, worker, refineLog>>

-----------------------------------------------------------------------------
\* Side by side: gather (best-of-n) raises with the first failure and leaves the others
\* at work, a task group cancels them and waits, fan_out(collect) keeps the failure.

Grouped == {"fan_out", "orchestrator"}

StartWorkers(p, n) ==
    /\ AtWork(p) /\ worker = <<>>
    /\ worker' = [w \in 1 .. n |-> Running]
    /\ outcome' = IF n = 0 THEN Returned(<<>>, 0) ELSE outcome
    /\ UNCHANGED <<pattern, drafts, bestSoFar, refineLog>>

StartSubtasks == \E n \in 0 .. MaxWorkers : StartWorkers("parallel", n)

StartSamples == \E n \in 1 .. MaxWorkers : StartWorkers("best_of_n", n)

StartItems == \E n \in 0 .. MaxWorkers : StartWorkers("fan_out", n)

\* As many as the plan of the main agent has items.
StartPlanned == \E n \in 0 .. MaxWorkers : StartWorkers("orchestrator", n)

WorkerAnswers(w) ==
    /\ worker[w] = Running
    /\ \E said \in Said : worker' = [worker EXCEPT ![w] = Has(said)]
    /\ UNCHANGED <<pattern, drafts, bestSoFar, refineLog, outcome>>

WorkerFails(w) ==
    /\ worker[w] = Running /\ worker' = [worker EXCEPT ![w] = Failed]
    /\ outcome' = IF pattern = "best_of_n" THEN Raised ELSE outcome
    /\ UNCHANGED <<pattern, drafts, bestSoFar, refineLog>>

CancelWorker(w) ==
    /\ pattern \in Grouped /\ worker[w] = Running /\ WorkersAre("failed") # {}
    /\ worker' = [worker EXCEPT ![w] = Canceled]
    /\ UNCHANGED <<pattern, drafts, bestSoFar, refineLog, outcome>>

Counted(said) == Cardinality({w \in DOMAIN worker : worker[w] = Has(said)})

\* Counter.most_common and sorted keep the first of equals.
FirstBest(value) ==
    worker[CHOOSE w \in DOMAIN worker :
             /\ \A u \in DOMAIN worker : value[worker[u].said] <= value[worker[w].said]
             /\ \A u \in 1 .. w - 1 : value[worker[u].said] < value[worker[w].said]].said

\* The answers that there are, in the order of their tasks.
InOrder ==
    LET answered == SelectSeq(worker, LAMBDA x : x.is = "done")
    IN  [n \in DOMAIN answered |-> answered[n].said]

AllEnded(p) ==
    /\ AtWork(p) /\ worker # <<>> /\ WorkersAre("running") = {}
    /\ UNCHANGED <<pattern, drafts, bestSoFar, worker, refineLog>>

Vote ==
    /\ AllEnded("best_of_n")
    /\ \/ LET winner == FirstBest([s \in Said |-> Counted(s)])    \* majority
          IN  outcome' = Returned(winner, (100 * Counted(winner)) \div Len(worker))
       \/ \E score_fn \in [Said -> Scores] :
             LET winner == FirstBest(score_fn)
             IN  outcome' = Returned(winner, score_fn[winner])

\* The group has the result of each task, or raises.
GroupEnds ==
    outcome' = IF WorkersAre("failed") = {}
               THEN Returned([w \in DOMAIN worker |-> worker[w].said], 0) ELSE Raised

JoinItems == AllEnded("fan_out") /\ GroupEnds

Aggregate == AllEnded("orchestrator") /\ GroupEnds

CombineSubtasks ==
    /\ AllEnded("parallel")
    /\ \E verdict \in Verdicts :
          outcome' = Returned(InOrder, IF verdict.passed THEN verdict.confidence
                                       ELSE verdict.confidence \div 2)

ReasoningNext ==
    \/ Handle \/ CallFacade \/ Route \/ RouteByCategory \/ CallRaises
    \/ DirectAnswer \/ ThinkingAnswer \/ AdaptiveAnswer
    \/ ChainStep \/ ReactStep \/ OptimizeRound \/ EvaluatorRound \/ ScorePrompt \/ OptimizerReturns
    \/ StartSubtasks \/ StartSamples \/ StartItems \/ StartPlanned
    \/ Vote \/ JoinItems \/ Aggregate \/ CombineSubtasks
    \/ \E w \in DOMAIN worker : WorkerAnswers(w) \/ WorkerFails(w) \/ CancelWorker(w)

ReasoningSpec == ReasoningInit /\ [][ReasoningNext]_reasoningVars

-----------------------------------------------------------------------------
\* The first of some drafts that no other is judged better than.
Leads(n, ds) ==
    /\ \A m \in DOMAIN ds : ds[m].verdict.confidence <= ds[n].verdict.confidence
    /\ \A m \in 1 .. n - 1 : ds[m].verdict.confidence < ds[n].verdict.confidence

Leader == drafts[CHOOSE n \in DOMAIN drafts : Leads(n, drafts)]

\* A loop ends with the first draft that passes.  Without one, the answer of
\* EvaluatorOptimizerStrategy is the first draft that was judged best, or empty when
\* all were judged 0; the Evaluator's is the last, and it has logged one event that
\* counts its failures; the optimizer's is the first prompt with the best score.
LoopReturnsTheBest ==
    outcome.status = "returned" /\ drafts # <<>> =>
        LET last   == Last(drafts)
            passed == {n \in DOMAIN drafts : drafts[n].verdict.passed}
        IN  /\ passed \subseteq {Len(drafts)}
            /\ pattern = "evaluator_optimizer" =>
                  outcome.content = IF last.verdict.passed THEN last.said
                                    ELSE IF Leader.verdict.confidence = 0 THEN NothingSaid
                                    ELSE Leader.said
            /\ pattern = "evaluator" =>
                  /\ outcome.content = last.said
                  /\ Len(refineLog) = (IF drafts[1].verdict.passed THEN 0 ELSE 1)
                  /\ \A e \in ToSet(refineLog) :
                        e.refine_count = Cardinality(DOMAIN drafts \ passed)
            /\ pattern = "optimizer" => outcome.content = Leader.said
            /\ pattern \in {"react", "chain"} => outcome.content = last.said
            /\ pattern = "react" =>
                  \A n \in 1 .. Len(drafts) - 1 : drafts[n].said \notin Finals

\* Whoever waits for workers gets the answers in the order of the tasks, whatever order
\* they came in, of all workers unless failures are collected; and only the samples
\* that best-of-n gathers may still be at work when the request has ended.
WorkersAreAwaited ==
    /\ outcome.status # "open" /\ WorkersAre("running") # {} =>
          pattern = "best_of_n" /\ outcome.status = "raised"
    /\ outcome.status = "returned" /\ pattern \in Grouped =>
          /\ DOMAIN outcome.content = DOMAIN worker
          /\ \A w \in DOMAIN worker : worker[w] = Has(outcome.content[w])
    /\ outcome.status = "returned" /\ pattern = "best_of_n" =>
          \E w \in DOMAIN worker : worker[w] = Has(outcome.content)

\* A request gets the answer its pattern promises.
AnswerIsTheBest == LoopReturnsTheBest /\ WorkersAreAwaited
=============================================================================
