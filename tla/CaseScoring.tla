----------------------------- MODULE CaseScoring -----------------------------
(*******************************************************************************)
(* How an evaluation case gets its verdict: the target that wraps the model    *)
(* of a CRUD-matrix suite (CrudMatrixTarget), its scorer (CRUDOpsMatch), the   *)
(* scorers a case may bring along (build_scorers), and the metrics of the      *)
(* oracle fixtures (compute_metrics).                                          *)
(*                                                                             *)
(* A matrix is a sequence of cells, each a key (entity and field as they are   *)
(* spelled) and an op as it is spelled, each key once; Canon and Letters are   *)
(* what the normalisers make of the spellings.  Documents hold a matrix in     *)
(* one of the shapes that prompts, fixtures and case files have used:          *)
(*   "list"    {cells: [{entity, column, op}]}                                 *)
(*   "cells"   {cells: {entity: {field: {op}}}}                                *)
(*   "nested"  {entity: {field: {op}}}                                         *)
(*   "flat"    {"entity::field": op}                                           *)
(* and the middle two possibly under one leaked wrapper key.                   *)
(*******************************************************************************)
EXTENDS Naturals, Sequences, FiniteSets, FiniteSetsExt, SequencesExt

CONSTANTS Spelled,       \* keys as spelled: <<entity, field>>
          Canon,         \* entity and field normalised, for each
          OpTexts, NoOp, \* ops as spelled; NoOp is the empty one
          Letters,       \* set of C, R, U, D that each stands for
          Known,         \* route context: fields of each entity, normalised
          MaxCells,      \* bound of the run
          Threshold,     \* percent: of CRUDOpsMatch
          JudgeScores,   \* percent: that a judge may give, and ...
          JudgeThreshold \* ... that it takes to pass

ASSUME ScoringAssumption ==
    /\ Spelled = DOMAIN Canon /\ OpTexts = DOMAIN Letters
    /\ NoOp \in OpTexts /\ Letters[NoOp] = {}
    /\ MaxCells \in Nat /\ Threshold \in 1 .. 100
    /\ JudgeScores \subseteq 0 .. 100 /\ JudgeThreshold \in 0 .. 100

Entity(k) == k[1]
Field(k)  == k[2]

\* As JSON objects list them: an entity's cells stand together.
Matrices == {m \in SeqOf([key : Spelled, op : OpTexts], MaxCells) :
                /\ \A i, j \in DOMAIN m : m[i].key = m[j].key => i = j
                /\ \A i, j, k \in DOMAIN m :
                      i < j /\ j < k /\ Entity(m[i].key) = Entity(m[k].key)
                          => Entity(m[j].key) = Entity(m[i].key)}

Documents ==
    {d \in [shape : {"list", "cells", "nested", "flat"}, wrapped : BOOLEAN, cells : Matrices] :
        d.wrapped => d.shape \in {"cells", "nested"} /\ d.cells # <<>>}

VARIABLES phase,      \* "cased", "answered" or "scored"; "measured" for a fixture
          expected,   \* the case's expected document
          answer,     \* what the target made of the model's answer
          verdict     \* scores and outcome

scoringVars == <<phase, expected, answer, verdict>>

NoAnswer  == [kind |-> "none", cells |-> <<>>, error |-> FALSE, trace |-> <<0, 0>>]
NoVerdict == [by |-> "nothing", score |-> <<0, 0>>, passed |-> FALSE, forbidden |-> FALSE]

ScoringInit ==
    /\ phase = "cased"
    /\ expected \in Documents
    /\ answer = NoAnswer /\ verdict = NoVerdict

\* Normalising and comparing ----------------------------------------------

WithOp(m) == SelectSeq(m, LAMBDA c : c.op # NoOp)

\* normalize_flat_ops: of the cells that come down to one key the last one stays.
Canonical(m) ==
    LET named(k) == {i \in DOMAIN m : Canon[m[i].key] = k}
    IN  [k \in {Canon[m[i].key] : i \in DOMAIN m} |-> Letters[m[Max(named(k))].op]]

\* Matched keys and all keys.
Agreement(e, a) ==
    <<Cardinality({k \in DOMAIN e \intersect DOMAIN a : e[k] = a[k]}),
      Cardinality(DOMAIN e \union DOMAIN a)>>

\* The target -------------------------------------------------------------

\* _flatten_expected of the target: any shape but the flat one, the wrapper removed.
FlattenExpected(d) == IF d.shape = "flat" THEN <<>> ELSE WithOp(d.cells)

\* _flatten_obj of the answer: a map from entities to fields and nothing else.
FlattenAnswer(d) == IF d.shape = "nested" /\ ~d.wrapped THEN WithOp(d.cells) ELSE <<>>

TraceOf(m) == Agreement(Canonical(FlattenExpected(expected)), Canonical(m))

\* The model answers in prose, or not at all; only prose is a parse failure.
AnswerText(kind) ==
    answer' = [NoAnswer EXCEPT !.kind = kind, !.error = kind = "prose", !.trace = TraceOf(<<>>)]

AnswerDocument(d) ==
    answer' = [NoAnswer EXCEPT !.kind  = "document",
                               !.cells = FlattenAnswer(d),
                               !.trace = TraceOf(FlattenAnswer(d))]

RunTarget ==
    /\ phase = "cased" /\ phase' = "answered"
    /\ \/ \E kind \in {"prose", "blank"} : AnswerText(kind)
       \/ \E d \in Documents : AnswerDocument(d)
    /\ UNCHANGED <<expected, verdict>>

\* The scorers --------------------------------------------------------------

\* Mutant: a document whose cells are nested is not looked into.
ToFlatOpsListOnly(d) == IF d.shape = "cells" THEN <<>> ELSE WithOp(d.cells)

\* _to_flat_ops of the scorer, which is given the case as it was before the target: it
\* knows the flat shape and does not remove a wrapper.
ToFlatOps(d) ==
    IF d.wrapped THEN <<>> ELSE IF d.shape = "flat" THEN d.cells ELSE WithOp(d.cells)

\* CRUDOpsMatch.score: two empty matrices agree.
OpsScore ==
    LET s == Agreement(Canonical(ToFlatOps(expected)), Canonical(answer.cells))
    IN  IF s[2] = 0 THEN <<1, 1>> ELSE s

AtLeast(s, percent) == s[1] * 100 >= percent * s[2]

\* A case passes without an error and with every scorer of the list.
Decide(by, score, ok, forbidden) ==
    /\ phase = "answered" /\ phase' = "scored"
    /\ verdict' = [by |-> by, score |-> score, passed |-> ok /\ ~answer.error,
                   forbidden |-> forbidden]
    /\ UNCHANGED <<expected, answer>>

ScoreBySuite == Decide("suite", OpsScore, AtLeast(OpsScore, Threshold), FALSE)

\* What a judge replies: JSON, with or without a score and a verdict; a score in prose;
\* one of two keywords; or nothing of it.
Replies ==
    [form : {"json"}, score : JudgeScores, passed : {"true", "false", "absent"}]
        \union [form : {"prose"}, score : JudgeScores, passed : {"absent"}]
        \union [form : {"pass", "fail", "unparseable"}, score : {0}, passed : {"absent"}]

\* _parse_judge_response: a verdict of the reply counts, whatever its score.
Judgement(reply) ==
    CASE reply.form \in {"json", "prose"} ->
            [score |-> reply.score, passed |-> IF reply.passed = "absent"
                                               THEN reply.score >= JudgeThreshold
                                               ELSE reply.passed = "true"]
      [] reply.form = "pass" -> [score |-> 100, passed |-> TRUE]
      [] OTHER               -> [score |-> 0, passed |-> FALSE]

\* LLMJudge.score: of one criterion the verdict; of two the mean or the least of their
\* scores against the threshold, or all their verdicts.
JudgedBy(replies, aggregate) ==
    LET r == [i \in DOMAIN replies |-> Judgement(replies[i])]
        scores == {r[i].score : i \in DOMAIN r}
    IN  IF Len(replies) = 1 THEN r[1].passed
        ELSE CASE aggregate = "all" -> \A i \in DOMAIN r : r[i].passed
               [] aggregate = "min" -> Min(scores) >= JudgeThreshold
               [] aggregate = "avg" -> r[1].score + r[2].score >= 2 * JudgeThreshold

JudgeVerdicts == {JudgedBy(replies, aggregate) : replies \in SeqOf(Replies, 2) \ {<<>>},
                                                 aggregate \in {"avg", "min", "all"}}

Combine(combine, oks) ==
    IF combine = "or" THEN \E i \in DOMAIN oks : oks[i] ELSE \A i \in DOMAIN oks : oks[i]

\* build_scorers: the combination, and outside of it the forbidden texts.
AllPass(combine, oks, clean) == Combine(combine, oks) /\ clean

\* A case with a scoring spec of its own: a deterministic scorer (ExactMatch, Contains,
\* Regex, Constraint or Threshold), a judge, or both.  The scores are not kept here.
ScoreBySpec ==
    \E plain \in BOOLEAN, judge \in JudgeVerdicts, combine \in {"none", "and", "or"},
       clean \in BOOLEAN :
        \E oks \in {<<plain>>, <<judge>>, <<plain, judge>>} :
            Decide("spec", <<0, 1>>, AllPass(combine, oks, clean), ~clean)

\* An unusable spec raises while the case is scored: it fails with that error.
SpecIsInvalid == Decide("error", <<0, 1>>, FALSE, FALSE)

\* The metrics of the fixtures ---------------------------------------------

\* exp and act of _compute_route_metrics: of the spellings of an entity the last one
\* stays, with all its fields, and of the spellings of a field there the last one.
Tabled(m) ==
    LET winner(e) == Entity(m[Max({i \in DOMAIN m : Entity(Canon[m[i].key]) = e})].key)
        own       == {c \in Range(m) : Entity(c.key) = winner(Entity(Canon[c.key]))}
        named(k)  == {i \in DOMAIN m : m[i] \in own /\ Canon[m[i].key] = k}
    IN  [k \in {Canon[c.key] : c \in own} |-> Letters[m[Max(named(k))].op]]

\* No fields known of an entity is no vocabulary: nothing of it is made up.
MadeUp(k) == Entity(k) \in DOMAIN Known /\ Known[Entity(k)] # {} /\ Field(k) \notin Known[Entity(k)]

\* The counts that the rates are made of; tp + fp is all of act.
Metrics(exp, act) ==
    LET sound == {k \in DOMAIN act : ~MadeUp(k)}
        named == sound \intersect DOMAIN exp
        tp    == Cardinality({k \in named : act[k] = exp[k]})
    IN  [tp |-> tp, fp |-> Cardinality(DOMAIN act) - tp,
         fn |-> Cardinality(DOMAIN exp \ DOMAIN act),
         hallucinated |-> Cardinality(DOMAIN act \ sound), named |-> Cardinality(named),
         actual |-> Cardinality(DOMAIN act), expected |-> Cardinality(DOMAIN exp)]

\* The gate of a route: precision and recall of 85 percent, at most 5 percent made up.
GateOpens(n) ==
    /\ n.tp > 0
    /\ 100 * n.tp >= 85 * n.actual /\ 100 * n.tp >= 85 * n.expected
    /\ 100 * n.hallucinated <= 5 * n.actual

\* A fixture holds a bare nested matrix.  Without a target the runner measures the
\* fixture against itself.
MeasureFixture ==
    /\ phase = "cased" /\ expected.shape = "nested" /\ ~expected.wrapped
    /\ phase' = "measured"
    /\ \E m \in Matrices :
          LET n == Metrics(Tabled(expected.cells), Tabled(m))
          IN  /\ answer'  = [NoAnswer EXCEPT !.kind = "production", !.cells = m]
              /\ verdict' = [by |-> "metrics", counts |-> n, passed |-> GateOpens(n)]
    /\ UNCHANGED expected

\* StructuredScorer, for a suite whose output and expectation are bare nested matrices:
\* counted like a fixture, and F1 against a threshold.  Without op of their own, cells
\* count here.
ScoreStructured ==
    /\ phase = "cased" /\ expected.shape = "nested" /\ ~expected.wrapped
    /\ phase' = "scored"
    /\ \E m \in Matrices :
          LET n == Metrics(Tabled(expected.cells), Tabled(m))
          IN  /\ answer'  = [NoAnswer EXCEPT !.kind = "document", !.cells = m]
              /\ verdict' = [by     |-> "structured", counts |-> n,
                             passed |-> n.tp > 0 /\ AtLeast(<<2 * n.tp, n.actual + n.expected>>,
                                                            Threshold)]
    /\ UNCHANGED expected

\* ... and an output that is no JSON.
StructuredUnreadable ==
    /\ phase = "cased" /\ phase' = "scored"
    /\ answer' = [NoAnswer EXCEPT !.kind = "prose"]
    /\ verdict' = [NoVerdict EXCEPT !.by = "unreadable"]
    /\ UNCHANGED expected

ScoringNext ==
    \/ RunTarget
    \/ ScoreBySuite \/ ScoreBySpec \/ SpecIsInvalid
    \/ MeasureFixture \/ ScoreStructured \/ StructuredUnreadable

ScoringSpec == ScoringInit /\ [][ScoringNext]_scoringVars

-----------------------------------------------------------------------------
\* The comparison step of the trace and the score are computed by two modules from
\* differently prepared documents; they tell the same story of every case whose
\* expectation is neither flat nor under a leaked wrapper (target.py: the trace count
\* agrees with the score).
TraceAgreesWithScore ==
    verdict.by = "suite" /\ ~expected.wrapped /\ expected.shape # "flat" =>
        verdict.score = IF answer.trace[2] = 0 THEN <<1, 1>> ELSE answer.trace

\* All its ops say something, no entity is spelled twice, and all fields are known.
Plain(m) ==
    /\ WithOp(m) = m
    /\ \A i, j \in DOMAIN m :
          Entity(Canon[m[i].key]) = Entity(Canon[m[j].key])
              => Entity(m[i].key) = Entity(m[j].key)
    /\ \A i \in DOMAIN m : ~MadeUp(Canon[m[i].key])

\* The suite's score and the metrics of fixtures and of structured suites, which go
\* different ways from spellings to cells, count the same agreement of a plain answer
\* with a plain expectation.
MetricsAgreeWithScore ==
    verdict.by \in {"metrics", "structured"} /\ Plain(expected.cells) /\ Plain(answer.cells) =>
        LET n == verdict.counts
        IN  Agreement(Canonical(ToFlatOps(expected)), Canonical(answer.cells))
              = <<n.tp, n.actual + n.expected - n.named>>

\* The three ways in which a case is counted tell the same story (both of the above).
CountsAgree == TraceAgreesWithScore /\ MetricsAgreeWithScore
=============================================================================
