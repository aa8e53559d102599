---------------------------- MODULE MCEvalParts -----------------------------
(******************************************************************************)
(* Eight parts of the evaluation server and its pages, which share no state   *)
(* here and are checked by one run: a behaviour is one of the part that it    *)
(* names, while the others stay as they began.  What a run, a review and a    *)
(* case go through is in EvalRuns and EvalStudio.                             *)
(*                                                                            *)
(* CaseScoring gets four spellings of three cells of two entities, one of     *)
(* them with a vocabulary that lacks a field.                                 *)
(******************************************************************************)
EXTENDS CaseScoring, PromptVersions, SuiteConfig, RunArchive, ProjectMirror, OracleRuns,
        QueryCache, StudioDraft, TLC

VARIABLE part

MCCanon ==
    <<"Order", "customerId">>  :> <<"order", "customerid">> @@
    <<"order", "customer_id">> :> <<"order", "customerid">> @@
    <<"Order", "status">>      :> <<"order", "status">> @@
    <<"User", "email">>        :> <<"user", "email">>

MCSpelled == DOMAIN MCCanon

MCLetters == "" :> {} @@ "RC" :> {"C", "R"} @@ "C" :> {"C"}

MCOpTexts == DOMAIN MCLetters

MCKnown == "order" :> {"customerid"} @@ "user" :> {}

\* Fixtures are named by nothing but their ids.
MCSymmetry == Permutations(Fixtures)

\* What a part that does not move in this behaviour looks like.
Resting(p) == part # p

Init ==
    /\ part \in {"scoring", "prompts", "config", "archive", "mirror", "oracle", "cache",
                "draft"}
    /\ ScoringInit
    /\ Resting("scoring") => expected = [shape |-> "nested", wrapped |-> FALSE, cells |-> <<>>]
    /\ PromptInit
    /\ Resting("prompts") => promptStore = "memory" /\ \A v \in Versions : row[v] = NoRow
    /\ OracleInit
    /\ Resting("oracle") => schema = "none"
    /\ CacheInit
    /\ Resting("cache") => watched = "suites"
    /\ StudioInit
    /\ ConfigInit /\ ArchiveInit /\ MirrorInit

OthersRest ==
    /\ UNCHANGED part
    /\ IF part = "scoring" THEN TRUE ELSE UNCHANGED scoringVars
    /\ IF part = "prompts" THEN TRUE ELSE UNCHANGED promptVars
    /\ IF part = "config"  THEN TRUE ELSE UNCHANGED configVars
    /\ IF part = "archive" THEN TRUE ELSE UNCHANGED archiveVars
    /\ IF part = "mirror"  THEN TRUE ELSE UNCHANGED mirrorVars
    /\ IF part = "oracle"  THEN TRUE ELSE UNCHANGED oracleVars
    /\ IF part = "cache"   THEN TRUE ELSE UNCHANGED cacheVars
    /\ IF part = "draft"   THEN TRUE ELSE UNCHANGED studioVars

Next ==
    \/ part = "scoring" /\ ScoringNext /\ OthersRest
    \/ part = "prompts" /\ PromptNext  /\ OthersRest
    \/ part = "config"  /\ ConfigNext  /\ OthersRest
    \/ part = "archive" /\ ArchiveNext /\ OthersRest
    \/ part = "mirror"  /\ MirrorNext  /\ OthersRest
    \/ part = "oracle"  /\ OracleNext  /\ OthersRest
    \/ part = "cache"   /\ CacheNext   /\ OthersRest
    \/ part = "draft"   /\ StudioNext  /\ OthersRest

Spec == Init /\ [][Next]_<<part, scoringVars, promptVars, configVars, archiveVars, mirrorVars,
                           oracleVars, cacheVars, studioVars>>

\* What the studio answers, keeps and shows is the work that was done: structured
\* output hides no answer (router.py run_with_arbitrary_prompt), an expectation
\* was run for its fixture, and no written prompt is lost (OracleReviewPage.tsx).
StudioKeepsItsWord == ForceIsNeverTheLastWord /\ ExpectationIsOwn /\ DraftsAreKept
=============================================================================
