------------------------------ MODULE QueryCache ------------------------------
(*******************************************************************************)
(* The client side of the evaluation pages: the queries and mutations of       *)
(* api/hooks.ts over the query cache of TanStack Query, as the pages ship it   *)
(* (dist/assets/query-2jX299At.js), and the pages that use them.               *)
(*                                                                             *)
(* One browser and one suite.  Entries of the cache do not touch each other,   *)
(* so a behaviour watches one query.  What the server holds is a number for    *)
(* each facet that this query reads, counting the changes.                     *)
(*******************************************************************************)
EXTENDS Naturals, FiniteSets

CONSTANTS
    MaxMutations, \* bound: changes made in this browser
    MaxElsewhere, \* bound: changes made by others, by runs that end among them
    MaxPages      \* bound: pages opened

ASSUME QueryCacheAssumption == {MaxMutations, MaxElsewhere, MaxPages} \subseteq Nat

VARIABLES
    watched,  \* the query this behaviour is about
    facet,    \* the server: how often each facet the query reads has changed
    entry,    \* the entry of the watched query in the cache
    page,     \* the page that is open
    mutation, \* the mutation that is under way
    own,      \* what this page has changed since it is open: facet -> count, by what,
              \* and whether a first answer was on its way that was not asked for again
    spent     \* mutations, changes elsewhere and pages so far

cacheVars == <<watched, facet, entry, page, mutation, own, spent>>

-----------------------------------------------------------------------------
\* What a query asks for.  The list of fixtures is asked for by suite.
SuiteReads == [q \in {"suites", "suite"} |-> {"meta", "cases"} \cup IF q = "suite" THEN {"runs"} ELSE {}]
CaseReads == [q \in {"cases", "provenance"} |-> {"cases"} \cup IF q = "provenance" THEN {"fixtures"} ELSE {}]
RunReads == [q \in {"lastRun", "runHistory"} |-> {"runs"}]
VersionReads == [q \in {"versions", "activeVersion"} |-> {"versions"}]
OracleReads == [q \in {"fixtures", "fixture", "oracleRuns"} |->
                   IF q = "oracleRuns" THEN {"oracleRuns"} ELSE {"fixtures"}]
PromoteReads == [q \in {"promotes", "promotesAll"} |-> {"promotes"}]
ProjectReads == [q \in {"projects", "project"} |-> {"mirror"}]

Queries == UNION {DOMAIN SuiteReads, DOMAIN CaseReads, DOMAIN RunReads, DOMAIN VersionReads,
                  DOMAIN OracleReads, DOMAIN PromoteReads, DOMAIN ProjectReads}

Reads == [q \in Queries |->
    CASE q \in DOMAIN SuiteReads   -> SuiteReads[q]
      [] q \in DOMAIN CaseReads    -> CaseReads[q]
      [] q \in DOMAIN RunReads     -> RunReads[q]
      [] q \in DOMAIN VersionReads -> VersionReads[q]
      [] q \in DOMAIN OracleReads  -> OracleReads[q]
      [] q \in DOMAIN PromoteReads -> PromoteReads[q]
      [] q \in DOMAIN ProjectReads -> ProjectReads[q]]

\* The queries of a page; the project switcher stands on all of them.
Mounted(p) ==
    {"projects"} \cup
    CASE p = "dashboard" -> {"suites", "project"}
      [] p = "suite"     -> {"suite", "cases", "lastRun", "runHistory", "versions", "activeVersion"}
      [] p = "studio"    -> {"suites", "fixtures", "fixture", "activeVersion", "oracleRuns",
                             "promotes", "promotesAll"}
      [] p = "case"      -> {"provenance"}
Screens == {"dashboard", "suite", "studio", "case"}

\* The mutations that can be made on a page.
Buttons(p) ==
    {"syncProject"} \cup
    CASE p = "suite"  -> {"createCase", "updateCase", "deleteCase", "saveDefaultPrompt",
                          "saveVersion", "promoteVersion", "setStatus"}
      [] p = "studio" -> {"createSuite", "updateSuite", "deleteSuite", "saveVersion",
                          "promoteVersion", "review", "generate", "deleteFixture",
                          "saveStudio", "runWithPrompt", "promote"}
      [] OTHER        -> {}

\* What the server changes for a mutation.
Writes(m) ==
    CASE m \in {"saveDefaultPrompt", "createSuite", "updateSuite"} -> {"meta"}
      [] m \in {"saveVersion", "promoteVersion", "setStatus"}      -> {"versions"}
      [] m \in {"createCase", "updateCase", "deleteCase"}          -> {"cases"}
      [] m \in {"review", "generate", "deleteFixture", "saveStudio"} -> {"fixtures"}
      [] m = "deleteSuite"   -> {"meta", "cases"}
      [] m = "syncProject"   -> {"mirror", "cases"}
      [] m = "runWithPrompt" -> {"oracleRuns"}
      [] m = "promote"       -> {"promotes", "cases"}

SuiteInvalidates(m) ==
    CASE m = "saveDefaultPrompt"                -> {"suite"}
      [] m \in {"createSuite", "deleteSuite"}   -> {"suites"}
      [] m = "updateSuite"                      -> {"suites", "suite"}
      [] OTHER                                  -> {}

\* ["prompt-versions", suiteId] is the beginning of the active version's key too.
VersionInvalidates(m) ==
    IF m \in {"saveVersion", "promoteVersion", "setStatus"}
    THEN {"versions", "activeVersion"} ELSE {}

CaseInvalidates(m) ==
    CASE m = "createCase"                      -> {"cases", "suite"}
      [] m \in {"updateCase", "deleteCase"}    -> {"cases"}
      [] OTHER                                 -> {}

ProjectInvalidates(m) == IF m = "syncProject" THEN {"project", "projects", "suites"} ELSE {}

\* Mutant of ReviewInvalidates: ["oracle-fixtures"] taken as a whole key.
ReviewInvalidatesExactly(m) == IF m = "review" THEN {"fixture"} ELSE {}

\* ["oracle-fixtures"] is the beginning of the keys of all suites' lists.
ReviewInvalidates(m) == IF m = "review" THEN {"fixture", "fixtures"} ELSE {}

StudioInvalidates(m) ==
    CASE m \in {"generate", "deleteFixture"} -> {"fixtures"}
      [] m = "saveStudio"                    -> {"fixtures", "fixture"}
      [] m = "runWithPrompt"                 -> {"oracleRuns"}
      [] m = "promote"                       -> {"promotes"}
      [] OTHER                               -> {}

Invalidates(m) ==
    UNION {SuiteInvalidates(m), VersionInvalidates(m), CaseInvalidates(m), ProjectInvalidates(m),
           ReviewInvalidates(m), StudioInvalidates(m)}

-----------------------------------------------------------------------------
NoMutation == [name |-> "none", at |-> "idle"]
Watched == Reads[watched]
Untouched == [f \in Watched |-> 0]
NothingOwn == [f \in Watched |-> [count |-> 0, by |-> "none", crossed |-> FALSE]]

\* first: what is there came with the first fetch.
NoEntry == [has |-> FALSE, seen |-> Untouched, first |-> FALSE, invalid |-> FALSE,
            fetch |-> "none", got |-> Untouched, failed |-> FALSE]

CacheInit ==
    /\ watched \in Queries
    /\ facet = Untouched
    /\ entry = NoEntry
    /\ page = "none"
    /\ mutation = NoMutation
    /\ own = NothingOwn
    /\ spent = [mutations |-> 0, elsewhere |-> 0, pages |-> 0]

OnScreen == page # "none" /\ watched \in Mounted(page)

Asked == [entry EXCEPT !.fetch = "asked", !.failed = FALSE]

\* The fetch that is under way is the first: there is nothing to show yet.
FirstIsUnderWay == entry.fetch # "none" /\ ~entry.has

\* invalidateQueries: what is shown is fetched again, and a fetch that was under
\* way is given up for the new one; but Query.fetch joins a first fetch.
Invalidated == [IF OnScreen /\ ~FirstIsUnderWay THEN Asked ELSE entry EXCEPT !.invalid = TRUE]

\* A page is opened: what it shows is fetched if there is none, if it was
\* invalidated, or if it is older than staleTime, which it may be.  A fetch that
\* is under way is joined.
OpenPage(p) ==
    /\ page # p /\ spent.pages < MaxPages /\ mutation = NoMutation
    /\ spent' = [spent EXCEPT !.pages = @ + 1]
    /\ page' = p
    /\ own' = NothingOwn
    /\ \E old \in BOOLEAN :
          entry' = IF /\ watched \in Mounted(p) /\ entry.fetch = "none"
                      /\ ~entry.has \/ entry.invalid \/ old
                   THEN Asked ELSE entry
    /\ UNCHANGED <<watched, facet, mutation>>

\* The server answers with what it has; the answer arrives later.
ServerAnswers ==
    /\ entry.fetch = "asked"
    /\ entry' = [entry EXCEPT !.fetch = "answered", !.got = facet]
    /\ UNCHANGED <<watched, facet, page, mutation, own, spent>>

\* The answer takes the place of what was there, and the entry is valid again,
\* also when it was invalidated after the server had answered.
AnswerArrives ==
    /\ entry.fetch = "answered"
    /\ entry' = [NoEntry EXCEPT !.has = TRUE, !.seen = entry.got, !.first = ~entry.has]
    /\ UNCHANGED <<watched, facet, page, mutation, own, spent>>

\* The fetch and its one retry fail: what was there stays, invalid, but the lookup
\* of the active version takes any failure for "none is live".
FetchFails ==
    /\ entry.fetch = "asked"
    /\ entry' = IF watched = "activeVersion" THEN [NoEntry EXCEPT !.has = TRUE, !.failed = TRUE]
                ELSE [entry EXCEPT !.fetch = "none", !.failed = TRUE, !.invalid = TRUE]
    /\ UNCHANGED <<watched, facet, page, mutation, own, spent>>

PressButton(m) ==
    /\ page # "none" /\ m \in Buttons(page)
    /\ mutation = NoMutation /\ spent.mutations < MaxMutations
    /\ spent' = [spent EXCEPT !.mutations = @ + 1]
    /\ mutation' = [name |-> m, at |-> "sent"]
    /\ UNCHANGED <<watched, facet, entry, page, own>>

ServerApplies ==
    /\ mutation.at = "sent"
    /\ facet' = [f \in Watched |-> IF f \in Writes(mutation.name) THEN facet[f] + 1 ELSE facet[f]]
    /\ mutation' = [mutation EXCEPT !.at = "applied"]
    /\ UNCHANGED <<watched, entry, page, own, spent>>

\* onSuccess: the queries that the mutation names are invalidated.
MutationSucceeds ==
    LET m == mutation.name
    IN  /\ mutation.at = "applied"
        /\ mutation' = NoMutation
        /\ entry' = IF watched \in Invalidates(m) THEN Invalidated ELSE entry
        /\ own' = [f \in Watched |->
                      IF f \notin Writes(m) THEN own[f]
                      ELSE [count |-> facet[f], by |-> m,
                            crossed |-> FirstIsUnderWay /\ entry.fetch = "answered"]]
        /\ UNCHANGED <<watched, facet, page, spent>>

\* The request fails, before or after it took effect.
MutationFails ==
    /\ mutation # NoMutation
    /\ mutation' = NoMutation
    /\ UNCHANGED <<watched, facet, entry, page, own, spent>>

ChangedElsewhere ==
    /\ spent.elsewhere < MaxElsewhere
    /\ spent' = [spent EXCEPT !.elsewhere = @ + 1]
    /\ \E f \in Watched : facet' = [facet EXCEPT ![f] = @ + 1]
    /\ UNCHANGED <<watched, entry, page, mutation, own>>

CacheNext ==
    \/ \E p \in Screens : OpenPage(p) \/ \E m \in Buttons(p) : PressButton(m)
    \/ ServerAnswers \/ AnswerArrives \/ FetchFails
    \/ ServerApplies \/ MutationSucceeds \/ MutationFails
    \/ ChangedElsewhere

CacheSpec == CacheInit /\ [][CacheNext]_cacheVars

-----------------------------------------------------------------------------
(* Properties.                                                                 *)

\* Mutations that leave a query of their own page as it was (section 6 of the
\* README): the page shows the old answer until it is opened again.
Forgotten ==
    {<<"updateCase", "suite">>, <<"deleteCase", "suite">>, <<"syncProject", "suite">>,
     <<"syncProject", "cases">>, <<"syncProject", "provenance">>,
     <<"generate", "fixture">>, <<"deleteFixture", "fixture">>,
     <<"promote", "promotesAll">>, <<"promote", "suites">>}

\* What a page has changed it shows once its fetches have come back, whatever
\* was under way when the button was pressed and whatever others changed; but for
\* a change that was made while the page was loading, when the server had already
\* answered the first fetch: that answer stays until the next fetch.
OwnChangesAreShown ==
    OnScreen /\ entry.has /\ entry.fetch = "none" /\ ~entry.failed =>
        \A f \in Watched : \/ entry.seen[f] >= own[f].count
                           \/ <<own[f].by, watched>> \in Forgotten
                           \/ own[f].crossed /\ entry.first
=============================================================================
