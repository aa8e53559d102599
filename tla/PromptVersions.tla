--------------------------- MODULE PromptVersions ---------------------------
(*******************************************************************************)
(* The versions of a suite's system prompt: the two prompt stores              *)
(* (InMemoryPromptStore, PostgresPromptStore), the endpoints above them and    *)
(* the pages (PromptVersionsPanel, the Input tab of the oracle studio) that    *)
(* look at copies of what they hold.                                           *)
(*                                                                             *)
(* A request takes effect after the click that sent it, and other pages work   *)
(* meanwhile.  A promotion is one step in memory; in the database it checks    *)
(* the version and commits later.                                              *)
(*******************************************************************************)
EXTENDS Naturals, FiniteSets

CONSTANTS Versions, NoVersion,
          Pages,
          MaxClicks     \* bound of the run

\* The version that is called v1, v2 ... is its number.
ASSUME VersionAssumption == Versions \subseteq Nat \ {0} /\ NoVersion \notin Versions

VARIABLES promptStore,   \* "memory" or "postgres"
          row,           \* each version's status and the time of its promotion, 0 for never
          live,          \* the active pointer of the suite
          promoting,     \* transactions that have checked their version
          promotions,    \* so far: the time of a promotion
          clicks,
          panel,         \* each page, see Panels
          mishaps        \* history: "stale" archives, "overlap" of promotions, "saved" anew

promptVars == <<promptStore, row, live, promoting, promotions, clicks, panel, mishaps>>

NoRow == [status |-> "none", at |-> 0]
Draft == [status |-> "draft", at |-> 0]

NoRequest == [kind |-> "none", version |-> NoVersion, shown |-> NoVersion]

NewPanel == [seen    |-> [v \in Versions |-> "none"],   \* status in its list
             live    |-> NoVersion,                     \* version in its header
             request |-> NoRequest]                     \* under way: the buttons are disabled

PromptInit ==
    /\ promptStore \in {"memory", "postgres"}
    /\ row \in [Versions -> {NoRow, Draft}] /\ live = NoVersion
    /\ promoting = {} /\ promotions = 0 /\ clicks = 0 /\ mishaps = {}
    /\ panel = [p \in Pages |-> NewPanel]

\* The pages ----------------------------------------------------------------

Busy(p) == panel[p].request.kind # "none"

Send(p, kind, v) ==
    /\ ~Busy(p) /\ clicks < MaxClicks /\ clicks' = clicks + 1
    /\ panel' = [panel EXCEPT ![p].request =
                   [kind |-> kind, version |-> v,
                    shown |-> IF kind = "archive" THEN panel[p].live ELSE NoVersion]]
    /\ UNCHANGED <<promptStore, row, live, promoting, promotions, mishaps>>

IsLive(p, v) == panel[p].live = v

\* "Create draft" with any name, also a used one; a fork starts here too.
ClickCreate(p, v) == Send(p, "save", v)

\* Save in the editor of a listed version, which stays open when the version it was
\* opened on is no draft any more.
ClickEdit(p, v) == panel[p].seen[v] # "none" /\ Send(p, "save", v)

\* "Save & promote" of the studio: the name is the count of the versions it has seen,
\* plus one, whether or not it is free.
NextName(p) == Cardinality({v \in Versions : panel[p].seen[v] # "none"}) + 1

ClickSaveAndPromote(p) ==
    NextName(p) \in Versions /\ Send(p, "save and promote", NextName(p))

ClickStage(p, v) == panel[p].seen[v] = "draft" /\ Send(p, "stage", v)

ClickArchive(p, v) ==
    panel[p].seen[v] \in {"draft", "staging"} /\ ~IsLive(p, v) /\ Send(p, "archive", v)

ClickPromote(p, v) ==
    panel[p].seen[v] \in {"draft", "staging"} /\ ~IsLive(p, v) /\ Send(p, "promote", v)

\* The two queries are sent after a request and at other times, come back one by one
\* or fail; the one for the live version takes every failure for "none".
RefetchList(p) ==
    /\ panel' = [panel EXCEPT ![p].seen = [v \in Versions |-> row[v].status]]
    /\ UNCHANGED <<promptStore, row, live, promoting, promotions, clicks, mishaps>>

RefetchLive(p) ==
    /\ \E answer \in {live, NoVersion} :
          panel' = [panel EXCEPT ![p].live = answer]
    /\ UNCHANGED <<promptStore, row, live, promoting, promotions, clicks, mishaps>>

\* The endpoints --------------------------------------------------------------

Answered(p) == panel' = [panel EXCEPT ![p].request = NoRequest]

Asks(p, kind) == panel[p].request.kind = kind

\* save replaces the whole row: a draft again, and never promoted.  The studio then
\* asks for the promotion of what it has saved.
Save(p) ==
    LET v == panel[p].request.version
    IN  /\ Asks(p, "save") \/ Asks(p, "save and promote")
        /\ row' = [row EXCEPT ![v] = Draft]
        /\ mishaps' = IF row[v].at = 0 THEN mishaps ELSE mishaps \union {"saved"}
        /\ IF Asks(p, "save") THEN Answered(p)
           ELSE panel' = [panel EXCEPT ![p].request.kind = "promote"]
        /\ UNCHANGED <<promptStore, live, promoting, promotions, clicks>>

\* set_status: any status, whatever the row's and whichever version is live.
SetStatus(p) ==
    LET v == panel[p].request.version
        becomes == IF Asks(p, "stage") THEN "staging" ELSE "archived"
    IN  /\ Asks(p, "stage") \/ Asks(p, "archive")
        /\ row' = [row EXCEPT ![v].status = becomes]
        /\ mishaps' = IF Asks(p, "archive") /\ (panel[p].request.shown # live \/ promoting # {})
                      THEN mishaps \union {"stale"} ELSE mishaps
        /\ Answered(p)
        /\ UNCHANGED <<promptStore, live, promoting, promotions, clicks>>

Stamp(v, time) ==
    /\ row' = [row EXCEPT ![v].at = time]
    /\ live' = v

InTransaction(p) == \E t \in promoting : t.page = p

\* A promotion of an archived version, or any request on whose way something fails.
Refuse(p) ==
    /\ Busy(p) /\ ~InTransaction(p)
    /\ Answered(p)
    /\ UNCHANGED <<promptStore, row, live, promoting, promotions, clicks, mishaps>>

\* Mutant: the status of the version is not looked at.
PromoteUnchecked(p) ==
    LET v == panel[p].request.version
    IN  /\ Asks(p, "promote") /\ promptStore = "memory"
        /\ promotions' = promotions + 1
        /\ Stamp(v, promotions + 1)
        /\ Answered(p)
        /\ UNCHANGED <<promptStore, promoting, clicks, mishaps>>

Promote(p) ==
    LET v == panel[p].request.version
    IN  /\ Asks(p, "promote") /\ promptStore = "memory" /\ row[v].status # "archived"
        /\ promotions' = promotions + 1
        /\ Stamp(v, promotions + 1)
        /\ Answered(p)
        /\ UNCHANGED <<promptStore, promoting, clicks, mishaps>>

\* The transaction reads the version without a lock; its now() is the time it began.
BeginPromotion(p) ==
    LET v == panel[p].request.version
    IN  /\ Asks(p, "promote") /\ promptStore = "postgres" /\ row[v].status # "archived"
        /\ promotions' = promotions + 1
        /\ ~InTransaction(p)
        /\ promoting' = promoting \union {[page |-> p, version |-> v, began |-> promotions + 1]}
        /\ mishaps' = IF promoting = {} THEN mishaps ELSE mishaps \union {"overlap"}
        /\ UNCHANGED <<promptStore, row, live, clicks, panel>>

CommitPromotion(t) ==
    /\ Stamp(t.version, t.began)
    /\ promoting' = promoting \ {t}
    /\ Answered(t.page)
    /\ UNCHANGED <<promptStore, promotions, clicks, mishaps>>

AbortPromotion(t) ==
    /\ promoting' = promoting \ {t}
    /\ Answered(t.page)
    /\ UNCHANGED <<promptStore, row, live, promotions, clicks, mishaps>>

PromptNext ==
    \/ \E p \in Pages :
          \/ \E v \in Versions :
                \/ ClickCreate(p, v) \/ ClickEdit(p, v) \/ ClickStage(p, v)
                \/ ClickArchive(p, v) \/ ClickPromote(p, v)
          \/ ClickSaveAndPromote(p) \/ RefetchList(p) \/ RefetchLive(p)
          \/ Save(p) \/ SetStatus(p) \/ Promote(p) \/ BeginPromotion(p) \/ Refuse(p)
    \/ \E t \in promoting : CommitPromotion(t) \/ AbortPromotion(t)

PromptSpec == PromptInit /\ [][PromptNext]_promptVars

-----------------------------------------------------------------------------
\* "promote -> runs use it": the version that runs use is the one whose stamp is the
\* latest, unless two promotions overlap (the last to commit is live and the last to
\* begin has the stamp) or a version is saved anew, which takes its stamp away; and it
\* is not a retired one, however many pages work on the suite with lists that are old,
\* unless one is archived from a page whose header does not name the live version, or
\* while a promotion is being committed ("promoting a retired version is a footgun").
LiveVersionIsPromoted ==
    /\ live # NoVersion /\ "stale" \notin mishaps => row[live].status # "archived"
    /\ mishaps \intersect {"overlap", "saved"} = {} =>
        /\ live = NoVersion <=> \A v \in Versions : row[v].at = 0
        /\ \A v \in Versions \ {live} : live # NoVersion => row[v].at < row[live].at
=============================================================================
