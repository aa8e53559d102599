----------------------------- MODULE EvalStudio -----------------------------
(*******************************************************************************)
(* The oracle studio and the case catalogue of the evaluation API              *)
(* (ryuu_eval/http/router.py): a fixture with its companion review file, the   *)
(* pages on which people review it (OracleReviewPage, reviewModel), its        *)
(* promotion to a case of a suite, and everything else that writes that        *)
(* case: the case endpoints, templates, the case factory, the sync of a        *)
(* remote project, and the suite itself.                                       *)
(*                                                                             *)
(* One fixture, one suite and one case stand for all: no request relates two   *)
(* of them.  A plain "def" endpoint runs in a thread, so its file operations   *)
(* interleave with everything; an "async def" runs alone between two awaits,   *)
(* except for those threads.  A file operation is one step: between the check  *)
(* of a case file and the write after it, a thread may write the file.         *)
(* Fixtures with several inputs, which no page creates, and operators of cells *)
(* are left out.                                                               *)
(*******************************************************************************)
EXTENDS Naturals, FiniteSets

CONSTANTS
    Pages,        \* review pages open in browsers
    Slots,        \* requests the server may be working on at a time
    Cells,        \* (entity, field) keys
    MaxRequests,  \* bound: requests sent
    MaxRestarts,  \* bound: restarts of the server
    None

VARIABLES
    fixture,  \* <fixture_id>.json: the confidence of its cells
    review,   \* <fixture_id>.review.json: needs_review
    torn,     \* history: a writer was killed midway or met another one
    files,    \* cases_dir/<suite>/<case>.yml
    suite,    \* the row of the suite, in deployments with a database
    row,      \* the row of the case
    db,       \* whether suite_store and test_case_store are wired
    req,      \* the requests
    page,     \* the pages
    sent, restarts

oracle == <<fixture, review, torn>>
catalogue == <<files, suite, row>>
bounds == <<db, sent, restarts>>
vars == <<oracle, catalogue, req, page, bounds>>

-----------------------------------------------------------------------------
\* "low" stands for low and medium; "fixed" is high with a corrected op.
Confidence == {"none", "low", "high", "fixed"}
Matrix == [Cells -> Confidence]
Actions == {"none", "approve", "fix", "remove"}
ItemStates == [Cells -> Actions \cup {"open"}]   \* of a review file

ASSUME EvalStudioAssumption ==
    /\ MaxRequests \in Nat /\ MaxRestarts \in Nat
    /\ None \notin Pages \cup Matrix \cup ItemStates /\ Cells # {}

NoActions == [c \in Cells |-> "none"]
Low(cells) == {c \in Cells : cells[c] = "low"}

\* needs_review of fresh cells, and whether there is a review file at all.
NeedsReview(cells) ==
    IF Low(cells) = {} THEN None
    ELSE [c \in Cells |-> IF c \in Low(cells) THEN "open" ELSE "none"]

Cases == [by : {"ui", "file", "remote"}, cells : {None}, clean : BOOLEAN]
         \cup [by : {"promote"}, cells : Matrix, clean : BOOLEAN]
Case(by) == [by |-> by, cells |-> None, clean |-> FALSE]
FixtureOps == {"generate", "update", "delete"}
CaseOps == {"create", "put", "drop", "template", "factory", "sync", "newSuite", "dropSuite"}
\* A request for a page, or from a script: cells or actions; whether it overwrites; for a
\* promotion what the page shows, and that it has nothing unsaved.
Request(op, from, cells, sure, clean, seen) ==
    [op |-> op, at |-> "start", from |-> from, cells |-> cells,
     sure |-> sure, clean |-> clean, seen |-> seen]
NoRequest == Request("none", None, NoActions, FALSE, FALSE, None)
NewPage == [shown |-> None, local |-> NoActions, conflict |-> FALSE]

\* A fixture as it was generated, if any, and whatever cases there are.
Init ==
    /\ fixture \in Matrix \cup {None}
    /\ review = IF fixture = None THEN None ELSE NeedsReview(fixture)
    /\ torn = FALSE
    /\ db \in BOOLEAN
    /\ files \in {None, Case("ui")}
    /\ suite = db
    /\ row \in IF db THEN {None, Case("ui")} ELSE {None}
    /\ req = [q \in Slots |-> NoRequest]
    /\ page = [p \in Pages |-> NewPage]
    /\ sent = 0 /\ restarts = 0

-----------------------------------------------------------------------------
(* The pages.                                                                  *)

\* useOracleFixture: whenever the query is refetched; a 404 keeps the old data.
Fetch(p) ==
    /\ fixture # None
    /\ page' = [page EXCEPT ![p].shown =
          [cells |-> fixture, items |-> IF review = None THEN NoActions ELSE review]]
    /\ UNCHANGED <<oracle, catalogue, req, bounds>>

\* Another fixture is selected and this one again.
Reopen(p) ==
    /\ page' = [page EXCEPT ![p].local = NoActions]
    /\ UNCHANGED <<oracle, catalogue, req, bounds>>

\* handleAction: approve, fix or remove a cell, not saved yet.
Act(p, c, a) ==
    /\ page[p].shown # None /\ page[p].shown.cells[c] # "none"
    /\ page' = [page EXCEPT ![p].local[c] = a]
    /\ UNCHANGED <<oracle, catalogue, req, bounds>>

\* countPendingReview: unsaved and saved actions settle a cell alike.
Pending(pg) ==
    {c \in Low(pg.shown.cells) : pg.local[c] = "none" /\ pg.shown.items[c] \in {"none", "open"}}

\* approveAllRemaining, after a confirmation: one action per pending cell.
ApproveAll(p) ==
    /\ page[p].shown # None /\ Pending(page[p]) # {}
    /\ page' = [page EXCEPT ![p].local =
          [c \in Cells |-> IF c \in Pending(page[p]) THEN "approve" ELSE @[c]]]
    /\ UNCHANGED <<oracle, catalogue, req, bounds>>

Send(q, r) ==
    /\ req[q].op = "none" /\ sent < MaxRequests
    /\ \A o \in Slots : r.from # None => ~(req[o].from = r.from /\ req[o].op = r.op)
    /\ req' = [req EXCEPT ![q] = r]
    /\ sent' = sent + 1
    /\ UNCHANGED <<oracle, catalogue, db, restarts>>

From(p, op, cells) == Request(op, p, cells, FALSE, FALSE, None)

SaveReview(p, q) ==
    /\ page[p].local # NoActions
    /\ Send(q, From(p, "update", page[p].local))
    /\ UNCHANGED page

\* Save prompt or input: generate, with the cells the page shows.
SavePrompt(p, q) ==
    /\ page[p].shown # None
    /\ Send(q, From(p, "generate", page[p].shown.cells))
    /\ UNCHANGED page

\* Generate with the strategy, or save the preview of a run: any cells.
Generate(p, q) ==
    /\ \E cells \in Matrix : Send(q, From(p, "generate", cells))
    /\ UNCHANGED page

Delete(p, q) == Send(q, From(p, "delete", NoActions)) /\ UNCHANGED page

Promote(p, q) ==
    /\ page[p].shown # None /\ page[p].shown.cells # NoActions /\ Pending(page[p]) = {}
    /\ Send(q, Request("promote", p, NoActions, FALSE, page[p].local = NoActions, page[p].shown))
    /\ UNCHANGED page

\* The 409 of a promotion, answered with "Overwrite?"; nothing is looked at again.
PromoteAgain(p, q) ==
    /\ page[p].conflict
    /\ page' = [page EXCEPT ![p].conflict = FALSE]
    /\ Send(q, Request("promote", p, NoActions, TRUE, FALSE, None))

\* Requests about the catalogue, from pages and scripts.
Ask(q) ==
    /\ \E op \in CaseOps, sure \in BOOLEAN :
          /\ sure => op = "sync"
          /\ Send(q, Request(op, None, NoActions, sure, FALSE, None))
    /\ UNCHANGED page

-----------------------------------------------------------------------------
(* The fixture and its review file.                                            *)

Begun(q) == req[q].op \in FixtureOps /\ req[q].at # "start"
MeetsAnother(q) == \E o \in Slots \ {q} : Begun(o)
Goes(q, at, seen) == req' = [req EXCEPT ![q].at = at, ![q].seen = seen]
Ends(q) == req' = [req EXCEPT ![q] = NoRequest]

\* The endpoints that are a plain "def" run in a thread; a request that has looked for a
\* case file and is to write it keeps the event loop from the others.
Threaded(q) == req[q].op \in {"template", "update", "delete"}
MayRun(q)   == Threaded(q) \/ \A o \in Slots \ {q} : req[o].at # "write"

WriteFixture(q) ==                \* both files will be new
    /\ req[q].op = "generate" /\ req[q].at = "start"
    /\ fixture' = req[q].cells
    /\ torn' = MeetsAnother(q)
    /\ Goes(q, "review", None)
    /\ UNCHANGED <<review, page>>

\* Mutant of WriteReview: a review file that is not needed any more stays.
WriteReviewIfNeeded(q) ==
    /\ req[q].op = "generate" /\ req[q].at = "review"
    /\ review' = IF Low(req[q].cells) = {} THEN review ELSE NeedsReview(req[q].cells)
    /\ torn' = (torn \/ MeetsAnother(q))
    /\ Ends(q)
    /\ UNCHANGED <<fixture, page>>

WriteReview(q) ==
    /\ req[q].op = "generate" /\ req[q].at = "review"
    /\ review' = NeedsReview(req[q].cells)
    /\ torn' = (torn \/ MeetsAnother(q))
    /\ Ends(q)
    /\ UNCHANGED <<fixture, page>>

ReadFixture(q) ==                 \* 404, or the fixture into memory
    /\ req[q].op = "update" /\ req[q].at = "start"
    /\ \/ fixture = None /\ Ends(q) /\ UNCHANGED torn
       \/ /\ fixture # None
          /\ Goes(q, "fixture", fixture)
          /\ torn' = (torn \/ MeetsAnother(q))
    /\ UNCHANGED <<fixture, review, page>>

\* The cells after the actions of a review.
Reviewed(cells, actions) ==
    [c \in Cells |-> IF cells[c] = "none" THEN "none"
                     ELSE CASE actions[c] = "none" -> cells[c]
                            [] actions[c] = "approve" /\ cells[c] = "fixed" -> "fixed"
                            [] actions[c] = "approve" -> "high"
                            [] actions[c] = "fix" -> "fixed"
                            [] actions[c] = "remove" -> "none"]

ApplyReview(q) ==
    /\ req[q].op = "update" /\ req[q].at = "fixture"
    /\ fixture' = Reviewed(req[q].seen, req[q].cells)
    /\ torn' = (torn \/ MeetsAnother(q))
    /\ Goes(q, "items", None)
    /\ UNCHANGED <<review, page>>

\* The page forgets its actions when the answer arrives, newer ones too.
Saved(q) == page' = [page EXCEPT ![req[q].from].local = NoActions]

ReadItems(q) ==
    /\ req[q].op = "update" /\ req[q].at = "items"
    /\ \/ review = None /\ Ends(q) /\ Saved(q)
       \/ review # None /\ Goes(q, "review", review) /\ UNCHANGED page
    /\ torn' = (torn \/ MeetsAnother(q))
    /\ UNCHANGED <<fixture, review>>

MarkItems(q) ==
    /\ req[q].op = "update" /\ req[q].at = "review"
    /\ review' = [c \in Cells |-> IF req[q].seen[c] # "none" /\ req[q].cells[c] # "none"
                                  THEN req[q].cells[c] ELSE req[q].seen[c]]
    /\ torn' = (torn \/ MeetsAnother(q))
    /\ Ends(q) /\ Saved(q)
    /\ UNCHANGED fixture

UnlinkFixture(q) ==
    /\ req[q].op = "delete" /\ req[q].at = "start"
    /\ \/ fixture = None /\ Ends(q) /\ UNCHANGED <<fixture, torn>>
       \/ /\ fixture # None
          /\ fixture' = None
          /\ torn' = MeetsAnother(q)
          /\ Goes(q, "review", None)
    /\ UNCHANGED <<review, page>>

UnlinkReview(q) ==
    /\ req[q].op = "delete" /\ req[q].at = "review"
    /\ review' = None
    /\ torn' = (torn \/ MeetsAnother(q))
    /\ Ends(q)
    /\ UNCHANGED <<fixture, page>>

-----------------------------------------------------------------------------
(* Promotion: the fixture is read, then the case is saved.                     *)

\* The files are what the page showed when promote was pressed.
Shown(seen) ==
    /\ fixture = seen.cells
    /\ seen.items = IF review = None THEN NoActions ELSE review

ReadPromoted(q) ==
    /\ req[q].op = "promote" /\ req[q].at = "start"
    /\ \/ fixture = None /\ Ends(q)
       \/ /\ fixture # None
          /\ req' = [req EXCEPT ![q].at = IF db THEN "suite" ELSE "save",
                                ![q].cells = fixture, ![q].seen = None,
                                ![q].clean = @ /\ ~torn /\ req[q].seen # None
                                               /\ Shown(req[q].seen) /\ ~MeetsAnother(q)]
    /\ UNCHANGED <<oracle, catalogue, page>>

EnsureSuite(q) ==
    /\ req[q].op = "promote" /\ req[q].at = "suite"
    /\ suite' = TRUE
    /\ Goes(q, "get", None)
    /\ UNCHANGED <<oracle, files, row, page>>

NewCase(q) == CASE req[q].op = "promote" ->
                     [by |-> "promote", cells |-> req[q].cells, clean |-> req[q].clean]
                [] req[q].op = "sync" -> Case("remote")
                [] OTHER -> Case("ui")

\* 409: a promotion asks whether to overwrite.
Refused(q) ==
    /\ Ends(q)
    /\ page' = IF req[q].op = "promote" THEN [page EXCEPT ![req[q].from].conflict = TRUE] ELSE page

GetCase(q) ==                     \* test_case_store.get_case
    /\ db /\ req[q].op \in {"promote", "create"}
    /\ req[q].at = IF req[q].op = "promote" THEN "get" ELSE "start"
    /\ \/ row # None /\ ~req[q].sure /\ Refused(q)
       \/ (row = None \/ req[q].sure) /\ Goes(q, "save", None) /\ UNCHANGED page
    /\ UNCHANGED <<oracle, catalogue>>

SaveRow(q) ==                     \* save_case: an upsert, if the suite has a row
    /\ db
    /\ \/ req[q].op \in {"promote", "create"} /\ req[q].at = "save"
       \/ req[q].op = "put"
    /\ row' = IF suite THEN NewCase(q) ELSE row
    /\ Ends(q)
    /\ UNCHANGED <<oracle, files, suite, page>>

\* Without a database, and in a sync always, the case file is looked for first.
LooksForFile(q) ==
    \/ ~db /\ req[q].op = "create" /\ req[q].at = "start"
    \/ ~db /\ req[q].op = "promote" /\ req[q].at = "save"
    \/ req[q].op = "sync" /\ req[q].at = "start"

\* Mutant of LookAtFile: whether the case exists is not asked.
LookAtNothing(q) ==
    /\ LooksForFile(q)
    /\ Goes(q, "write", None)
    /\ UNCHANGED <<oracle, catalogue, page>>

\* out_path.exists(): a 409, or a case that the sync skips, unless overwrite is said.
LookAtFile(q) ==
    /\ LooksForFile(q)
    /\ \/ files # None /\ ~req[q].sure /\ Refused(q)
       \/ (files = None \/ req[q].sure) /\ Goes(q, "write", None) /\ UNCHANGED page
    /\ UNCHANGED <<oracle, catalogue>>

\* out_path.write_text, whatever is there by now
SaveFile(q) ==
    /\ req[q].at = "write"
    /\ files' = NewCase(q) /\ Ends(q)
    /\ UNCHANGED <<oracle, suite, row, page>>

-----------------------------------------------------------------------------
(* The rest of the catalogue.                                                  *)

PutFile(q) ==                     \* update_case: 404 if there is no file
    /\ ~db /\ req[q].op = "put"
    /\ files' = IF files = None THEN None ELSE Case("ui")
    /\ UNCHANGED <<suite, row>>

DropCase(q) ==                    \* delete_case
    /\ req[q].op = "drop"
    /\ IF db THEN row' = None /\ UNCHANGED files ELSE files' = None /\ UNCHANGED row
    /\ UNCHANGED suite

\* create_case_from_template writes the file, whatever is there.
FromTemplate(q) ==
    /\ req[q].op = "template"
    /\ files' = Case("file")
    /\ UNCHANGED <<suite, row>>

\* So does the case factory (generate_case), unless it fails before it comes to
\* this case.
WriteFile(q) ==
    /\ req[q].op = "factory"
    /\ files' \in {files, Case("file")}
    /\ UNCHANGED <<suite, row>>

\* One case of a project: the remote does not answer, or does not have it.
SyncNothing(q) ==
    /\ req[q].op = "sync" /\ req[q].at = "start"
    /\ UNCHANGED <<files, suite, row>>

CreateSuite(q) ==
    /\ req[q].op = "newSuite"
    /\ suite' = db
    /\ UNCHANGED <<files, row>>

DropSuite(q) ==                   \* the database cascades; files are removed
    /\ req[q].op = "dropSuite"
    /\ suite' = FALSE /\ row' = None
    /\ files' = IF db THEN files ELSE None

\* What the case list shows: the database alone, where there is one.
Listed == IF db THEN row ELSE files

CatalogueStep(q) ==
    /\ \/ PutFile(q) \/ DropCase(q) \/ FromTemplate(q) \/ WriteFile(q)
       \/ SyncNothing(q) \/ CreateSuite(q) \/ DropSuite(q)
    /\ Ends(q)
    /\ UNCHANGED <<oracle, page>>

OracleStep(q) ==
    /\ \/ WriteFixture(q) \/ WriteReview(q) \/ ReadFixture(q) \/ ApplyReview(q) \/ ReadItems(q)
       \/ MarkItems(q) \/ UnlinkFixture(q) \/ UnlinkReview(q)
    /\ UNCHANGED catalogue

Restart ==
    /\ restarts < MaxRestarts
    /\ restarts' = restarts + 1
    /\ torn' = (torn \/ \E q \in Slots : Begun(q))
    /\ req' = [q \in Slots |-> NoRequest]
    /\ UNCHANGED <<fixture, review, catalogue, page, db, sent>>

PageStep ==
    \/ \E p \in Pages : Fetch(p) \/ Reopen(p) \/ ApproveAll(p)
    \/ \E p \in Pages, c \in Cells, a \in Actions \ {"none"} : Act(p, c, a)
    \/ \E p \in Pages, q \in Slots : \/ SaveReview(p, q) \/ SavePrompt(p, q) \/ Generate(p, q)
                                     \/ Delete(p, q) \/ Promote(p, q) \/ PromoteAgain(p, q)
    \/ \E q \in Slots : Ask(q)

ServerStep ==
    /\ \E q \in Slots :
          /\ MayRun(q)
          /\ \/ OracleStep(q) \/ CatalogueStep(q) \/ ReadPromoted(q) \/ EnsureSuite(q)
             \/ GetCase(q) \/ SaveRow(q) \/ LookAtFile(q) \/ SaveFile(q)
    /\ UNCHANGED bounds

Next == PageStep \/ ServerStep \/ Restart

Spec == Init /\ [][Next]_vars

-----------------------------------------------------------------------------
(* Properties                                                                  *)

\* Whatever sequence of generations, prompt saves, reviews of fresh or stale
\* pages and deletions has been through, the two files of a fixture agree when
\* nobody is writing: the cells that still need a human are exactly the open
\* items, so the "pending" of the list is that of the matrix.  Only two writers
\* that met, or one killed midway, may break it, and the next generation or
\* deletion repairs it (generate, update_oracle_review, delete_oracle_fixture).
ReviewAgrees ==
    ~torn /\ (\A q \in Slots : ~Begun(q)) =>
        IF fixture = None THEN review = None
        ELSE \A c \in Cells : fixture[c] = "low" <=> review # None /\ review[c] = "open"

\* A fixture promoted from a page without unsaved actions that showed it as it
\* is has no cell left that needs a human ("Resolve pending reviews before
\* promoting to suite", OracleReviewPage.tsx:1509).
PromotedIsReviewed ==
    \A e \in {files, row} : e # None /\ e.by = "promote" /\ e.clean => Low(e.cells) = {}

\* What needs a human is asked of one, and before the suite is scored by it (both of the
\* above).
ReviewIsKept == ReviewAgrees /\ PromotedIsReviewed

\* A listed case is replaced only by a request that was meant to: an update, a
\* template or factory, or one that said overwrite ("Existing UI-created cases are NOT
\* overwritten", sync_project; create_case, promote_oracle_fixture_to_suite).  Any other
\* had looked and found no case: in the database, which others write while it awaits, it
\* may replace any that was saved since; as a file, only one that the thread of
\* create_case_from_template wrote between its look and its write.
CasesAreKept ==
    [][ Listed # None /\ Listed' # None /\ Listed' # Listed =>
          \E q \in Slots : /\ req'[q].op = "none"
                           /\ \/ req[q].op \in {"put", "template", "factory"} \/ req[q].sure
                              \/ db /\ req[q].at = "save"
                              \/ ~db /\ req[q].at = "write" /\ files = Case("file") ]_vars
=============================================================================
