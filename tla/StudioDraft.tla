----------------------------- MODULE StudioDraft -----------------------------
(*******************************************************************************)
(* The page on which a person writes the oracle prompt of a fixture, runs it   *)
(* and keeps what it answered (OracleReviewPage.tsx): the selected fixture,    *)
(* the tabs, the prompt in the editor with its draft in the browser's storage, *)
(* the preview of a run, and the calls under way while the person goes on.     *)
(* What the server does with a call and what the page does with the answer are *)
(* one step.  Reviews and promotion are in EvalStudio.                         *)
(*                                                                             *)
(* A preview and an expectation are told apart by the fixture they were run    *)
(* for; versions, models and the text of inputs are left out.                  *)
(*******************************************************************************)
EXTENDS Naturals

CONSTANTS
    Fixtures,     \* fixture ids
    Prompts,      \* texts of oracle prompts other than the empty one
    MaxAsked,     \* bound: calls sent
    Blank         \* the empty prompt, no preview, no fixture

ASSUME StudioDraftAssumption ==
    /\ MaxAsked \in Nat
    /\ Blank \notin Fixtures \cup Prompts
    /\ Blank \notin [prompt : Prompts \cup {Blank}, of : Fixtures \cup {Blank}]

VARIABLES
    saved,     \* what the server has of each fixture
    copied,    \* what the page has fetched of it, Blank if nothing yet
    draft,     \* localStorage: oracle-prompt-draft::<fixture>
    studio,    \* the page
    calls,     \* the calls, by number
    asked,     \* how many calls were sent
    written,   \* history: the text last entered or kept for each fixture
    overwritten, \* history: fixtures whose draft an editor that opened early replaced since
    late       \* history: a call or an answer met what had changed meanwhile

studioVars == <<saved, copied, draft, studio, calls, asked, written, overwritten, late>>

-----------------------------------------------------------------------------
\* A fixture: its prompt, and the fixture whose run its expectation comes from.
Kept(prompt, of) == [prompt |-> prompt, of |-> of]
AtRest == [kind |-> "none", for |-> Blank, text |-> Blank, of |-> Blank, seen |-> Blank,
           then |-> Blank, mounted |-> FALSE, page |-> FALSE]

\* The fixture whose data the page last rendered is "shown"; the tab of the
\* address is the "link".
Landing(f, tab) == [selected |-> f, shown |-> Blank, tab |-> tab, link |-> tab,
                    prompt |-> Blank, preview |-> Blank]

StudioInit ==
    /\ saved = [f \in Fixtures |-> Kept(Blank, Blank)]
    /\ copied = [f \in Fixtures |-> Blank]
    /\ draft = [f \in Fixtures |-> Blank]
    /\ studio = Landing(Blank, "input")
    /\ calls = [n \in 1..MaxAsked |-> AtRest]
    /\ asked = 0
    /\ written = [f \in Fixtures |-> Blank]
    /\ overwritten = {}
    /\ late = FALSE

-----------------------------------------------------------------------------
(* The page.                                                                   *)

\* Mutant of OpensWith: the draft is not read back.
OpensWithSaved(text, d, kept) == IF text # Blank THEN text ELSE kept.prompt

\* What an editor opens with, where d is the draft of the fixture: the draft, or what
\* is saved, unless the editor has a text.
OpensWith(text, d, kept) == IF text # Blank THEN text ELSE IF d # Blank THEN d ELSE kept.prompt

\* The page is rendered with the data there is.  If a fixture becomes shown whose
\* editor is open already, the effects of the editor come before the page's: what
\* is in the editor, nothing if the fixture was just loading, replaces the draft
\* before it is read.
Renders(pg, data) ==
    LET f       == pg.selected
        appears == f # Blank /\ data[f] # Blank /\ pg.shown # f
        open    == pg.tab = "prompt"
        text    == OpensWith(pg.prompt, IF open THEN Blank ELSE draft[f], data[f])
    IN  IF appears
        THEN /\ studio' = [pg EXCEPT !.shown = f, !.prompt = text]
             /\ draft' = IF open THEN [draft EXCEPT ![f] = text] ELSE draft
             /\ overwritten' = IF open /\ draft[f] \notin {Blank, text}
                               THEN overwritten \cup {f} ELSE overwritten
        ELSE /\ studio' = IF f # Blank /\ data[f] # Blank THEN pg ELSE [pg EXCEPT !.shown = Blank]
             /\ UNCHANGED <<draft, overwritten>>

\* A tab that is left forgets which calls it waits for.
Unmounted(cs) == [n \in DOMAIN cs |-> [cs[n] EXCEPT !.mounted = FALSE]]

\* What a change of the selection resets; the tab becomes the one of the address.
Reset(pg, f) ==
    [pg EXCEPT !.selected = f, !.tab = IF f = pg.selected THEN "input" ELSE pg.link,
               !.prompt = Blank, !.preview = Blank]

\* handleSelectFixture, also on the fixture that is selected already, whose
\* editor is then not hydrated again.
Choose(f) ==
    /\ saved[f] # Blank
    /\ Renders(Reset(studio, f), copied)
    /\ calls' = Unmounted(calls)
    /\ UNCHANGED <<saved, copied, asked, written, late>>

\* handleToggleSuite: the suite is closed and opened again.
Deselect ==
    /\ studio.selected # Blank
    /\ Renders(Reset(studio, Blank), copied)
    /\ calls' = Unmounted(calls)
    /\ UNCHANGED <<saved, copied, asked, written, late>>

\* useOracleFixture answers; a 404 keeps what there was.
FetchDetail(f) ==
    /\ studio.selected = f \/ copied[f] # Blank
    /\ saved[f] # Blank
    /\ copied' = [copied EXCEPT ![f] = saved[f]]
    /\ Renders(studio, copied')
    /\ UNCHANGED <<saved, calls, asked, written, late>>

Showing(tab) == studio.shown # Blank /\ studio.shown = studio.selected /\ studio.tab = tab

\* The editor's tab is mounted: an empty editor takes the draft, and what is in
\* the editor becomes the draft.
OpenEditor ==
    /\ Showing("input") \/ Showing("run")
    /\ LET text == OpensWith(studio.prompt, draft[studio.shown], Kept(Blank, Blank))
       IN  /\ studio' = [studio EXCEPT !.tab = "prompt", !.prompt = text]
           /\ draft' = [draft EXCEPT ![studio.shown] = text]
    /\ calls' = Unmounted(calls)
    /\ UNCHANGED <<saved, copied, asked, written, overwritten, late>>

\* The tab bar, which is there while the fixture is loading too: no editor is
\* mounted then.
OpenTab(tab) ==
    /\ studio.selected # Blank /\ studio.tab # tab
    /\ tab = "prompt" => studio.shown = Blank
    /\ studio' = [studio EXCEPT !.tab = tab]
    /\ calls' = Unmounted(calls)
    /\ UNCHANGED <<saved, copied, draft, asked, written, overwritten, late>>

\* The page's prompt is set; a mounted editor makes it the draft.
Drafted(text) ==
    IF Showing("prompt") THEN [draft EXCEPT ![studio.shown] = text] ELSE draft

\* A text was entered or kept for a fixture.
Wrote(f, text) ==
    /\ written' = [written EXCEPT ![f] = text]
    /\ overwritten' = overwritten \ {f}

\* The textarea, and handleClear.
Type(text) ==
    /\ Showing("prompt") /\ text # studio.prompt
    /\ studio' = [studio EXCEPT !.prompt = text]
    /\ draft' = Drafted(text)
    /\ Wrote(studio.shown, text)
    /\ UNCHANGED <<saved, copied, calls, asked, late>>

\* The browser reloads, with or without a fixture and the editor's tab in the
\* address; calls under way reach the server, and nobody waits for their answers.
ReloadPage ==
    /\ \E f \in Fixtures \cup {Blank}, tab \in {"input", "prompt"} : studio' = Landing(f, tab)
    /\ copied' = [f \in Fixtures |-> Blank]
    /\ calls' = [n \in DOMAIN calls |-> [calls[n] EXCEPT !.mounted = FALSE, !.page = FALSE]]
    /\ UNCHANGED <<saved, draft, asked, written, overwritten, late>>

-----------------------------------------------------------------------------
(* The calls.                                                                  *)

\* A call with the state it was sent in; the page may have an old copy.
Ask(kind, f, text, of) ==
    /\ asked < MaxAsked
    /\ asked' = asked + 1
    /\ calls' = [calls EXCEPT ![asked + 1] =
          [kind |-> kind, for |-> f, text |-> text, of |-> of, seen |-> studio.prompt,
           then |-> saved[f], mounted |-> TRUE, page |-> TRUE]]
    /\ late' = (late \/ (studio.selected = f /\ copied[f] # saved[f]))
    /\ UNCHANGED <<saved, copied, draft, studio, written, overwritten>>

Waiting(kinds) == \E n \in DOMAIN calls : calls[n].kind \in kinds /\ calls[n].mounted
SavePending == \E n \in DOMAIN calls : calls[n].kind \in {"savePrompt", "savePreview"} /\ calls[n].page

\* handleGenerate of the editor, confirmed if there are unsaved edits.
AskMeta ==
    /\ Showing("prompt") /\ ~Waiting({"meta"})
    /\ Ask("meta", studio.shown, studio.prompt, Blank)

\* handleRun
AskRun ==
    /\ Showing("run") /\ ~Waiting({"run"}) /\ studio.prompt # Blank
    /\ Ask("run", studio.shown, studio.prompt, studio.shown)

\* handleSaveOraclePromptOnly: the prompt with the expectation the page has.
AskSavePrompt ==
    /\ Showing("prompt") /\ ~SavePending
    /\ studio.prompt \notin {Blank, copied[studio.shown].prompt}
    /\ Ask("savePrompt", studio.shown, studio.prompt, copied[studio.shown].of)

\* handleSavePreview: the preview becomes the expectation of the shown fixture,
\* with the prompt that is in the editor now.
AskSavePreview ==
    /\ Showing("run") /\ ~SavePending /\ studio.preview # Blank
    /\ Ask("savePreview", studio.shown, studio.prompt, studio.preview)

\* handleSave of the input editor posts all else as the page has it.
AskSaveInput ==
    /\ Showing("input") /\ ~Waiting({"saveInput"})
    /\ Ask("saveInput", studio.shown, copied[studio.shown].prompt, copied[studio.shown].of)

\* FixtureModal: a new case, or one of a name that is taken.
AskNewCase(f) ==
    /\ Ask("newCase", f, Blank, f)

\* handleDeleteCase remembers what is selected as it is clicked.
AskDelete(f) ==
    /\ saved[f] # Blank
    /\ Ask("delete", f, Blank, studio.selected)

\* The page, or what is saved, is not what it was when the call was sent; a
\* generated prompt also wants its editor, which keeps it as a draft.
MovedOn(c) ==
    \/ c.page /\ c.kind = "meta" /\ ~c.mounted
    \/ c.page /\ c.kind # "newCase" /\ (studio.selected # c.for \/ studio.prompt # c.seen)
    \/ saved[c.for] # c.then

CallOver(n) ==
    /\ calls' = [calls EXCEPT ![n] = AtRest]
    /\ late' = (late \/ MovedOn(calls[n]))
    /\ UNCHANGED asked

\* The generated prompt fills the editor of whatever is selected.
MetaAnswers(n) ==
    /\ calls[n].kind = "meta"
    /\ CallOver(n)
    /\ \E text \in Prompts :
          IF ~calls[n].page THEN UNCHANGED <<studio, draft, written, overwritten>>
          ELSE /\ studio' = [studio EXCEPT !.prompt = text]
               /\ draft' = Drafted(text)
               /\ IF Showing("prompt") THEN Wrote(studio.shown, text)
                  ELSE UNCHANGED <<written, overwritten>>
    /\ UNCHANGED <<saved, copied>>

\* A preview, or after a failure one that cannot be saved.
RunAnswers(n) ==
    /\ calls[n].kind = "run"
    /\ CallOver(n)
    /\ IF calls[n].page THEN \E of \in {calls[n].of, Blank} : studio' = [studio EXCEPT !.preview = of]
       ELSE UNCHANGED studio
    /\ UNCHANGED <<saved, copied, draft, written, overwritten>>

Store(n) == saved' = [saved EXCEPT ![calls[n].for] = Kept(calls[n].text, calls[n].of)]
KeepsText(n) == Wrote(calls[n].for, calls[n].text)

\* A saved prompt needs no draft any more.
PromptSaved(n) ==
    /\ calls[n].kind = "savePrompt"
    /\ CallOver(n) /\ Store(n) /\ KeepsText(n)
    /\ draft' = IF calls[n].page THEN [draft EXCEPT ![calls[n].for] = Blank] ELSE draft
    /\ UNCHANGED <<copied, studio>>

PreviewSaved(n) ==
    /\ calls[n].kind = "savePreview"
    /\ CallOver(n) /\ Store(n) /\ KeepsText(n)
    /\ studio' = IF calls[n].page THEN [studio EXCEPT !.preview = Blank] ELSE studio
    /\ UNCHANGED <<copied, draft>>

InputSaved(n) ==
    /\ calls[n].kind = "saveInput"
    /\ CallOver(n) /\ Store(n)
    /\ UNCHANGED <<copied, draft, studio, written, overwritten>>

\* The page goes to the new case, wherever it is; the detail is not refetched.
NewCaseMade(n) ==
    /\ calls[n].kind = "newCase"
    /\ Store(n)
    /\ late' = (late \/ MovedOn(calls[n]))
    /\ LET f == calls[n].for
           left == calls[n].page /\ studio.selected # f
       IN  /\ IF left THEN Renders(Reset(studio, f), copied)
              ELSE UNCHANGED <<studio, draft, overwritten>>
           /\ calls' = [(IF left THEN Unmounted(calls) ELSE calls) EXCEPT ![n] = AtRest]
           /\ written' = [written EXCEPT ![f] = Blank]
    /\ UNCHANGED <<copied, asked>>

\* The page leaves the fixture if it was selected when delete was clicked.
CaseDeleted(n) ==
    /\ calls[n].kind = "delete"
    /\ late' = (late \/ MovedOn(calls[n]))
    /\ saved' = [saved EXCEPT ![calls[n].for] = Blank]
    /\ LET leaves == calls[n].page /\ calls[n].of = calls[n].for
       IN  /\ IF leaves THEN Renders(Reset(studio, Blank), copied)
              ELSE UNCHANGED <<studio, draft, overwritten>>
           /\ calls' = [(IF leaves THEN Unmounted(calls) ELSE calls) EXCEPT ![n] = AtRest]
    /\ written' = [written EXCEPT ![calls[n].for] = Blank]
    /\ UNCHANGED <<copied, asked>>

\* The call fails; only a failed run shows on the page, see RunAnswers.
CallFails(n) ==
    /\ calls[n].kind \notin {"none", "run"}
    /\ calls' = [calls EXCEPT ![n] = AtRest]
    /\ UNCHANGED <<saved, copied, draft, studio, asked, written, overwritten, late>>

-----------------------------------------------------------------------------
PersonActs ==
    \/ Deselect \/ OpenEditor \/ ReloadPage
    \/ \E f \in Fixtures : Choose(f) \/ FetchDetail(f) \/ AskNewCase(f) \/ AskDelete(f)
    \/ \E tab \in {"input", "run", "prompt"} : OpenTab(tab)
    \/ \E text \in Prompts \cup {Blank} : Type(text)
    \/ AskMeta \/ AskRun \/ AskSavePrompt \/ AskSavePreview \/ AskSaveInput

CallEnds ==
    \E n \in DOMAIN calls :
        \/ MetaAnswers(n) \/ RunAnswers(n) \/ PromptSaved(n) \/ PreviewSaved(n)
        \/ InputSaved(n) \/ NewCaseMade(n) \/ CaseDeleted(n) \/ CallFails(n)

\* Nothing is promised after a late call or answer, so behaviours end there.
StudioNext == ~late /\ (PersonActs \/ CallEnds)

-----------------------------------------------------------------------------
(* Properties                                                                  *)

\* As long as no call or answer met what had changed meanwhile, the expectation
\* of a fixture was run for that fixture, through whatever selections, tabs,
\* reloads and previews ("persist it as the fixture expectation",
\* OracleReviewPage.tsx Tab3_Execution).
ExpectationIsOwn ==
    ~late => \A f \in Fixtures : saved[f] # Blank => saved[f].of \in {Blank, f}

\* And a prompt somebody wrote is not lost: it is in the editor, the draft or the
\* fixture ("Drafts auto-persist locally per fixture (survives refresh)",
\* OracleReviewPage.tsx:866), unless the editor of the fixture was opened before
\* the fixture had come: then the draft is overwritten.
DraftsAreKept ==
    ~late => \A f \in Fixtures \ overwritten :
        \/ written[f] \in {Blank, draft[f]}
        \/ studio.selected = f /\ studio.prompt = written[f]
        \/ saved[f] # Blank /\ saved[f].prompt = written[f]
=============================================================================
