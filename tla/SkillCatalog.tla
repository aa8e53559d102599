----------------------------- MODULE SkillCatalog -----------------------------
(*********************************************************************************)
(* Prompt skills: the *.md files of PromptSkillRegistry (ryuu_prompts/skills),   *)
(* its hot reload, the two tools over it, and the agents that the Sensei         *)
(* handler caches with the rendered catalog in their system prompt.              *)
(*                                                                               *)
(* Everything between a reload and the choice of an agent runs without an        *)
(* await, so that one call at a time is under way; but people edit files         *)
(* between any two file operations of it.  A file is the name that its front     *)
(* matter gives and the stamp of its last edit, which is its mtime too.          *)
(*********************************************************************************)
EXTENDS Naturals, FiniteSets, Sequences

CONSTANTS
    Dirs,       \* the directories, numbered as they are scanned: the last passed first
    Stems,      \* file names, numbered as they are sorted
    Unreadable, \* the name of a file without usable front matter
    AgentKeys,  \* model and verbosity of a cached agent
    MaxShown,   \* skills that fit into the 8000 characters of the block
    MaxEdits    \* bound: edits

ASSUME SkillCatalogAssumption ==
    /\ Dirs \in SUBSET Nat /\ IsFiniteSet(Dirs)
    /\ Stems \in SUBSET Nat /\ IsFiniteSet(Stems)
    /\ Unreadable \notin Stems
    /\ MaxShown \in Nat \ {0} /\ MaxEdits \in Nat

VARIABLES
    skillFile,   \* directory, stem -> name and stamp
    skillEntry,  \* _entries: name -> source_path, stamp that was read, mtime
    skillOrder,  \* _entries: the names in the order they were first inserted
    cachedAgent, \* _agents: the rendered catalog each was built with
    reload,      \* the call that is under way
    eaten,       \* history: the catalog changed and the cache was not cleared
    edited       \* stamps given so far

catalogVars == <<skillFile, skillEntry, skillOrder, cachedAgent, reload, eaten, edited>>

-----------------------------------------------------------------------------
SkillPaths == Dirs \X Stems
NoFile == [name |-> Unreadable, stamp |-> 0]
NoReload == [by |-> "none", key |-> CHOOSE k \in AgentKeys : TRUE, at |-> "idle",
             todo |-> {}, read |-> NoFile, quiet |-> TRUE]
NoPrompt == << <<Unreadable, 0>> >>

OnDisk == {p \in SkillPaths : skillFile[p] # NoFile}

\* The order of a scan: directory by directory, the files of each sorted.
ScansBefore(p, q) == p[1] < q[1] \/ (p[1] = q[1] /\ p[2] < q[2])
Earliest(ps) == CHOOSE p \in ps : \A q \in ps \ {p} : ScansBefore(p, q)
Latest(ps)   == CHOOSE p \in ps : \A q \in ps \ {p} : ScansBefore(q, p)

CatalogInit ==
    /\ skillFile \in [SkillPaths -> {NoFile} \cup [name : Stems, stamp : {1}]]
    /\ \A p \in OnDisk : skillFile[p].name = p[2]
    /\ skillEntry = <<>> /\ skillOrder = <<>>
    /\ cachedAgent = [k \in AgentKeys |-> NoPrompt]
    /\ reload = [NoReload EXCEPT !.by = "start", !.at = "scan", !.todo = OnDisk]
    /\ eaten = FALSE
    /\ edited = 1

\* Somebody writes or deletes a file.
EditSkillFile(p) ==
    /\ edited < MaxEdits
    /\ edited' = edited + 1
    /\ skillFile' \in {[skillFile EXCEPT ![p] = f] :
           f \in {NoFile} \cup [name : Stems \cup {Unreadable}, stamp : {edited + 1}]}
    /\ reload' = [reload EXCEPT !.quiet = FALSE]
    /\ UNCHANGED <<skillEntry, skillOrder, cachedAgent, eaten>>

\* A turn begins, or an agent calls reload_prompt_skills: reload_if_changed.
BeginReload(by, key) ==
    /\ reload.at = "idle"
    /\ reload' = [NoReload EXCEPT !.by = by, !.key = key, !.at = "check", !.todo = OnDisk]
    /\ UNCHANGED <<skillFile, skillEntry, skillOrder, cachedAgent, eaten, edited>>

-----------------------------------------------------------------------------
\* A file that the registry does not have under its stem, with its mtime.
Differs(p) ==
    \/ p[2] \notin DOMAIN skillEntry
    \/ skillEntry[p[2]].path # p
    \/ skillEntry[p[2]].mtime # skillFile[p].stamp

\* "Also catches deletions": as many files as skills.
Drifted == Cardinality(OnDisk) # Cardinality(DOMAIN skillEntry)

Returns(at) == [reload EXCEPT !.at = at, !.todo = {}, !.read = NoFile]

\* The files of the first listing are compared; one that is gone by then raises.
CheckMtimes ==
    LET changed == {p \in reload.todo \cap OnDisk : Differs(p)}
        gone == reload.todo \ OnDisk
    IN  /\ reload.at = "check"
        /\ \/ /\ (changed # {} \/ (gone = {} /\ Drifted))
              /\ skillEntry' = <<>> /\ skillOrder' = <<>>
              /\ reload' = [reload EXCEPT !.at = "scan", !.todo = OnDisk]
           \/ /\ gone # {}
              /\ reload' = Returns("raised")
              /\ UNCHANGED <<skillEntry, skillOrder>>
           \/ /\ changed = {} /\ gone = {} /\ ~Drifted
              /\ reload' = Returns("same")
              /\ UNCHANGED <<skillEntry, skillOrder>>
        /\ UNCHANGED <<skillFile, cachedAgent, eaten, edited>>

\* parse_skill_file; a file that is gone or cannot be parsed is skipped.
ParseSkillFile ==
    /\ reload.at = "scan" /\ reload.todo # {} /\ reload.read = NoFile
    /\ LET p == Earliest(reload.todo)
           f == skillFile[p]
       IN  reload' = IF f.name = Unreadable THEN [reload EXCEPT !.todo = @ \ {p}]
                     ELSE [reload EXCEPT !.read = f]
    /\ UNCHANGED <<skillFile, skillEntry, skillOrder, cachedAgent, eaten, edited>>

\* _SkillEntry with path.stat(), outside the try: a file that went since raises.
EnterSkill ==
    /\ reload.at = "scan" /\ reload.read # NoFile
    /\ LET p == Earliest(reload.todo)
           n == reload.read.name
       IN  IF p \in OnDisk
           THEN /\ skillEntry' = [m \in DOMAIN skillEntry \cup {n} |->
                       IF m = n THEN [path |-> p, text |-> reload.read.stamp,
                                      mtime |-> skillFile[p].stamp]
                       ELSE skillEntry[m]]
                /\ skillOrder' = IF n \in DOMAIN skillEntry THEN skillOrder ELSE Append(skillOrder, n)
                /\ reload' = [reload EXCEPT !.todo = @ \ {p}, !.read = NoFile]
                /\ UNCHANGED eaten
           ELSE /\ reload' = Returns("raised")
                /\ eaten' = TRUE
                /\ UNCHANGED <<skillEntry, skillOrder>>
    /\ UNCHANGED <<skillFile, cachedAgent, edited>>

\* len(self._entries) is returned: 0 if no skill is left.
ScanEnds ==
    /\ reload.at = "scan" /\ reload.todo = {}
    /\ reload' = Returns(IF DOMAIN skillEntry = {} THEN "same" ELSE "changed")
    /\ eaten' = (eaten \/ DOMAIN skillEntry = {})
    /\ UNCHANGED <<skillFile, skillEntry, skillOrder, cachedAgent, edited>>

-----------------------------------------------------------------------------
\* render_context: the skills in the order of the dictionary, cut off.
RenderContext ==
    [i \in 1..(IF Len(skillOrder) < MaxShown THEN Len(skillOrder) ELSE MaxShown) |->
        <<skillOrder[i], skillEntry[skillOrder[i]].text>>]

AllDropped == [k \in AgentKeys |-> NoPrompt]

\* Mutant of Dropped: only the agent of this turn is built anew.
DroppedOne == [cachedAgent EXCEPT ![reload.key] = NoPrompt]

\* self._agents.clear()
Dropped == AllDropped

\* The turn goes on to _get_agent.
TurnGetsAgent ==
    LET kept == IF reload.at = "changed" THEN Dropped ELSE cachedAgent
    IN  /\ reload.by = "turn" /\ reload.at \in {"same", "changed"}
        /\ eaten' = IF reload.at = "changed" THEN FALSE ELSE eaten
        /\ cachedAgent' = [kept EXCEPT ![reload.key] = IF @ = NoPrompt THEN RenderContext ELSE @]
        /\ reload' = [reload EXCEPT !.at = "agent"]
        /\ UNCHANGED <<skillFile, skillEntry, skillOrder, edited>>

\* reload_prompt_skills answers with the names; nobody clears the cache.
ToolAnswers ==
    /\ reload.by # "turn" /\ reload.at \in {"same", "changed"}
    /\ eaten' = (eaten \/ (reload.at = "changed" /\ reload.by = "tool"))
    /\ reload' = [reload EXCEPT !.at = "answered"]
    /\ UNCHANGED <<skillFile, skillEntry, skillOrder, cachedAgent, edited>>

\* The registry is used by others again; an exception ends the turn or the tool,
\* and what a scan has cleared by then may have changed.  One that the scan of
\* the start raises ends the program.
ReloadOver ==
    /\ reload.at \in {"agent", "answered", "raised"}
    /\ ~(reload.by = "start" /\ reload.at = "raised")
    /\ reload' = NoReload
    /\ UNCHANGED <<skillFile, skillEntry, skillOrder, cachedAgent, eaten, edited>>

CatalogNext ==
    \/ \E p \in SkillPaths : EditSkillFile(p)
    \/ \E k \in AgentKeys : BeginReload("turn", k) \/ BeginReload("tool", k)
    \/ CheckMtimes \/ ParseSkillFile \/ EnterSkill \/ ScanEnds
    \/ TurnGetsAgent \/ ToolAnswers \/ ReloadOver

CatalogSpec == CatalogInit /\ [][CatalogNext]_catalogVars

-----------------------------------------------------------------------------
(* Properties.                                                                   *)

\* What a scan of the directories would find: of the files with a name the
\* last one in the order of the scan.
Winner(n) == Latest({p \in OnDisk : skillFile[p].name = n})
Written == {skillFile[p].name : p \in OnDisk} \ {Unreadable}

\* A reload that nobody disturbed has the catalog of the files, whatever was
\* written, renamed, shadowed, spoilt or deleted before, and in whatever state
\* an earlier exception left it; unless a file was edited between the
\* reading and the stat of an earlier scan, which no later reload notices.
CatalogIsCurrent ==
    reload.at \in {"same", "changed", "agent", "answered"} /\ reload.quiet =>
        \/ /\ DOMAIN skillEntry = Written
           /\ \A n \in Written : /\ skillEntry[n].path = Winner(n)
                                 /\ skillEntry[n].text = skillFile[Winner(n)].stamp
        \/ \E n \in DOMAIN skillEntry : skillEntry[n].text # skillEntry[n].mtime

\* The agent of a turn was built with the catalog as it is, unless the tool
\* reloaded it, the last skill went, or a scan raised, since the cache was cleared.
TurnSpeaksTheCatalog ==
    reload.at = "agent" => cachedAgent[reload.key] = RenderContext \/ eaten

SkillsReachThePrompt == CatalogIsCurrent /\ TurnSpeaksTheCatalog

\* What the handler's comment says of every turn: "Cache is then cleared so the
\* next _get_agent rebuilds with refreshed catalog" (ryuu_handler.py:643).
TurnsSeeEveryReload ==
    reload.at = "agent" => cachedAgent[reload.key] = RenderContext

=============================================================================
