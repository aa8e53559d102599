---------------------------- MODULE SuiteConfig ----------------------------
(*********************************************************************************)
(* suite_config/<suite>.json of the evaluation API (ryuu_eval/http/router.py):   *)
(* title, default prompt and template_id of a suite, the last one being the      *)
(* category that chooses the target and the scorers of its runs.                 *)
(*                                                                               *)
(* One suite.  The two PUT endpoints are plain "def": each runs in a thread      *)
(* and meets the others between any two file operations.  write_text empties     *)
(* the file when it opens it and fills it when it closes it.                     *)
(*********************************************************************************)
EXTENDS Naturals

CONSTANTS
    Savers,      \* requests that are in a thread at a time
    Categories,  \* template ids
    MaxSaves,    \* bound: requests sent
    NoCategory

ASSUME SuiteConfigAssumption == MaxSaves \in Nat /\ NoCategory \notin Categories

VARIABLES
    config,    \* the file: its generation, whether it parses, the keys it has
    saver,     \* the threads
    category,  \* template_id of the POST /suites that made the suite
    runner,    \* the last run: template_id it was built with, and due to it
    crowded,   \* history: two requests met since the suite was created
    saves

configVars == <<config, saver, category, runner, crowded, saves>>

-----------------------------------------------------------------------------
Keys == {"title", "prompt"}
\* What a dictionary of the file holds: which plain keys, which category.
Empty == [keys |-> {}, template |-> NoCategory]
Absent == [gen |-> 0, data |-> "absent", dict |-> Empty]
IdleSaver == [at |-> "idle", key |-> "title", seen |-> Empty, gen |-> 0]

ConfigInit ==
    /\ config = Absent
    /\ saver = [s \in Savers |-> IdleSaver]
    /\ category = NoCategory
    /\ runner = [got |-> NoCategory, due |-> NoCategory]
    /\ crowded = FALSE
    /\ saves = 0

\* _read_suite_config: no file and a file that does not parse are both {}.
ReadConfig == IF config.data = "json" THEN config.dict ELSE Empty

Saving == {s \in Savers : saver[s].at # "idle"}

Count ==
    /\ saves < MaxSaves
    /\ saves' = saves + 1

Generation == IF config.data = "absent" THEN config.gen + 1 ELSE config.gen

\* create_suite, on the event loop: between two steps of a thread.  A suite that
\* is there is created again: what the body names replaces what the file has.
CreateConfig ==
    /\ Count
    /\ \/ \E c \in Categories :
             /\ config' = [gen |-> Generation, data |-> "json",
                           dict |-> [ReadConfig EXCEPT !.template = c]]
             /\ category' = c
             /\ crowded' = (Saving # {})
       \/ /\ config' = [gen |-> Generation, data |-> "json",
                        dict |-> [ReadConfig EXCEPT !.keys = @ \cup {"title"}]]
          /\ crowded' = (crowded \/ Saving # {})
          /\ UNCHANGED category
    /\ UNCHANGED <<saver, runner>>

\* delete_suite.  A thread that has the file open goes on writing to no file.
\* With a suite_store the file stays, and the next suite of that name finds it.
DeleteConfig ==
    /\ Count
    /\ \/ /\ config' = [Absent EXCEPT !.gen = config.gen]
          /\ category' = NoCategory
          /\ crowded' = (Saving # {})
       \/ UNCHANGED <<config, category, crowded>>
    /\ UNCHANGED <<saver, runner>>

\* update_suite_metadata, save_default_prompt: existing = _read_suite_config.
ReadForSave(s) ==
    /\ saver[s].at = "idle" /\ Count
    /\ \E k \in Keys : saver' = [saver EXCEPT ![s] = [at |-> "read", key |-> k,
                                                      seen |-> ReadConfig, gen |-> 0]]
    /\ crowded' = (crowded \/ Saving # {})
    /\ UNCHANGED <<config, category, runner>>

OpenForSave(s) ==
    /\ saver[s].at = "read"
    /\ config' = [gen |-> Generation, data |-> "empty", dict |-> Empty]
    /\ saver' = [saver EXCEPT ![s].at = "open", ![s].gen = config'.gen]
    /\ UNCHANGED <<category, runner, crowded, saves>>

\* Mutant of Updated: the new keys replace the dictionary.
UpdatedFresh(dict, k) == [Empty EXCEPT !.keys = {k}]

\* existing.update(data)
Updated(dict, k) == [dict EXCEPT !.keys = @ \cup {k}]

\* What was filled meanwhile may stick out behind a shorter text.
FillFile(s) ==
    /\ saver[s].at = "open"
    /\ config' \in
          IF config.data = "absent" \/ config.gen # saver[s].gen THEN {config}
          ELSE LET mine == [config EXCEPT !.data = "json",
                                          !.dict = Updated(saver[s].seen, saver[s].key)]
               IN  IF config.data = "empty" THEN {mine}
                   ELSE {mine, [config EXCEPT !.data = "garbage", !.dict = Empty]}
    /\ saver' = [saver EXCEPT ![s] = IdleSaver]
    /\ UNCHANGED <<category, runner, crowded, saves>>

\* _call_runner_factory of a run or of a single case.
BuildRunner ==
    /\ runner' = [got |-> ReadConfig.template, due |-> category]
    /\ UNCHANGED <<config, saver, category, crowded, saves>>

ConfigNext ==
    \/ CreateConfig \/ DeleteConfig \/ BuildRunner
    \/ \E s \in Savers : ReadForSave(s) \/ OpenForSave(s) \/ FillFile(s)

ConfigSpec == ConfigInit /\ [][ConfigNext]_configVars

-----------------------------------------------------------------------------
(* Properties.                                                                   *)

\* Whatever is saved about a suite later, one request after the other, its
\* runs are built for the category it was created with: saving a title or a
\* prompt reads the file, changes one key and writes everything back.
SequentialSavesKeepTheCategory ==
    ~crowded /\ Saving = {} => ReadConfig.template = category

=============================================================================
