----------------------------- MODULE SenseiApp -----------------------------
(*******************************************************************************)
(* The assistant built on the framework: the Telegram adapter and its          *)
(* commands, the streaming gateway, the command line, RyuuHandler with its     *)
(* settings, statistics and agent cache, and the two stores behind it.         *)
(* There is one scope, "owner" (SingleTenantResolver).                         *)
(*                                                                             *)
(* A request is a chat message or a command.  Each runs as a coroutine and     *)
(* may be overtaken by any other wherever it awaits: at a store, at the        *)
(* language model, at Telegram.  How the orchestrator answers a message that   *)
(* meets a running task is the business of ScopeDispatcher; here it is one     *)
(* step that leaves the session alone.                                         *)
(*                                                                             *)
(* A turn of the history is the set of the utterances it stands for: one, or   *)
(* those a summary replaced.  The statistics are the set of requests that      *)
(* were counted.  What a message says, tokens and prompts are left out.        *)
(*******************************************************************************)
EXTENDS Naturals, Sequences, FiniteSets, SequencesExt

CONSTANTS NumRequests,  \* messages and commands, bound of the run
          Overlapping,  \* how many of them may overlap, bound of the run
          Toggles,      \* the settings that commands switch
          ChatModels,       \* ALLOWED_MODELS
          DefaultModel, \* DEFAULT_MODEL
          KeepRecent,   \* compact_keep_recent
          MaxTurns,     \* Session.max_turns
          MaxRestarts,  \* bound of the run
          Nobody        \* no request, no row, no agent

Requests == 1 .. NumRequests   \* in the order of their arrival

ASSUME SenseiAssumption ==
    /\ NumRequests \in Nat /\ Overlapping \in Nat
    /\ Toggles \subseteq {"verbose", "auto_compact", "adaptive_routing", "streaming"}
    /\ DefaultModel \in ChatModels
    /\ KeepRecent \in Nat \ {0} /\ MaxTurns \in Nat \ {0}
    /\ Nobody \notin Requests

UserSettings == [verbose : BOOLEAN, auto_compact : BOOLEAN, adaptive_routing : BOOLEAN,
                 streaming : BOOLEAN, model : ChatModels]
StoredStates == [settings : UserSettings, stats : SUBSET Requests]

ASSUME NobodyAssumption == Nobody \notin StoredStates

Defaults == [verbose |-> FALSE, auto_compact |-> TRUE, adaptive_routing |-> FALSE,
             streaming |-> FALSE, model |-> DefaultModel]

Keys == ChatModels \X BOOLEAN

Operations ==
    [kind : {"telegram", "cli", "clear", "compact", "look"}]
    \cup [kind : {"set"}, flag : Toggles, on : BOOLEAN]
    \cup [kind : {"model"}, model : ChatModels]

VARIABLES row,          \* handler_state: the stored settings and statistics
          session,      \* sessions: the stored history, empty if there is none
          settings, stats, loaded,   \* RyuuHandler.settings, .stats, ._state_loaded
          agents,       \* RyuuHandler._agents: the request that built the agent
          callbacks,    \* whose callbacks each agent carries
          running,      \* the request whose task the dispatcher tracks
          task,         \* what each request holds, see Fresh
          restarts,
          answered,     \* history: what was said in answered turns since the last /clear
          overlapped    \* history: two requests were under way at once

stores  == <<row, session>>
memory  == <<settings, stats, loaded>>
cache   == <<agents, callbacks>>
history == <<answered, overlapped>>
senseiVars == <<row, session, settings, stats, loaded, agents, callbacks, running,
             task, restarts, answered, overlapped>>

Fresh == [pc     |-> "new",
          op     |-> [kind |-> "look"],
          view   |-> Nobody,    \* the row it read, or is writing
          copy   |-> <<>>,      \* its own Session
          agent  |-> Nobody,    \* the agent it uses
          before |-> Nobody]    \* the callbacks it found there

pc(r) == task[r].pc
op(r) == task[r].op

Idle     == {"new", "done", "failed", "lost"}
InProgress == {r \in Requests : pc(r) \notin Idle}
Busy     == running # Nobody

Turns(h) == UNION {h[i] : i \in DOMAIN h}

\* Session.append drops the oldest turns.
Recent(h)   == SubSeq(h, Len(h) - MaxTurns + 1, Len(h))
AppendTo(h, turn) == IF Len(h) < MaxTurns THEN Append(h, turn) ELSE Recent(Append(h, turn))
Utterances(r)     == <<<<r, "user">>, <<r, "assistant">>>>

SenseiInit ==
    /\ row = Nobody /\ session = <<>>
    /\ settings = Defaults /\ stats = {} /\ loaded = FALSE
    /\ agents = [k \in Keys |-> Nobody]
    /\ callbacks = [r \in Requests |-> Nobody]
    /\ running = Nobody
    /\ task = [r \in Requests |-> Fresh]
    /\ restarts = 0 /\ answered = <<>> /\ overlapped = FALSE

\* The next await of a request; at its end everything it held is let go.
Become(r, t) == task' = [task EXCEPT ![r] = t]
Goto(r, l)   == Become(r, [task[r] EXCEPT !.pc = l])
End(r, l)    == Become(r, [Fresh EXCEPT !.pc = l])

(*******************************************************************************)
(* _load_state is awaited by the gateway, by every handler call and by every   *)
(* command but /clear and /compact.  It returns at once when the scope is      *)
(* loaded; otherwise it reads the row and, when the answer is back, puts new   *)
(* settings and statistics in place of whatever is there.                      *)
(*******************************************************************************)
Reading == [gate |-> "reading gate", handle |-> "reading handle", apply |-> "reading apply"]
Loading == [gate |-> "loading gate", handle |-> "loading handle", apply |-> "loading apply"]

AfterLoad(r, t, l) == Become(r, [t EXCEPT !.pc = IF loaded THEN l ELSE Reading[l]])

ReadState(r) ==
    /\ \E l \in DOMAIN Reading :
          /\ pc(r) = Reading[l]
          /\ Become(r, [task[r] EXCEPT !.pc = Loading[l], !.view = row])
    /\ UNCHANGED <<stores, memory, cache, running, restarts, history>>

LoadState(r) ==
    /\ \E l \in DOMAIN Loading :
          /\ pc(r) = Loading[l]
          /\ Become(r, [task[r] EXCEPT !.pc = l, !.view = Nobody])
    /\ loaded' = TRUE
    /\ IF task[r].view = Nobody
       THEN UNCHANGED <<settings, stats>>
       ELSE settings' = task[r].view.settings /\ stats' = task[r].view.stats
    /\ UNCHANGED <<stores, cache, running, restarts, history>>

\* _save_state takes its snapshot when it is called; the write lands later.
SaveState(t, s, counted) == [t EXCEPT !.view = [settings |-> s, stats |-> counted]]

(*******************************************************************************)
(* A message or a command comes in.  The command line reads its next line      *)
(* only when the last one is answered; Telegram updates are handled as they    *)
(* arrive.                                                                     *)
(*******************************************************************************)
Arrive(r, o) ==
    LET t == [task[r] EXCEPT !.op = o] IN
    /\ pc(r) = "new" /\ \A q \in 1 .. r - 1 : pc(q) # "new"
    /\ InProgress # {} => r <= Overlapping
    /\ o.kind = "cli" => \A q \in InProgress : op(q).kind # "cli"
    /\ overlapped' = (overlapped \/ InProgress # {})
    /\ CASE o.kind = "telegram"                 -> AfterLoad(r, t, "gate")
         [] o.kind \in {"cli", "compact"}       -> Become(r, [t EXCEPT !.pc = "session"])
         [] o.kind = "clear"                    -> Become(r, [t EXCEPT !.pc = "deleting"])
         [] o.kind \in {"set", "model", "look"} -> AfterLoad(r, t, "apply")
    /\ UNCHANGED <<stores, memory, cache, running, restarts, answered>>

(*******************************************************************************)
(* stream_gateway takes a message past the orchestrator when streaming is on   *)
(* and the dispatcher tracks no task; such a turn is tracked by nobody.        *)
(*******************************************************************************)
Gate(r) ==
    /\ pc(r) = "gate"
    /\ Goto(r, IF ~settings.streaming \/ Busy THEN "session" ELSE "placeholder")
    /\ UNCHANGED <<stores, memory, cache, running, restarts, history>>

SendPlaceholder(r) ==
    /\ pc(r) = "placeholder"
    /\ Goto(r, "stream session") \/ End(r, "failed")
    /\ UNCHANGED <<stores, memory, cache, running, restarts, history>>

LoadSession(r) ==
    /\ pc(r) \in {"session", "stream session"}
    /\ Become(r, [task[r] EXCEPT !.pc = IF @ = "session" THEN "routing" ELSE "streaming",
                                 !.copy = session])
    /\ UNCHANGED <<stores, memory, cache, running, restarts, history>>

\* Stopped, steered or put off: the dispatcher answers for a busy scope.
AnswerBusy(r) ==
    /\ pc(r) = "routing" /\ op(r).kind # "compact" /\ Busy
    /\ End(r, "done")
    /\ UNCHANGED <<stores, memory, cache, running, restarts, history>>

StartTask(r) ==
    /\ \/ pc(r) = "routing" /\ op(r).kind # "compact" /\ ~Busy /\ running' = r
       \/ pc(r) = "streaming" /\ UNCHANGED running
    /\ AfterLoad(r, task[r], "handle")
    /\ UNCHANGED <<stores, memory, cache, restarts, history>>

Streams(r) == running # r

\* The end of _run_handler: whoever is tracked is tracked no longer.
Leave(r, l) ==
    /\ End(r, l)
    /\ running' = IF Streams(r) THEN running ELSE Nobody

(*******************************************************************************)
(* RyuuHandler.handle.  Adaptive routing needs a difficulty_fn and the         *)
(* application wires none: with the setting on, every turn raises.             *)
(*******************************************************************************)
SelectModelFails(r) ==
    /\ pc(r) = "handle" /\ settings.adaptive_routing
    /\ Leave(r, "failed")
    /\ UNCHANGED <<stores, memory, cache, restarts, history>>

TooShort(h) == Len(h) <= KeepRecent

\* _get_agent, then the decision to compact: by the tokens of the last turn.
BeginTurn(r) ==
    LET key == <<settings.model, settings.verbose>>
        own == IF agents[key] = Nobody THEN r ELSE agents[key]
    IN
    /\ pc(r) = "handle" /\ ~settings.adaptive_routing
    /\ agents' = [agents EXCEPT ![key] = own]
    /\ \E l \in {"prompting", "compacting"} :
          /\ l = "compacting" => settings.auto_compact /\ ~TooShort(task[r].copy)
          /\ Become(r, [task[r] EXCEPT !.pc = l, !.agent = own])
    /\ UNCHANGED <<stores, memory, callbacks, running, restarts, history>>

\* Mutant: the summary is left out.
CompactedDroppingTheOld(h) == SubSeq(h, Len(h) - KeepRecent + 1, Len(h))

Compacted(h) ==
    LET old == SubSeq(h, 1, Len(h) - KeepRecent) IN
    <<Turns(old)>> \o SubSeq(h, Len(h) - KeepRecent + 1, Len(h))

Compact(r) ==
    /\ pc(r) = "compacting"
    /\ Become(r, [task[r] EXCEPT !.copy = Compacted(@),
                  !.pc = IF op(r).kind = "compact" THEN "saving session" ELSE "prompting"])
    /\ UNCHANGED <<stores, memory, cache, running, restarts, history>>

CompactFails(r) ==
    /\ pc(r) = "compacting"
    /\ Leave(r, "failed")
    /\ UNCHANGED <<stores, memory, cache, restarts, history>>

(*******************************************************************************)
(* Memory and profile are read, the prompt is put together, and the agent      *)
(* gets this turn's callbacks when it streams or is verbose.                   *)
(*******************************************************************************)
WithCallbacks(r) == (Streams(r) /\ settings.streaming) \/ settings.verbose

RunAgent(r) ==
    /\ pc(r) = "prompting"
    /\ IF WithCallbacks(r)
       THEN /\ callbacks' = [callbacks EXCEPT ![task[r].agent] = r]
            /\ Become(r, [task[r] EXCEPT !.pc = "running", !.before = callbacks[task[r].agent]])
       ELSE UNCHANGED callbacks /\ Goto(r, "running bare")
    /\ UNCHANGED <<stores, memory, agents, running, restarts, history>>

Turning == {"running", "running bare"}

RestoreCallbacks(r) ==
    callbacks' = IF pc(r) = "running"
                 THEN [callbacks EXCEPT ![task[r].agent] = task[r].before]
                 ELSE callbacks

\* The turn is appended to the session; with a cost it is counted and saved.
EndTurn(r) ==
    LET t == [task[r] EXCEPT !.copy = AppendTo(AppendTo(@, {Utterances(r)[1]}), {Utterances(r)[2]})] IN
    /\ pc(r) \in Turning
    /\ RestoreCallbacks(r)
    /\ \/ /\ stats' = stats \cup {r}
          /\ Become(r, SaveState([t EXCEPT !.pc = "saving state"], settings, stats'))
       \/ /\ Become(r, [t EXCEPT !.pc = "saving session"])
          /\ UNCHANGED stats
    /\ UNCHANGED <<stores, settings, loaded, agents, running, restarts, history>>

FailTurn(r) ==
    /\ pc(r) \in Turning
    /\ RestoreCallbacks(r)
    /\ Leave(r, "failed")
    /\ UNCHANGED <<stores, memory, agents, restarts, history>>

\* STOP cancels the tracked task wherever it waits; a write under way may land.
StopTurn(r) ==
    /\ running = r /\ \E q \in Requests : pc(q) = "routing" /\ op(q).kind # "compact"
    /\ RestoreCallbacks(r)
    /\ Leave(r, "failed")
    /\ \/ UNCHANGED stores
       \/ pc(r) = "saving state" /\ row' = task[r].view /\ UNCHANGED session
       \/ pc(r) = "saving session" /\ session' = task[r].copy /\ UNCHANGED row
    /\ UNCHANGED <<memory, agents, restarts, history>>

SaveSession(r) ==
    /\ pc(r) = "saving session"
    /\ session' = task[r].copy
    /\ answered' = IF op(r).kind = "compact" THEN answered ELSE answered \o Utterances(r)
    /\ Leave(r, "done")
    /\ UNCHANGED <<row, memory, cache, restarts, overlapped>>

(*******************************************************************************)
(* Commands.  A fixed model also switches adaptive routing off, with a save    *)
(* of its own.                                                                 *)
(*******************************************************************************)
Look(r) ==
    /\ pc(r) = "apply" /\ op(r).kind = "look"
    /\ End(r, "done")
    /\ UNCHANGED <<stores, memory, cache, running, restarts, history>>

Set(r, f, v, l) ==
    /\ settings' = [settings EXCEPT ![f] = v]
    /\ Become(r, SaveState([task[r] EXCEPT !.pc = l], settings', stats))
    /\ UNCHANGED <<stores, stats, loaded, cache, running, restarts, history>>

ApplySetting(r) ==
    /\ pc(r) = "apply"
    /\ \/ op(r).kind = "set" /\ Set(r, op(r).flag, op(r).on, "saving setting")
       \/ op(r).kind = "model" /\ Set(r, "model", op(r).model, "saving model")

SaveRow(r) ==
    /\ row' = task[r].view
    /\ \/ pc(r) = "saving state" /\ Goto(r, "saving session")
       \/ pc(r) = "saving setting" /\ End(r, "done")
       \/ pc(r) = "saving model" /\ Goto(r, "fixing")
    /\ UNCHANGED <<session, memory, cache, running, restarts, history>>

FixModel(r) ==
    /\ pc(r) = "fixing"
    /\ \/ settings.adaptive_routing /\ Set(r, "adaptive_routing", FALSE, "saving setting")
       \/ /\ ~settings.adaptive_routing /\ End(r, "done")
          /\ UNCHANGED <<stores, memory, cache, running, restarts, history>>

\* /compact works on a session of its own and saves it even when it is short.
BeginCompact(r) ==
    /\ pc(r) = "routing" /\ op(r).kind = "compact"
    /\ Goto(r, IF TooShort(task[r].copy) THEN "saving session" ELSE "compacting")
    /\ UNCHANGED <<stores, memory, cache, running, restarts, history>>

(*******************************************************************************)
(* /clear deletes the session, then drops the statistics and saves: without    *)
(* loading first, and with the scope marked as not loaded.                     *)
(*******************************************************************************)
DeleteSession(r) ==
    /\ pc(r) = "deleting"
    /\ session' = <<>> /\ answered' = <<>>
    /\ stats' = {} /\ loaded' = FALSE
    /\ Become(r, SaveState([task[r] EXCEPT !.pc = "saving setting"], settings, {}))
    /\ UNCHANGED <<row, settings, cache, running, restarts, overlapped>>

\* A skill installed or reloaded in a turn drops the cached agents.
DropAgents ==
    /\ \E r \in Requests : pc(r) \in Turning
    /\ \E k \in Keys : agents[k] # Nobody
    /\ agents' = [k \in Keys |-> Nobody]
    /\ UNCHANGED <<stores, memory, callbacks, running, task, restarts, history>>

\* The process ends; what was in memory is gone.
Restart ==
    /\ restarts < MaxRestarts
    /\ restarts' = restarts + 1
    /\ settings' = Defaults /\ stats' = {} /\ loaded' = FALSE
    /\ agents' = [k \in Keys |-> Nobody]
    /\ callbacks' = [r \in Requests |-> Nobody]
    /\ running' = Nobody
    /\ task' = [r \in Requests |->
                  IF r \in InProgress THEN [Fresh EXCEPT !.pc = "lost"] ELSE task[r]]
    /\ UNCHANGED <<stores, history>>

RequestStep(r) ==
    \/ ReadState(r) \/ LoadState(r) \/ Gate(r) \/ SendPlaceholder(r)
    \/ LoadSession(r) \/ AnswerBusy(r) \/ StartTask(r) \/ SelectModelFails(r)
    \/ BeginTurn(r) \/ Compact(r) \/ CompactFails(r) \/ RunAgent(r)
    \/ EndTurn(r) \/ FailTurn(r) \/ StopTurn(r) \/ SaveSession(r)
    \/ Look(r) \/ ApplySetting(r) \/ SaveRow(r) \/ FixModel(r)
    \/ BeginCompact(r) \/ DeleteSession(r)

SenseiNext ==
    \/ \E r \in Requests : RequestStep(r) \/ \E o \in Operations : Arrive(r, o)
    \/ DropAgents \/ Restart

SenseiSpec == SenseiInit /\ [][SenseiNext]_senseiVars

-----------------------------------------------------------------------------
AtRest == InProgress = {}

\* As long as one request runs at a time, the store holds what the scope's owner last
\* chose and spent, through failed turns, stopped turns and restarts; and the latest
\* MaxTurns utterances of answered turns stay in the stored history, in their order,
\* each as a turn of its own or in a summary, until the conversation is cleared:
\* compaction, a change of model and a restart lose none (RyuuHandler._load_state,
\* _save_state, handle, manual_compact, Session.append, the session store).  A /clear
\* that is the first request of a process saves the defaults over what was chosen:
\* reset_scope saves without loading (ryuu_handler.py:425-427).
SequentialScopeIsStored ==
    AtRest /\ ~overlapped =>
        /\ loaded => IF row = Nobody THEN settings = Defaults /\ stats = {}
                     ELSE row = [settings |-> settings, stats |-> stats]
        /\ \A i \in DOMAIN answered : i > Len(answered) - MaxTurns =>
              \E k \in DOMAIN session :
                 /\ answered[i] \in session[k]
                 /\ \A j \in i + 1 .. Len(answered) :
                       answered[j] \in Turns(SubSeq(session, k, Len(session)))

\* A cached agent at rest carries the callbacks it was built with, never those
\* of an earlier turn, whose chat message they would edit: also after a turn
\* that failed or whose agent was dropped from the cache meanwhile (the finally
\* of RyuuHandler.handle).
NoForeignCallbacks ==
    AtRest /\ ~overlapped => \A k \in Keys : agents[k] # Nobody => callbacks[agents[k]] = Nobody

\* What a request leaves to the next one is its owner's: the stores and the agents (both
\* of them).
OwnerIsServed == SequentialScopeIsStored /\ NoForeignCallbacks
=============================================================================
