-------------------------- MODULE ScopeDispatcher --------------------------
(*******************************************************************************)
(* The messages of one scope going through ChannelOrchestrator._dispatch,      *)
(* ScopeDispatcher and the session store.                                      *)
(*                                                                             *)
(* Every message is handled by a coroutine of its own; a message that finds    *)
(* the scope idle starts a handler task and awaits it.  A step is the code     *)
(* between two awaits.  An await that a backend may or may not suspend in      *)
(* (an in-memory or an SQLite session store, a dispatcher with or without an   *)
(* LLM provider) ends a step: the behaviours of the backend that does not      *)
(* suspend are among those of the one that does.                               *)
(*                                                                             *)
(* Scopes share nothing: the dispatcher's states and the sessions are keyed    *)
(* by scope_key.  A session is abstracted to the messages whose turn is in     *)
(* its history (trimming to max_turns left out) and to its _carry_steer.       *)
(*******************************************************************************)
EXTENDS Naturals, FiniteSets

CONSTANTS
    Messages,   \* the messages of the scope; each names its handler task too
    NoTask,     \* ScopeState._task is None; an empty task_summary
    MaxClears   \* bound: /clear commands

ASSUME DispatcherAssumption ==
    /\ NoTask \notin Messages
    /\ MaxClears \in Nat

VARIABLES
    pc,         \* what the coroutine of each message awaits
    task,       \* the handler task of each message
    cancelled,  \* tasks whose cancellation was requested
    scope,      \* the one ScopeState of the scope
    session,    \* each message's own copy of the session
    store,      \* the session as stored
    target,     \* the task a STOP waits for
    reply,      \* what each message was answered
    named,      \* the task the answer to a STOP names, by its task_summary
    applied,    \* steer messages in the prompt of each handler
    steers,     \* the handler that was still at work when a STEER was acknowledged
    late,       \* STEERs acknowledged when no handler was left to take them
    clobbered,  \* a finish_task reset the state of another message's task
    clears

vars == <<pc, task, cancelled, scope, session, store, target, reply, named, applied,
          steers, late, clobbered, clears>>
taskVars == <<task, cancelled, session, store, applied>>
answerVars == <<target, reply, named, steers, late>>

-----------------------------------------------------------------------------
Live == {"ready", "handling", "saving"}
Ended == {"completed", "failed", "cancelled"}
EmptySession == [history |-> {}, carry |-> {}]
\* ScopeState.reset, and a ScopeState as constructed
IdleScope == [task |-> NoTask, steer |-> {}, summary |-> NoTask]

Init ==
    /\ pc = [m \in Messages |-> "new"]
    /\ task = [m \in Messages |-> "none"]
    /\ cancelled = {}
    /\ scope = IdleScope
    /\ session = [m \in Messages |-> EmptySession]
    /\ store = EmptySession
    /\ target = [m \in Messages |-> NoTask]
    /\ reply = [m \in Messages |-> "none"]
    /\ named = [m \in Messages |-> NoTask]
    /\ applied = [m \in Messages |-> {}]
    /\ steers = [m \in Messages |-> NoTask]
    /\ late = {}
    /\ clobbered = FALSE
    /\ clears = 0

\* ScopeDispatcher.is_running: the attached task is not done
IsRunning == scope.task # NoTask /\ task[scope.task] \in Live
\* The attached task has yet to drain the steer queue: its prompt or its leftovers are
\* to come.  A task that is saving its session, and one that is over, has drained it.
TakesSteers == scope.task # NoTask /\ task[scope.task] \in {"ready", "handling"}

Reply(m, answer) ==
    /\ reply' = [reply EXCEPT ![m] = answer]
    /\ pc' = [pc EXCEPT ![m] = "done"]

-----------------------------------------------------------------------------
\* The coroutine of a message: _dispatch.

\* get_session has read the store; the coroutine has not resumed yet.
GetSession(m) ==
    /\ pc[m] = "new"
    /\ session' = [session EXCEPT ![m] = store]
    /\ pc' = [pc EXCEPT ![m] = "loaded"]
    /\ UNCHANGED <<task, cancelled, scope, store, applied, answerVars, clobbered, clears>>

\* A task is running: classify the message.
Route(m) ==
    /\ pc[m] = "loaded"
    /\ IsRunning
    /\ pc' = [pc EXCEPT ![m] = "classifying"]
    /\ UNCHANGED <<taskVars, scope, answerVars, clobbered, clears>>

\* Mutant of StartTask: a handler is started without asking whether one runs.
StartTaskUnguarded(m) ==
    /\ pc[m] = "loaded"
    /\ task' = [task EXCEPT ![m] = "ready"]
    /\ scope' = [IdleScope EXCEPT !.task = m]
    /\ pc' = [pc EXCEPT ![m] = "summarizing"]
    /\ UNCHANGED <<cancelled, session, store, applied, answerVars, clobbered, clears>>

\* No task is running: create the handler task; start_task resets the state,
\* attaches the task and goes on to summarize.
StartTask(m) ==
    /\ pc[m] = "loaded"
    /\ ~IsRunning
    /\ task' = [task EXCEPT ![m] = "ready"]
    /\ scope' = [IdleScope EXCEPT !.task = m]
    /\ pc' = [pc EXCEPT ![m] = "summarizing"]
    /\ UNCHANGED <<cancelled, session, store, applied, answerVars, clobbered, clears>>

\* finish_task, then the answer the awaited task gave
FinishTask(m) ==
    /\ scope' = IdleScope
    /\ clobbered' = (clobbered \/ scope.task \notin {m, NoTask})
    /\ Reply(m, CASE task[m] = "completed" -> "answer"
                  [] task[m] = "cancelled" -> "empty"
                  [] OTHER -> "error")

\* Mutant of SummarizeDone: waits for a running task only.
SummarizeDoneWaits(m) ==
    /\ pc[m] = "summarizing"
    /\ task[m] \in Live
    /\ scope' = [scope EXCEPT !.summary = m]
    /\ pc' = [pc EXCEPT ![m] = "awaiting"]
    /\ UNCHANGED <<reply, clobbered>>
    /\ UNCHANGED <<taskVars, target, named, steers, late, clears>>

\* _summarize returned.  Awaiting a task that is done does not suspend.
SummarizeDone(m) ==
    /\ pc[m] = "summarizing"
    /\ \/ /\ task[m] \in Live
          /\ scope' = [scope EXCEPT !.summary = m]
          /\ pc' = [pc EXCEPT ![m] = "awaiting"]
          /\ UNCHANGED <<reply, clobbered>>
       \/ /\ task[m] \in Ended
          /\ FinishTask(m)
    /\ UNCHANGED <<taskVars, target, named, steers, late, clears>>

TaskDone(m) ==
    /\ pc[m] = "awaiting"
    /\ task[m] \in Ended
    /\ FinishTask(m)
    /\ UNCHANGED <<taskVars, target, named, steers, late, clears>>

-----------------------------------------------------------------------------
\* What _dispatch does with the label; by now the task may be another one or done.

\* MessageClassifier.classify has answered.  Its label depends on the text and on
\* an LLM, and is NEW when either fails: it may be any.
Classified(m) == pc[m] = "classifying"

NewWhileRunning(m) ==
    /\ Classified(m)
    /\ Reply(m, "queued")
    /\ UNCHANGED <<taskVars, scope, target, named, steers, late, clobbered, clears>>

\* The message is queued and acknowledged whatever the task is doing by now: saving its
\* session, its leftovers already drained, or over, or gone.
Steer(m) ==
    /\ Classified(m)
    /\ scope' = [scope EXCEPT !.steer = @ \cup {m}]
    /\ \/ TakesSteers /\ steers' = [steers EXCEPT ![m] = scope.task] /\ UNCHANGED late
       \/ ~TakesSteers /\ late' = late \cup {m} /\ UNCHANGED steers
    /\ Reply(m, "ack")
    /\ UNCHANGED <<taskVars, target, named, clobbered, clears>>

\* stop_summary reads task_summary before it awaits the LLM.
AnswerStop(m) ==
    /\ named' = [named EXCEPT ![m] = scope.summary]
    /\ Reply(m, "stopped")

\* cancel_task, then wait up to two seconds for the task
Stop(m) ==
    /\ Classified(m)
    /\ scope.task # NoTask
    /\ target' = [target EXCEPT ![m] = scope.task]
    /\ cancelled' = cancelled \cup {t \in {scope.task} : task[t] \in Live}
    /\ pc' = [pc EXCEPT ![m] = "stopping"]
    /\ UNCHANGED <<task, session, store, applied, scope, reply, named, steers, late, clobbered, clears>>

StopNothing(m) ==
    /\ Classified(m)
    /\ scope.task = NoTask
    /\ AnswerStop(m)
    /\ UNCHANGED <<taskVars, scope, target, steers, late, clobbered, clears>>

\* A handler's own exception passes through wait_for to the sender of the STOP.
AnswerEndedStop(m, t) ==
    /\ task[t] \in Ended
    /\ \/ task[t] = "failed" /\ Reply(m, "error") /\ UNCHANGED named
       \/ task[t] # "failed" /\ AnswerStop(m)

\* The task ended before the STOP was classified and its owner has not resumed
\* yet: from Python 3.12 on, wait_for does not suspend.
StopEnded(m) ==
    /\ Classified(m)
    /\ scope.task # NoTask
    /\ target' = [target EXCEPT ![m] = scope.task]
    /\ AnswerEndedStop(m, scope.task)
    /\ UNCHANGED <<taskVars, scope, steers, late, clobbered, clears>>

\* The task is done.  Its owner awaited it first and so resumes first; an owner
\* still summarizing has not awaited it.
StopWake(m) ==
    /\ pc[m] = "stopping"
    /\ pc[target[m]] # "awaiting"
    /\ AnswerEndedStop(m, target[m])
    /\ UNCHANGED <<taskVars, scope, target, steers, late, clobbered, clears>>

StopTimeout(m) ==
    /\ pc[m] = "stopping"
    /\ task[target[m]] \in Live
    /\ AnswerStop(m)
    /\ UNCHANGED <<taskVars, scope, target, steers, late, clobbered, clears>>

-----------------------------------------------------------------------------
\* The handler task of a message: _core and the handler it calls.

\* SteeringContext.drain: every steer is taken out of the queue.
Drained == [scope EXCEPT !.steer = {}]

\* The handler builds its prompt from the steer queue and the carried steers.
BuildPrompt(m) ==
    /\ task[m] = "ready" /\ m \notin cancelled
    /\ applied' = [applied EXCEPT ![m] = scope.steer \cup session[m].carry]
    /\ session' = [session EXCEPT ![m].carry = {}]
    /\ scope' = Drained
    /\ task' = [task EXCEPT ![m] = "handling"]
    /\ UNCHANGED <<pc, cancelled, store, answerVars, clobbered, clears>>

\* The handler has appended its turn and returned; leftover steers are carried.
HandlerReturns(m) ==
    /\ task[m] = "handling" /\ m \notin cancelled
    /\ session' = [session EXCEPT ![m].history = @ \cup {m}, ![m].carry = @ \cup scope.steer]
    /\ scope' = Drained
    /\ task' = [task EXCEPT ![m] = "saving"]
    /\ UNCHANGED <<pc, cancelled, store, applied, answerVars, clobbered, clears>>

SaveSession(m) ==
    /\ task[m] = "saving" /\ m \notin cancelled
    /\ store' = session[m]
    /\ task' = [task EXCEPT ![m] = "completed"]
    /\ UNCHANGED <<pc, cancelled, scope, session, applied, answerVars, clobbered, clears>>

\* The handler or the store raises.
HandlerFails(m) ==
    /\ task[m] \in Live /\ m \notin cancelled
    /\ task' = [task EXCEPT ![m] = "failed"]
    /\ UNCHANGED <<pc, cancelled, scope, session, store, applied, answerVars, clobbered, clears>>

\* CancelledError reaches the task.  A put already handed to the database's
\* thread takes effect all the same.
HandlerCancelled(m) ==
    /\ task[m] \in Live /\ m \in cancelled
    /\ task' = [task EXCEPT ![m] = "cancelled"]
    /\ \/ UNCHANGED store
       \/ task[m] = "saving" /\ store' = session[m]
    /\ UNCHANGED <<pc, cancelled, scope, session, applied, answerVars, clobbered, clears>>

\* clear_scope, at any time
ClearScope ==
    /\ clears < MaxClears
    /\ clears' = clears + 1
    /\ store' = EmptySession
    /\ UNCHANGED <<pc, task, cancelled, scope, session, applied, answerVars, clobbered>>

-----------------------------------------------------------------------------
Coroutine(m) ==
    \/ Route(m) \/ StartTask(m) \/ SummarizeDone(m) \/ TaskDone(m)
    \/ NewWhileRunning(m) \/ Steer(m) \/ Stop(m) \/ StopNothing(m)
    \/ StopEnded(m) \/ StopWake(m) \/ StopTimeout(m)

Handler(m) ==
    \/ BuildPrompt(m) \/ HandlerReturns(m) \/ SaveSession(m)
    \/ HandlerFails(m) \/ HandlerCancelled(m)

\* Every message has been answered and every task has ended.
AllAnswered ==
    /\ \A m \in Messages : pc[m] = "done" /\ task[m] \notin Live
    /\ UNCHANGED vars

Next ==
    \/ \E m \in Messages : GetSession(m) \/ Coroutine(m) \/ Handler(m)
    \/ ClearScope
    \/ AllAnswered

\* The event loop resumes every coroutine and task that can go on; providers,
\* stores and handlers are assumed to return, to raise or to time out.
Spec ==
    /\ Init /\ [][Next]_vars
    /\ \A m \in Messages : WF_vars(Coroutine(m)) /\ WF_vars(Handler(m))

-----------------------------------------------------------------------------
\* The scope knows its task.  As long as no finish_task has reset a state that was no
\* longer its own, every running handler is the attached one: at most one runs, STOP
\* can cancel it, and the task_summary is of that task.  And when everybody has been
\* answered, whatever was stopped, cancelled or failed, no task stays attached.
ScopeKnowsItsTask ==
    /\ ~clobbered =>
        /\ \A m \in Messages : task[m] \in Live => scope.task = m
        /\ scope.summary \in {NoTask, scope.task}
    /\ (\A m \in Messages : pc[m] \in {"new", "done"}) => scope.task = NoTask

\* What becomes of a STEER that was acknowledged, unless the scope's state was reset
\* under it.  When the handler had still to drain the queue, it is in the prompt of that
\* handler or carried to the next one by the session it saved.  When the handler was
\* already saving its session, was over or was gone, it is lost: it reaches no prompt
\* and no session.
AckedSteerIsKept ==
    ~clobbered =>
        \A m \in Messages : reply[m] = "ack" =>
            IF m \in late
            THEN \A t \in Messages : m \notin applied[t] \cup session[t].carry
            ELSE LET t == steers[m]
                 IN  t # NoTask /\ (task[t] = "completed" => m \in applied[t] \cup session[t].carry)

\* A steer message is prompted once: a handler carries none of the steers it was
\* given, and a handler whose session builds on the turn of an earlier one is not
\* given again what that one was given.
SteerIsPromptedOnce ==
    /\ \A t \in Messages :
         t \in session[t].history => applied[t] \cap session[t].carry = {}
    /\ \A t, u \in Messages :
         t # u /\ t \in session[u].history => applied[t] \cap applied[u] = {}

\* Steers that came before the last drain reach the prompts of their conversation, each
\* of them once; later ones are lost (both of the above: _dispatch, SteeringContext.drain,
\* the carry over of _run_handler).
SteersAreAppliedOnce == AckedSteerIsKept /\ SteerIsPromptedOnce

\* A turn knows its scope and the steers it was sent (both of them).
TurnIsSteered == ScopeKnowsItsTask /\ SteersAreAppliedOnce

\* Every message that was received is answered.
EveryMessageAnswered ==
    \A m \in Messages : pc[m] = "loaded" ~> pc[m] = "done"

\* dispatcher.py:1, :55 - per-scope concurrency control: an unrelated message is
\* queued or rejected until the task finishes.
OneHandlerPerScope ==
    \A m, n \in Messages : task[m] \in Live /\ task[n] \in Live => m = n

=============================================================================
