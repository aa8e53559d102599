----------------------- MODULE ScopeDispatcherProofs -----------------------
(*************************************************************************)
(* Proof that a scope knows its task and that its steers are applied     *)
(* once, for any number of messages and of /clear commands.              *)
(*************************************************************************)
EXTENDS ScopeDispatcher, TLAPS

USE DispatcherAssumption

Sessions == [history : SUBSET Messages, carry : SUBSET Messages]
SomeTask == Messages \cup {NoTask}
Awaits == {"new", "loaded", "classifying", "summarizing", "awaiting", "stopping", "done"}
Replies == {"none", "answer", "empty", "error", "queued", "ack", "stopped"}

DispatcherTypeOK ==
    /\ pc \in [Messages -> Awaits]
    /\ task \in [Messages -> {"none"} \cup Live \cup Ended]
    /\ cancelled \in SUBSET Messages
    /\ scope \in [task : SomeTask, steer : SUBSET Messages, summary : SomeTask]
    /\ session \in [Messages -> Sessions]
    /\ store \in Sessions
    /\ target \in [Messages -> SomeTask]
    /\ reply \in [Messages -> Replies]
    /\ named \in [Messages -> SomeTask]
    /\ applied \in [Messages -> SUBSET Messages]
    /\ steers \in [Messages -> SomeTask]
    /\ late \in SUBSET Messages
    /\ clobbered \in BOOLEAN
    /\ clears \in 0 .. MaxClears

\* A handler runs only while the coroutine of its message awaits it, and the attached
\* task is one whose coroutine has still to finish it.
OwnersAwait ==
    /\ \A m \in Messages : task[m] # "none" => pc[m] \in {"summarizing", "awaiting", "done"}
    /\ \A m \in Messages : task[m] \in Live => pc[m] \in {"summarizing", "awaiting"}
    /\ scope.task # NoTask => /\ task[scope.task] # "none"
                              /\ pc[scope.task] \in {"summarizing", "awaiting"}

RunningIsAttached ==
    ~clobbered =>
        /\ \A m \in Messages : task[m] \in Live => scope.task = m
        /\ scope.summary \in {NoTask, scope.task}

\* Where a steer is that was acknowledged to the sender while t was at work.
SteerIsSomewhere ==
    ~clobbered => \A m, t \in Messages : steers[m] = t =>
        /\ task[t] # "none"
        /\ task[t] = "ready" => m \in scope.steer
        /\ task[t] = "handling" => m \in scope.steer \cup applied[t]
        /\ task[t] \in {"saving", "completed"} => m \in applied[t] \cup session[t].carry

\* An acknowledged steer found a handler to take it or was late, and a late one is in no
\* prompt and no session; should it be queued, nobody is left to drain the queue.
LateIsLost ==
    /\ \A m \in Messages : reply[m] = "ack" /\ m \notin late => steers[m] # NoTask
    /\ \A m \in late : pc[m] = "done"
    /\ ~clobbered =>
         /\ late \cap store.carry = {}
         /\ \A t \in Messages : late \cap (applied[t] \cup session[t].carry) = {}
         /\ TakesSteers => late \cap scope.steer = {}

\* A session, stored or in use, carries no steer that a turn of its history was
\* given, nor one that is still queued.
CarriesNew(s) ==
    /\ \A t \in s.history : task[t] \in {"saving"} \cup Ended /\ applied[t] \cap s.carry = {}
    /\ s.carry \cap scope.steer = {}
    /\ \A m \in s.carry : pc[m] = "done"

SteersMoveOn ==
    /\ CarriesNew(store)
    /\ \A u \in Messages : CarriesNew(session[u])
    /\ \A m \in scope.steer : pc[m] = "done"
    /\ \A t \in Messages : /\ applied[t] \cap scope.steer = {}
                           /\ \A m \in applied[t] : pc[m] = "done"
                           /\ task[t] \in {"none", "ready"} => applied[t] = {}
                           /\ task[t] = "handling" => session[t].carry = {}
    /\ \A t, u \in Messages :
         t # u /\ t \in session[u].history => applied[t] \cap applied[u] = {}

DispatcherInv ==
    /\ DispatcherTypeOK /\ OwnersAwait /\ RunningIsAttached /\ SteerIsSomewhere /\ SteersMoveOn /\ LateIsLost

\* It says what TurnIsSteered says.
LEMMA DispatcherInvSuffices == DispatcherInv => TurnIsSteered
<1> SUFFICES ASSUME DispatcherInv PROVE TurnIsSteered
  OBVIOUS
<1>1. ScopeKnowsItsTask
  BY DEF DispatcherInv, DispatcherTypeOK, OwnersAwait, RunningIsAttached, ScopeKnowsItsTask,
         SomeTask
<1>2. AckedSteerIsKept
  BY DEF DispatcherInv, DispatcherTypeOK, SteerIsSomewhere, LateIsLost, AckedSteerIsKept, SomeTask
<1>3. SteerIsPromptedOnce
  BY DEF DispatcherInv, SteersMoveOn, CarriesNew, SteerIsPromptedOnce
<1> QED
  BY <1>1, <1>2, <1>3 DEF TurnIsSteered, SteersAreAppliedOnce

LEMMA DispatcherInit == Init => DispatcherInv
<1> SUFFICES ASSUME Init PROVE DispatcherInv
  OBVIOUS
<1> USE DEF Init, IdleScope, EmptySession
<1>1. DispatcherTypeOK
  <2>1. NoTask \in SomeTask /\ EmptySession \in Sessions
    BY DEF SomeTask, Sessions
  <2>2. {} \in SUBSET Messages /\ 0 \in 0 .. MaxClears
    OBVIOUS
  <2>3. scope \in [task : SomeTask, steer : SUBSET Messages, summary : SomeTask]
    BY <2>1, <2>2
  <2> QED
    BY <2>1, <2>2, <2>3 DEF DispatcherTypeOK, Awaits, Replies
<1>2. OwnersAwait /\ RunningIsAttached
  BY DEF OwnersAwait, RunningIsAttached, Live
<1>3. SteerIsSomewhere
  BY DEF SteerIsSomewhere
<1>4. SteersMoveOn
  BY DEF SteersMoveOn, CarriesNew
<1>5. LateIsLost
  BY DEF LateIsLost
<1> QED
  BY <1>1, <1>2, <1>3, <1>4, <1>5 DEF DispatcherInv

\* finish_task leaves an idle scope, and says so when the scope was not m's.
LEMMA Finishes ==
  ASSUME DispatcherTypeOK, NEW m \in Messages, FinishTask(m)
  PROVE  /\ scope' = IdleScope
         /\ pc' = [pc EXCEPT ![m] = "done"] /\ reply' \in [Messages -> Replies]
         /\ \A n \in Messages : reply'[n] = "ack" => reply[n] = "ack"
         /\ clobbered' \in BOOLEAN
         /\ ~clobbered' => ~clobbered /\ scope.task \in {m, NoTask}
<1>1. scope' = IdleScope /\ pc' = [pc EXCEPT ![m] = "done"]
  BY DEF FinishTask, Reply
<1>2. reply' \in [Messages -> Replies]
  BY DEF DispatcherTypeOK, FinishTask, Reply, Replies
<1>3. clobbered' = (clobbered \/ scope.task \notin {m, NoTask})
  BY DEF FinishTask
<1>4. \A n \in Messages : reply'[n] = "ack" => reply[n] = "ack"
  BY DEF DispatcherTypeOK, FinishTask, Reply
<1> QED
  BY <1>1, <1>2, <1>3, <1>4, Zenon

\* A STOP is answered with a summary or with the exception of the task.
LEMMA StopAnswers ==
  ASSUME DispatcherTypeOK, NEW m \in Messages, NEW t \in SomeTask, AnswerEndedStop(m, t)
  PROVE  /\ pc' = [pc EXCEPT ![m] = "done"] /\ reply' \in [Messages -> Replies]
         /\ named' \in [Messages -> SomeTask]
<1>1. scope.summary \in SomeTask
  BY DEF DispatcherTypeOK
<1> QED
  BY <1>1 DEF DispatcherTypeOK, AnswerEndedStop, AnswerStop, Reply, Replies

-----------------------------------------------------------------------------
(* Types. *)

LEMMA TypesStep ==
  ASSUME DispatcherTypeOK, [Next]_vars
  PROVE  DispatcherTypeOK'
<1> USE DEF DispatcherTypeOK, taskVars, answerVars, Awaits, Replies, SomeTask, Sessions, Live, Ended
<1>1. ASSUME NEW m \in Messages, GetSession(m) PROVE DispatcherTypeOK'
  BY <1>1 DEF GetSession
<1>2. ASSUME NEW m \in Messages, Route(m) PROVE DispatcherTypeOK'
  BY <1>2 DEF Route
<1>3. ASSUME NEW m \in Messages, StartTask(m) PROVE DispatcherTypeOK'
  BY <1>3 DEF StartTask, IdleScope
<1>4. ASSUME NEW m \in Messages, SummarizeDone(m) PROVE DispatcherTypeOK'
  <2>1. CASE task[m] \in Live
    <3>1. scope' = [scope EXCEPT !.summary = m] /\ pc' = [pc EXCEPT ![m] = "awaiting"]
      BY <1>4, <2>1 DEF SummarizeDone
    <3>2. UNCHANGED <<reply, clobbered, taskVars, target, named, steers, late, clears>>
      BY <1>4, <2>1 DEF SummarizeDone
    <3> QED
      BY <3>1, <3>2
  <2>2. CASE task[m] \in Ended
    BY <1>4, <2>2, Finishes DEF SummarizeDone, IdleScope
  <2> QED
    BY <1>4, <2>1, <2>2 DEF SummarizeDone
<1>5. ASSUME NEW m \in Messages, TaskDone(m) PROVE DispatcherTypeOK'
  <2>1. /\ scope' = IdleScope /\ pc' = [pc EXCEPT ![m] = "done"]
        /\ reply' \in [Messages -> Replies] /\ clobbered' \in BOOLEAN
    BY <1>5, Finishes, Zenon DEF TaskDone
  <2>2. UNCHANGED <<task, cancelled, session, store, applied, target, named, steers, late, clears>>
    BY <1>5 DEF TaskDone
  <2> QED
    BY <2>1, <2>2, SMTT(30) DEF IdleScope
<1>6. ASSUME NEW m \in Messages, NewWhileRunning(m) PROVE DispatcherTypeOK'
  BY <1>6 DEF NewWhileRunning, Classified, Reply
<1>7. ASSUME NEW m \in Messages, Steer(m) PROVE DispatcherTypeOK'
  BY <1>7 DEF Steer, Classified, Reply, TakesSteers
<1>8. ASSUME NEW m \in Messages, Stop(m) PROVE DispatcherTypeOK'
  BY <1>8 DEF Stop, Classified
<1>9. ASSUME NEW m \in Messages, StopNothing(m) PROVE DispatcherTypeOK'
  BY <1>9 DEF StopNothing, Classified, AnswerStop, Reply
<1>10. ASSUME NEW m \in Messages, StopEnded(m) PROVE DispatcherTypeOK'
  BY <1>10, StopAnswers DEF StopEnded
<1>11. ASSUME NEW m \in Messages, StopWake(m) PROVE DispatcherTypeOK'
  BY <1>11, StopAnswers DEF StopWake
<1>12. ASSUME NEW m \in Messages, StopTimeout(m) PROVE DispatcherTypeOK'
  BY <1>12 DEF StopTimeout, AnswerStop, Reply
<1>13. ASSUME NEW m \in Messages, BuildPrompt(m) PROVE DispatcherTypeOK'
  BY <1>13 DEF BuildPrompt, Drained
<1>14. ASSUME NEW m \in Messages, HandlerReturns(m) PROVE DispatcherTypeOK'
  BY <1>14, ZenonT(40) DEF HandlerReturns, Drained
<1>15. ASSUME NEW m \in Messages, SaveSession(m) PROVE DispatcherTypeOK'
  BY <1>15 DEF SaveSession
<1>16. ASSUME NEW m \in Messages, HandlerFails(m) PROVE DispatcherTypeOK'
  BY <1>16 DEF HandlerFails
<1>17. ASSUME NEW m \in Messages, HandlerCancelled(m) PROVE DispatcherTypeOK'
  BY <1>17 DEF HandlerCancelled
<1>18. CASE ClearScope
  BY <1>18 DEF ClearScope, EmptySession
<1>19. CASE UNCHANGED vars
  BY <1>19 DEF vars
<1> QED
  BY <1>1, <1>2, <1>3, <1>4, <1>5, <1>6, <1>7, <1>8, <1>9, <1>10, <1>11, <1>12, <1>13, <1>14, <1>15, <1>16, <1>17, <1>18, <1>19
     DEF Next, Coroutine, Handler, AllAnswered

LEMMA OwnersStep ==
  ASSUME DispatcherInv, [Next]_vars
  PROVE  OwnersAwait'
<1> USE DEF DispatcherInv, DispatcherTypeOK, OwnersAwait, taskVars, answerVars, Awaits, Live, Ended, SomeTask
<1>1. ASSUME NEW m \in Messages, GetSession(m) PROVE OwnersAwait'
  BY <1>1 DEF GetSession
<1>2. ASSUME NEW m \in Messages, Route(m) PROVE OwnersAwait'
  BY <1>2 DEF Route
<1>3. ASSUME NEW m \in Messages, StartTask(m) PROVE OwnersAwait'
  BY <1>3 DEF StartTask, IdleScope
<1>4. ASSUME NEW m \in Messages, SummarizeDone(m) PROVE OwnersAwait'
  BY <1>4 DEF SummarizeDone, FinishTask, Reply, IdleScope
<1>5. ASSUME NEW m \in Messages, TaskDone(m) PROVE OwnersAwait'
  BY <1>5, Finishes DEF TaskDone, IdleScope
<1>6. ASSUME NEW m \in Messages, NewWhileRunning(m) PROVE OwnersAwait'
  BY <1>6 DEF NewWhileRunning, Classified, Reply
<1>7. ASSUME NEW m \in Messages, Steer(m) PROVE OwnersAwait'
  BY <1>7 DEF Steer, Classified, Reply, TakesSteers
<1>8. ASSUME NEW m \in Messages, Stop(m) PROVE OwnersAwait'
  BY <1>8 DEF Stop, Classified
<1>9. ASSUME NEW m \in Messages, StopNothing(m) PROVE OwnersAwait'
  BY <1>9 DEF StopNothing, Classified, AnswerStop, Reply
<1>10. ASSUME NEW m \in Messages, StopEnded(m) PROVE OwnersAwait'
  BY <1>10 DEF StopEnded, Classified, AnswerEndedStop, AnswerStop, Reply
<1>11. ASSUME NEW m \in Messages, StopWake(m) PROVE OwnersAwait'
  BY <1>11 DEF StopWake, AnswerEndedStop, AnswerStop, Reply
<1>12. ASSUME NEW m \in Messages, StopTimeout(m) PROVE OwnersAwait'
  BY <1>12 DEF StopTimeout, AnswerStop, Reply
<1>13. ASSUME NEW m \in Messages, BuildPrompt(m) PROVE OwnersAwait'
  BY <1>13 DEF BuildPrompt, Drained
<1>14. ASSUME NEW m \in Messages, HandlerReturns(m) PROVE OwnersAwait'
  BY <1>14 DEF HandlerReturns, Drained
<1>15. ASSUME NEW m \in Messages, SaveSession(m) PROVE OwnersAwait'
  BY <1>15 DEF SaveSession
<1>16. ASSUME NEW m \in Messages, HandlerFails(m) PROVE OwnersAwait'
  BY <1>16 DEF HandlerFails
<1>17. ASSUME NEW m \in Messages, HandlerCancelled(m) PROVE OwnersAwait'
  BY <1>17 DEF HandlerCancelled
<1>18. CASE ClearScope
  BY <1>18 DEF ClearScope, EmptySession
<1>19. CASE UNCHANGED vars
  BY <1>19 DEF vars
<1> QED
  BY <1>1, <1>2, <1>3, <1>4, <1>5, <1>6, <1>7, <1>8, <1>9, <1>10, <1>11, <1>12, <1>13, <1>14, <1>15, <1>16, <1>17, <1>18, <1>19
     DEF Next, Coroutine, Handler, AllAnswered

LEMMA AttachedStep ==
  ASSUME DispatcherInv, [Next]_vars
  PROVE  RunningIsAttached'
<1> USE DEF DispatcherInv, DispatcherTypeOK, OwnersAwait, RunningIsAttached, taskVars, answerVars, Live, Ended, SomeTask
<1>1. ASSUME NEW m \in Messages, GetSession(m) PROVE RunningIsAttached'
  BY <1>1 DEF GetSession, IsRunning
<1>2. ASSUME NEW m \in Messages, Route(m) PROVE RunningIsAttached'
  BY <1>2 DEF Route, IsRunning
<1>3. ASSUME NEW m \in Messages, StartTask(m) PROVE RunningIsAttached'
  BY <1>3 DEF StartTask, IdleScope, IsRunning
<1>4. ASSUME NEW m \in Messages, SummarizeDone(m) PROVE RunningIsAttached'
  <2>1. CASE task[m] \in Live
    BY <1>4, <2>1 DEF SummarizeDone
  <2>2. CASE task[m] \in Ended
    BY <1>4, <2>2, Finishes DEF SummarizeDone, IdleScope
  <2> QED
    BY <1>4, <2>1, <2>2 DEF SummarizeDone
<1>5. ASSUME NEW m \in Messages, TaskDone(m) PROVE RunningIsAttached'
  BY <1>5, Finishes DEF TaskDone, IdleScope
<1>6. ASSUME NEW m \in Messages, NewWhileRunning(m) PROVE RunningIsAttached'
  BY <1>6 DEF NewWhileRunning, Classified, Reply, IsRunning
<1>7. ASSUME NEW m \in Messages, Steer(m) PROVE RunningIsAttached'
  BY <1>7 DEF Steer, Classified, Reply, TakesSteers, IsRunning
<1>8. ASSUME NEW m \in Messages, Stop(m) PROVE RunningIsAttached'
  BY <1>8 DEF Stop, Classified, IsRunning
<1>9. ASSUME NEW m \in Messages, StopNothing(m) PROVE RunningIsAttached'
  BY <1>9 DEF StopNothing, Classified, AnswerStop, Reply, IsRunning
<1>10. ASSUME NEW m \in Messages, StopEnded(m) PROVE RunningIsAttached'
  BY <1>10 DEF StopEnded, Classified, AnswerEndedStop, AnswerStop, Reply, IsRunning
<1>11. ASSUME NEW m \in Messages, StopWake(m) PROVE RunningIsAttached'
  BY <1>11 DEF StopWake, AnswerEndedStop, AnswerStop, Reply, IsRunning
<1>12. ASSUME NEW m \in Messages, StopTimeout(m) PROVE RunningIsAttached'
  BY <1>12 DEF StopTimeout, AnswerStop, Reply, IsRunning
<1>13. ASSUME NEW m \in Messages, BuildPrompt(m) PROVE RunningIsAttached'
  BY <1>13 DEF BuildPrompt, Drained, IsRunning
<1>14. ASSUME NEW m \in Messages, HandlerReturns(m) PROVE RunningIsAttached'
  BY <1>14 DEF HandlerReturns, Drained, IsRunning
<1>15. ASSUME NEW m \in Messages, SaveSession(m) PROVE RunningIsAttached'
  BY <1>15 DEF SaveSession, IsRunning
<1>16. ASSUME NEW m \in Messages, HandlerFails(m) PROVE RunningIsAttached'
  BY <1>16 DEF HandlerFails, IsRunning
<1>17. ASSUME NEW m \in Messages, HandlerCancelled(m) PROVE RunningIsAttached'
  BY <1>17 DEF HandlerCancelled, IsRunning
<1>18. CASE ClearScope
  BY <1>18 DEF ClearScope, EmptySession
<1>19. CASE UNCHANGED vars
  BY <1>19 DEF vars
<1> QED
  BY <1>1, <1>2, <1>3, <1>4, <1>5, <1>6, <1>7, <1>8, <1>9, <1>10, <1>11, <1>12, <1>13, <1>14, <1>15, <1>16, <1>17, <1>18, <1>19
     DEF Next, Coroutine, Handler, AllAnswered

LEMMA SteerStep ==
  ASSUME DispatcherInv, [Next]_vars
  PROVE  SteerIsSomewhere'
<1> USE DEF DispatcherInv, DispatcherTypeOK, OwnersAwait, RunningIsAttached, SteerIsSomewhere, taskVars, answerVars, Live, Ended, SomeTask, Sessions
<1>1. ASSUME NEW m \in Messages, GetSession(m) PROVE SteerIsSomewhere'
  BY <1>1 DEF GetSession, IsRunning
<1>2. ASSUME NEW m \in Messages, Route(m) PROVE SteerIsSomewhere'
  BY <1>2 DEF Route, IsRunning
<1>3. ASSUME NEW m \in Messages, StartTask(m) PROVE SteerIsSomewhere'
  <2>1. ~clobbered => \A t \in Messages : task[t] \notin Live
    BY <1>3 DEF StartTask, IsRunning
  <2>2. task[m] = "none" /\ \A t \in Messages \ {m} : task'[t] = task[t]
    BY <1>3 DEF StartTask
  <2> QED
    BY <1>3, <2>1, <2>2 DEF StartTask, IdleScope
<1>4. ASSUME NEW m \in Messages, SummarizeDone(m) PROVE SteerIsSomewhere'
  <2>1. CASE task[m] \in Live
    BY <1>4, <2>1, SMTT(30) DEF SummarizeDone
  <2>2. CASE task[m] \in Ended
    <3>1. ~clobbered' => ~clobbered /\ \A t \in Messages : task[t] \notin Live
      BY <1>4, <2>2, Finishes DEF SummarizeDone
    <3> QED
      BY <1>4, <2>2, <3>1, Finishes DEF SummarizeDone, IdleScope
  <2> QED
    BY <1>4, <2>1, <2>2 DEF SummarizeDone
<1>5. ASSUME NEW m \in Messages, TaskDone(m) PROVE SteerIsSomewhere'
  <2>1. ~clobbered' => ~clobbered /\ \A t \in Messages : task[t] \notin Live
    BY <1>5, Finishes DEF TaskDone
  <2> QED
    BY <1>5, <2>1, Finishes DEF TaskDone, IdleScope
<1>6. ASSUME NEW m \in Messages, NewWhileRunning(m) PROVE SteerIsSomewhere'
  BY <1>6 DEF NewWhileRunning, Classified, Reply, IsRunning
<1>7. ASSUME NEW m \in Messages, Steer(m) PROVE SteerIsSomewhere'
  BY <1>7 DEF Steer, Classified, Reply, TakesSteers, IsRunning
<1>8. ASSUME NEW m \in Messages, Stop(m) PROVE SteerIsSomewhere'
  BY <1>8 DEF Stop, Classified, IsRunning
<1>9. ASSUME NEW m \in Messages, StopNothing(m) PROVE SteerIsSomewhere'
  BY <1>9 DEF StopNothing, Classified, AnswerStop, Reply, IsRunning
<1>10. ASSUME NEW m \in Messages, StopEnded(m) PROVE SteerIsSomewhere'
  BY <1>10 DEF StopEnded, Classified, AnswerEndedStop, AnswerStop, Reply, IsRunning
<1>11. ASSUME NEW m \in Messages, StopWake(m) PROVE SteerIsSomewhere'
  BY <1>11 DEF StopWake, AnswerEndedStop, AnswerStop, Reply, IsRunning
<1>12. ASSUME NEW m \in Messages, StopTimeout(m) PROVE SteerIsSomewhere'
  BY <1>12 DEF StopTimeout, AnswerStop, Reply, IsRunning
<1>13. ASSUME NEW m \in Messages, BuildPrompt(m) PROVE SteerIsSomewhere'
  BY <1>13 DEF BuildPrompt, Drained, IsRunning
<1>14. ASSUME NEW m \in Messages, HandlerReturns(m) PROVE SteerIsSomewhere'
  BY <1>14 DEF HandlerReturns, Drained, IsRunning
<1>15. ASSUME NEW m \in Messages, SaveSession(m) PROVE SteerIsSomewhere'
  BY <1>15 DEF SaveSession, IsRunning
<1>16. ASSUME NEW m \in Messages, HandlerFails(m) PROVE SteerIsSomewhere'
  BY <1>16 DEF HandlerFails, IsRunning
<1>17. ASSUME NEW m \in Messages, HandlerCancelled(m) PROVE SteerIsSomewhere'
  BY <1>17 DEF HandlerCancelled, IsRunning
<1>18. CASE ClearScope
  BY <1>18 DEF ClearScope, EmptySession
<1>19. CASE UNCHANGED vars
  BY <1>19 DEF vars
<1> QED
  BY <1>1, <1>2, <1>3, <1>4, <1>5, <1>6, <1>7, <1>8, <1>9, <1>10, <1>11, <1>12, <1>13, <1>14, <1>15, <1>16, <1>17, <1>18, <1>19
     DEF Next, Coroutine, Handler, AllAnswered

LEMMA MoveOnStep ==
  ASSUME DispatcherInv, [Next]_vars
  PROVE  SteersMoveOn'
<1> USE DEF DispatcherInv, DispatcherTypeOK, OwnersAwait, SteersMoveOn, CarriesNew, taskVars, answerVars, Live, Ended, SomeTask, Sessions
<1>1. ASSUME NEW m \in Messages, GetSession(m) PROVE SteersMoveOn'
  <2>1. task[m] = "none" /\ applied[m] = {}
    BY <1>1 DEF GetSession
  <2>2. \A n \in Messages : pc[n] = "done" => pc'[n] = "done"
    BY <1>1 DEF GetSession
  <2>3. /\ session' = [session EXCEPT ![m] = store]
        /\ UNCHANGED <<task, scope, store, applied>>
    BY <1>1 DEF GetSession
  <2>4. \A u \in Messages : CarriesNew(session[u])'
    BY <2>2, <2>3
  <2> QED
    BY <2>1, <2>2, <2>3, <2>4
<1>2. ASSUME NEW m \in Messages, Route(m) PROVE SteersMoveOn'
  BY <1>2 DEF Route
<1>3. ASSUME NEW m \in Messages, StartTask(m) PROVE SteersMoveOn'
  <2>1. task[m] = "none" /\ applied[m] = {}
    BY <1>3 DEF StartTask
  <2>2. scope'.steer = {} /\ UNCHANGED <<session, store, applied>>
    BY <1>3 DEF StartTask, IdleScope
  <2>3. \A n \in Messages : pc[n] = "done" => pc'[n] = "done"
    BY <1>3 DEF StartTask
  <2>4. task' = [task EXCEPT ![m] = "ready"]
    BY <1>3 DEF StartTask
  <2> QED
    BY <2>1, <2>2, <2>3, <2>4
<1>4. ASSUME NEW m \in Messages, SummarizeDone(m) PROVE SteersMoveOn'
  <2>1. CASE task[m] \in Live
    BY <1>4, <2>1 DEF SummarizeDone
  <2>2. CASE task[m] \in Ended
    BY <1>4, <2>2, Finishes DEF SummarizeDone, IdleScope
  <2> QED
    BY <1>4, <2>1, <2>2 DEF SummarizeDone
<1>5. ASSUME NEW m \in Messages, TaskDone(m) PROVE SteersMoveOn'
  BY <1>5, Finishes DEF TaskDone, IdleScope
<1>6. ASSUME NEW m \in Messages, NewWhileRunning(m) PROVE SteersMoveOn'
  BY <1>6 DEF NewWhileRunning, Classified, Reply
<1>7. ASSUME NEW m \in Messages, Steer(m) PROVE SteersMoveOn'
  BY <1>7 DEF Steer, Classified, Reply, TakesSteers
<1>8. ASSUME NEW m \in Messages, Stop(m) PROVE SteersMoveOn'
  BY <1>8 DEF Stop, Classified
<1>9. ASSUME NEW m \in Messages, StopNothing(m) PROVE SteersMoveOn'
  BY <1>9 DEF StopNothing, Classified, AnswerStop, Reply
<1>10. ASSUME NEW m \in Messages, StopEnded(m) PROVE SteersMoveOn'
  BY <1>10 DEF StopEnded, Classified, AnswerEndedStop, AnswerStop, Reply
<1>11. ASSUME NEW m \in Messages, StopWake(m) PROVE SteersMoveOn'
  BY <1>11 DEF StopWake, AnswerEndedStop, AnswerStop, Reply
<1>12. ASSUME NEW m \in Messages, StopTimeout(m) PROVE SteersMoveOn'
  BY <1>12 DEF StopTimeout, AnswerStop, Reply
<1>13. ASSUME NEW m \in Messages, BuildPrompt(m) PROVE SteersMoveOn'
  BY <1>13 DEF BuildPrompt, Drained
<1>14. ASSUME NEW m \in Messages, HandlerReturns(m) PROVE SteersMoveOn'
  BY <1>14 DEF HandlerReturns, Drained
<1>15. ASSUME NEW m \in Messages, SaveSession(m) PROVE SteersMoveOn'
  BY <1>15 DEF SaveSession
<1>16. ASSUME NEW m \in Messages, HandlerFails(m) PROVE SteersMoveOn'
  BY <1>16 DEF HandlerFails
<1>17. ASSUME NEW m \in Messages, HandlerCancelled(m) PROVE SteersMoveOn'
  BY <1>17 DEF HandlerCancelled
<1>18. CASE ClearScope
  BY <1>18 DEF ClearScope, EmptySession
<1>19. CASE UNCHANGED vars
  BY <1>19 DEF vars
<1> QED
  BY <1>1, <1>2, <1>3, <1>4, <1>5, <1>6, <1>7, <1>8, <1>9, <1>10, <1>11, <1>12, <1>13, <1>14, <1>15, <1>16, <1>17, <1>18, <1>19
     DEF Next, Coroutine, Handler, AllAnswered

LEMMA LateStep ==
  ASSUME DispatcherInv, [Next]_vars
  PROVE  LateIsLost'
<1> USE DEF DispatcherInv, DispatcherTypeOK, OwnersAwait, RunningIsAttached, LateIsLost, TakesSteers, taskVars, answerVars, Live, Ended, SomeTask, Sessions
<1>1. ASSUME NEW m \in Messages, GetSession(m) PROVE LateIsLost'
  BY <1>1 DEF GetSession, IsRunning
<1>2. ASSUME NEW m \in Messages, Route(m) PROVE LateIsLost'
  BY <1>2 DEF Route, IsRunning
<1>3. ASSUME NEW m \in Messages, StartTask(m) PROVE LateIsLost'
  BY <1>3 DEF StartTask, IdleScope, IsRunning
<1>4. ASSUME NEW m \in Messages, SummarizeDone(m) PROVE LateIsLost'
  <2>1. CASE task[m] \in Live
    BY <1>4, <2>1 DEF SummarizeDone
  <2>2. CASE task[m] \in Ended
    <3>1. /\ scope' = IdleScope /\ pc' = [pc EXCEPT ![m] = "done"]
          /\ \A n \in Messages : reply'[n] = "ack" => reply[n] = "ack"
          /\ ~clobbered' => ~clobbered
      BY <1>4, <2>2, Finishes, Zenon DEF SummarizeDone, Live, Ended
    <3>2. UNCHANGED <<session, store, applied, steers, late>>
      BY <1>4 DEF SummarizeDone
    <3> QED
      BY <3>1, <3>2 DEF IdleScope
  <2> QED
    BY <1>4, <2>1, <2>2 DEF SummarizeDone
<1>5. ASSUME NEW m \in Messages, TaskDone(m) PROVE LateIsLost'
  <2>1. /\ scope' = IdleScope /\ pc' = [pc EXCEPT ![m] = "done"]
        /\ \A n \in Messages : reply'[n] = "ack" => reply[n] = "ack"
        /\ ~clobbered' => ~clobbered
    BY <1>5, Finishes, Zenon DEF TaskDone
  <2>2. UNCHANGED <<session, store, applied, steers, late>>
    BY <1>5 DEF TaskDone
  <2> QED
    BY <2>1, <2>2 DEF IdleScope
<1>6. ASSUME NEW m \in Messages, NewWhileRunning(m) PROVE LateIsLost'
  BY <1>6 DEF NewWhileRunning, Classified, Reply, IsRunning
<1>7. ASSUME NEW m \in Messages, Steer(m) PROVE LateIsLost'
  <2>1. pc' = [pc EXCEPT ![m] = "done"] /\ reply' = [reply EXCEPT ![m] = "ack"]
    BY <1>7 DEF Steer, Reply
  <2>2. UNCHANGED <<task, session, store, applied, clobbered>>
    BY <1>7 DEF Steer
  <2>3. /\ scope' = [scope EXCEPT !.steer = @ \cup {m}]
        /\ \/ TakesSteers /\ steers' = [steers EXCEPT ![m] = scope.task] /\ UNCHANGED late
           \/ ~TakesSteers /\ late' = late \cup {m} /\ UNCHANGED steers
    BY <1>7 DEF Steer
  <2>4. scope'.task = scope.task /\ scope'.steer = scope.steer \cup {m}
    BY <2>3
  <2>5. TakesSteers' <=> TakesSteers
    BY <2>2, <2>4
  <2>6. \A t \in Messages : m \notin applied[t] \cup session[t].carry
    BY <1>7 DEF Steer, Classified, SteersMoveOn, CarriesNew
  <2>7. m \notin store.carry /\ m \notin late
    BY <1>7 DEF Steer, Classified, SteersMoveOn, CarriesNew
  <2>8. \A n \in Messages : reply'[n] = "ack" /\ n \notin late' => steers'[n] # NoTask
    BY <2>1, <2>3
  <2>9. \A n \in late' : pc'[n] = "done"
    BY <2>1, <2>3
  <2>10. TakesSteers => late' = late
    BY <2>3
  <2>11. late' \subseteq late \cup {m}
    BY <2>3
  <2> QED
    BY <2>2, <2>4, <2>5, <2>6, <2>7, <2>8, <2>9, <2>10, <2>11
<1>8. ASSUME NEW m \in Messages, Stop(m) PROVE LateIsLost'
  BY <1>8 DEF Stop, Classified, IsRunning
<1>9. ASSUME NEW m \in Messages, StopNothing(m) PROVE LateIsLost'
  BY <1>9 DEF StopNothing, Classified, AnswerStop, Reply, IsRunning
<1>10. ASSUME NEW m \in Messages, StopEnded(m) PROVE LateIsLost'
  BY <1>10 DEF StopEnded, Classified, AnswerEndedStop, AnswerStop, Reply, IsRunning
<1>11. ASSUME NEW m \in Messages, StopWake(m) PROVE LateIsLost'
  BY <1>11 DEF StopWake, AnswerEndedStop, AnswerStop, Reply, IsRunning
<1>12. ASSUME NEW m \in Messages, StopTimeout(m) PROVE LateIsLost'
  BY <1>12 DEF StopTimeout, AnswerStop, Reply, IsRunning
<1>13. ASSUME NEW m \in Messages, BuildPrompt(m) PROVE LateIsLost'
  BY <1>13 DEF BuildPrompt, Drained, IsRunning
<1>14. ASSUME NEW m \in Messages, HandlerReturns(m) PROVE LateIsLost'
  BY <1>14 DEF HandlerReturns, Drained, IsRunning
<1>15. ASSUME NEW m \in Messages, SaveSession(m) PROVE LateIsLost'
  BY <1>15 DEF SaveSession, IsRunning
<1>16. ASSUME NEW m \in Messages, HandlerFails(m) PROVE LateIsLost'
  BY <1>16 DEF HandlerFails, IsRunning
<1>17. ASSUME NEW m \in Messages, HandlerCancelled(m) PROVE LateIsLost'
  BY <1>17 DEF HandlerCancelled, IsRunning
<1>18. CASE ClearScope
  BY <1>18 DEF ClearScope, EmptySession
<1>19. CASE UNCHANGED vars
  BY <1>19 DEF vars
<1> QED
  BY <1>1, <1>2, <1>3, <1>4, <1>5, <1>6, <1>7, <1>8, <1>9, <1>10, <1>11, <1>12, <1>13, <1>14, <1>15, <1>16, <1>17, <1>18, <1>19
     DEF Next, Coroutine, Handler, AllAnswered

-----------------------------------------------------------------------------
\* Every state of a scope, its messages and its handlers is of its type, for any number
\* of messages and clears.
THEOREM DispatcherTypeCorrect == Spec => []DispatcherTypeOK
<1>1. Init => DispatcherTypeOK
  BY DispatcherInit DEF DispatcherInv
<1> QED
  BY <1>1, TypesStep, PTL DEF Spec

\* A scope knows its one handler as long as no finish_task resets a state that is not
\* its own; a steer acknowledged before the handler's last drain is prompted, once, and
\* one acknowledged later is lost (dispatcher.py ScopeDispatcher, orchestrator.py
\* _dispatch and _run_handler).
THEOREM SteeredCorrect == Spec => []TurnIsSteered
<1>1. DispatcherInv /\ [Next]_vars => DispatcherInv'
  BY TypesStep, OwnersStep, AttachedStep, SteerStep, MoveOnStep, LateStep DEF DispatcherInv
<1> QED
  BY <1>1, DispatcherInit, DispatcherInvSuffices, PTL DEF Spec

=============================================================================
