------------------------ MODULE WorkflowEngineProofs ------------------------
(******************************************************************************)
(* Safety of the workflow engine for every set of workflows and every value   *)
(* of the limits.  The proofs have two layers: what one call keeps by         *)
(* itself (Inv), and what the log keeps when callers reuse a workflow_id      *)
(* only after deleting it (LogInv).                                           *)
(******************************************************************************)
EXTENDS WorkflowEngine, TLAPS, FiniteSetTheorems

InCall == pc \in {"loop", "save"}

\* A call has room in the store for the transitions it may still take, and what
\* it is about to save is the output of a state of its workflow.
CallBounds ==
    /\ InCall => call.sequence + MaxTransitions <= SequenceBound + call.transitions
    /\ pc = "save" => call.state \in call.wf.states /\ call.transitions < MaxTransitions

Inv == TypeOK /\ DepthMatchesSequence /\ CallBounds

-----------------------------------------------------------------------------
\* Every workflow is a record of known ids; None is not one of them.
LEMMA WorkflowType ==
    ASSUME NEW wf \in Workflows
    PROVE  /\ wf.states \subseteq StateIds
           /\ wf.initial \in StateIds
           /\ wf.terminals \subseteq StateIds
BY WorkflowAssumption

\* The limits are natural numbers and one call fits into the store.
LEMMA Limits ==
    /\ MaxStateRetries \in Nat /\ MaxTransitions \in Nat
    /\ MaxJobs \in Nat /\ MaxKills \in Nat /\ SequenceBound \in Nat
    /\ MaxTransitions <= SequenceBound
BY WorkflowAssumption

\* An engine with an empty store and no call satisfies the invariant.
LEMMA InitInv == Init => Inv
<1> SUFFICES ASSUME Init PROVE Inv
  OBVIOUS
<1>1. store \in [Sequences -> Checkpoints \cup {None}]
  BY DEF Init, EmptyStore
<1>2. deleting \in BOOLEAN
  BY DEF Init
<1>3. jobs \in 0 .. MaxJobs /\ kills \in 0 .. MaxKills
  BY Limits DEF Init
<1>4. TypeOK
  BY <1>1, <1>2, <1>3 DEF Init, TypeOK
<1>5. Written = {}
  BY DEF Init, EmptyStore, Written
<1>6. DepthMatchesSequence /\ CallBounds
  BY <1>5 DEF Init, DepthMatchesSequence, CallBounds, InCall
<1>7. QED  BY <1>4, <1>6 DEF Inv

\* An answer leaves no call in progress.
LEMMA AnswerInv ==
    ASSUME Inv, NEW status \in Statuses, NEW output \in Outputs,
           NEW saved \in 0 .. SequenceBound + 1,
           jobs' \in 0 .. MaxJobs,
           Answer(status, output, saved),
           UNCHANGED <<backend, store, deleting, kills>>
    PROVE  Inv'
BY DEF Inv, TypeOK, DepthMatchesSequence, CallBounds, InCall, Answer, Results, Written

\* A call that enters the loop where it has room starts with the invariant.
LEMMA EnterLoopInv ==
    ASSUME Inv, NEW wf \in Workflows, NEW state \in NextIds, NEW input \in Outputs,
           NEW sequence \in 0 .. SequenceBound,
           sequence + MaxTransitions <= SequenceBound,
           input.depth = sequence,
           jobs' \in 0 .. MaxJobs,
           EnterLoop(wf, state, input, sequence),
           UNCHANGED <<backend, store, deleting, kills>>
    PROVE  Inv'
<1>1. call' \in Calls
  BY WorkflowAssumption DEF EnterLoop, Calls, NextIds
<1>2. TypeOK'
  BY <1>1 DEF Inv, TypeOK, EnterLoop
<1>3. DepthMatchesSequence'
  BY DEF Inv, DepthMatchesSequence, EnterLoop, Written
<1>4. CallBounds'
  BY WorkflowAssumption DEF CallBounds, InCall, EnterLoop
<1>5. QED  BY <1>2, <1>3, <1>4 DEF Inv

\* run and a resume without a checkpoint: the initial input has depth 0.
LEMMA RunFromInv ==
    ASSUME Inv, NEW wf \in Workflows, NEW j \in 0 .. MaxJobs,
           jobs' \in 0 .. MaxJobs,
           RunFrom(wf, Input(j)),
           UNCHANGED <<backend, store, deleting, kills>>
    PROVE  Inv'
<1>1. Input(j) \in Outputs /\ Input(0) \in Outputs /\ Input(j).depth = 0
  BY Limits DEF Input, Outputs
<1>2. CASE Valid(wf)
  <2>1. EnterLoop(wf, wf.initial, Input(j), 0)
    BY <1>2 DEF RunFrom
  <2>2. wf.initial \in NextIds
    BY WorkflowType DEF NextIds
  <2>3. QED  BY <1>1, <2>1, <2>2, EnterLoopInv, Limits
<1>3. CASE ~Valid(wf)
  <2>1. Answer("FAILED", Input(0), 0)
    BY <1>3 DEF RunFrom
  <2>2. QED  BY <1>1, <2>1, AnswerInv, Limits DEF Statuses
<1>4. QED  BY <1>2, <1>3

\* What the store holds, as the actions use it.
LEMMA StoredType ==
    ASSUME Inv, NEW s \in Written
    PROVE  /\ s \in 0 .. SequenceBound
           /\ store[s] \in Checkpoints
           /\ store[s].next_state \in NextIds
           /\ store[s].output \in Outputs
           /\ store[s].output.depth = s + 1
<1>1. s \in Sequences /\ store[s] # None
  BY DEF Written
<1>2. store[s] \in Checkpoints
  BY <1>1 DEF Inv, TypeOK
<1>3. QED  BY <1>1, <1>2 DEF Inv, DepthMatchesSequence, Checkpoints, Sequences

\* However resume continues or answers, it does so from a stored checkpoint.
LEMMA ResumeInv ==
    ASSUME Inv, NEW wf \in Workflows,
           ResumeFresh(wf) \/ ResumeDone(wf) \/ ResumeRefused(wf) \/ ResumeContinue(wf)
    PROVE  Inv'
<1> jobs \in 0 .. MaxJobs
  BY DEF Inv, TypeOK
<1>1. CASE ResumeFresh(wf)
  BY <1>1, RunFromInv, Limits DEF ResumeFresh
<1>2. CASE ResumeDone(wf)
  <2>1. PICK s \in Written : Answer("COMPLETED", store[s].output, s + 1)
    BY <1>2 DEF ResumeDone
  <2>2. store[s].output \in Outputs /\ s + 1 \in 0 .. SequenceBound + 1
    BY StoredType, Limits
  <2>3. QED  BY <1>2, <2>1, <2>2, AnswerInv DEF ResumeDone, Statuses
<1>3. CASE ResumeRefused(wf)
  <2>1. PICK s \in Written :
           Answer("FAILED", IF Valid(wf) THEN store[s].output ELSE Input(0), 0)
    BY <1>3 DEF ResumeRefused
  <2>2. (IF Valid(wf) THEN store[s].output ELSE Input(0)) \in Outputs
    BY StoredType, Limits DEF Input, Outputs
  <2>3. QED  BY <1>3, <2>1, <2>2, AnswerInv, Limits DEF ResumeRefused, Statuses
<1>4. CASE ResumeContinue(wf)
  <2>1. PICK s \in Written :
           /\ s + 1 + MaxTransitions <= SequenceBound
           /\ EnterLoop(wf, store[s].next_state, store[s].output, s + 1)
    BY <1>4 DEF ResumeContinue
  <2>2. s + 1 \in 0 .. SequenceBound
    BY <2>1, StoredType, Limits
  <2>3. QED  BY <1>4, <2>1, <2>2, StoredType, EnterLoopInv DEF ResumeContinue
<1>5. QED  BY <1>1, <1>2, <1>3, <1>4

\* Facts about the locals of a call in progress.
LEMMA CallType ==
    ASSUME Inv, InCall
    PROVE  /\ call \in Calls
           /\ call.wf \in Workflows /\ call.input \in Outputs /\ call.output \in Outputs
           /\ call.sequence \in 0 .. SequenceBound
           /\ call.transitions \in 0 .. MaxTransitions
           /\ call.attempt \in 0 .. MaxStateRetries
<1>1. call \in Calls
  BY DEF Inv, TypeOK, InCall
<1>2. QED  BY <1>1, Limits DEF Inv, CallBounds, Calls

\* The ways a call ends.
LEMMA EndInv ==
    ASSUME Inv,
           Finish \/ Overrun \/ RetriesExhausted \/ ExecuteFails \/ ExecuteRaises \/ SaveRefused
    PROVE  Inv'
<1>1. jobs' \in 0 .. MaxJobs /\ UNCHANGED <<backend, store, deleting, kills>>
  BY DEF Inv, TypeOK, Finish, Overrun, RetriesExhausted, ExecuteFails, ExecuteRaises,
         SaveRefused, StoreKept
<1>2. InCall
  BY DEF InCall, Finish, Overrun, RetriesExhausted, ExecuteFails, ExecuteRaises, SaveRefused,
         InLoop, MayExecute
<1>3. call.input \in Outputs /\ call.sequence \in 0 .. SequenceBound + 1
  BY <1>2, CallType, Limits
<1>4. Input(0) \in Outputs /\ 0 \in 0 .. SequenceBound + 1
  BY Limits DEF Input, Outputs
<1>5. CASE Finish
  BY <1>1, <1>3, <1>5, AnswerInv DEF Finish, Statuses
<1>6. CASE Overrun \/ RetriesExhausted \/ ExecuteFails
  BY <1>1, <1>3, <1>6, AnswerInv DEF Overrun, RetriesExhausted, ExecuteFails, Fail, Statuses
<1>7. CASE ExecuteRaises \/ SaveRefused
  BY <1>1, <1>4, <1>7, AnswerInv DEF ExecuteRaises, SaveRefused, Statuses
<1>8. QED  BY <1>5, <1>6, <1>7

\* An attempt at a state changes the locals of the loop only.
LEMMA ExecuteInv ==
    ASSUME Inv, ExecuteOk \/ ExecuteRetryable
    PROVE  Inv'
<1>1. CASE ExecuteOk
  <2>1. PICK next \in NextIds :
           call' = [call EXCEPT !.next = next,
                                !.output = [job |-> call.input.job,
                                            depth |-> call.input.depth + 1]]
    BY <1>1 DEF ExecuteOk
  <2>2. /\ InCall /\ pc' = "save" /\ call.state \in call.wf.states
        /\ call.transitions < MaxTransitions
    BY <1>1 DEF ExecuteOk, MayExecute, InLoop, Unfinished, InCall
  <2>3. call.input.depth = call.sequence
    BY <2>2 DEF Inv, DepthMatchesSequence, InCall
  <2>4. [job |-> call.input.job, depth |-> call.input.depth + 1] \in Outputs
    BY <2>2, <2>3, CallType, Limits DEF Outputs
  <2>5. call' \in Calls
    BY <2>1, <2>2, <2>4, CallType DEF Calls
  <2>6. TypeOK'
    BY <1>1, <2>2, <2>5 DEF Inv, TypeOK, ExecuteOk, StoreKept
  <2>7. call \in Calls
    BY <2>2, CallType
  <2>8. DepthMatchesSequence'
    BY <1>1, <2>1, <2>2, <2>3, <2>7
       DEF Inv, DepthMatchesSequence, Written, ExecuteOk, StoreKept, Calls
  <2>9. CallBounds'
    BY <2>1, <2>2, <2>7 DEF Inv, CallBounds, InCall, Calls
  <2>10. QED  BY <2>6, <2>8, <2>9 DEF Inv
<1>2. CASE ExecuteRetryable
  <2>1. /\ InCall /\ pc = "loop" /\ pc' = "loop" /\ call.attempt < MaxStateRetries
        /\ call' = [call EXCEPT !.attempt = call.attempt + 1]
    BY <1>2 DEF ExecuteRetryable, MayExecute, InLoop, InCall
  <2>2. call \in Calls /\ call' \in Calls
    BY <2>1, CallType, Limits DEF Calls
  <2>3. TypeOK'
    BY <1>2, <2>1, <2>2 DEF Inv, TypeOK, ExecuteRetryable, StoreKept
  <2>4. DepthMatchesSequence'
    BY <1>2, <2>1, <2>2 DEF Inv, DepthMatchesSequence, Written, ExecuteRetryable, StoreKept, Calls
  <2>5. CallBounds'
    BY <2>1, <2>2 DEF Inv, CallBounds, InCall, Calls
  <2>6. QED  BY <2>3, <2>4, <2>5 DEF Inv
<1>3. QED  BY <1>1, <1>2

\* The checkpoint a save writes, and the locals it leaves.
LEMMA SaveInv ==
    ASSUME Inv, SaveCheckpoint
    PROVE  Inv'
<1> DEFINE s == call.sequence
           cp == [state_id |-> call.state, next_state |-> call.next, output |-> call.output]
<1>1. /\ InCall /\ pc = "save" /\ pc' = "loop"
      /\ call.state \in StateIds /\ call.transitions < MaxTransitions
      /\ call.output.depth = s + 1
  BY CallType, WorkflowType
     DEF SaveCheckpoint, InCall, Inv, CallBounds, DepthMatchesSequence
<1>2. /\ call \in Calls /\ s \in Sequences /\ cp \in Checkpoints
      /\ store \in [Sequences -> Checkpoints \cup {None}]
  BY <1>1, CallType, Limits DEF Calls, Sequences, Checkpoints, Inv, TypeOK
<1>3. store' = store \/ store' = [store EXCEPT ![s] = cp]
  BY DEF SaveCheckpoint
<1>4. store' \in [Sequences -> Checkpoints \cup {None}]
  BY <1>2, <1>3
<1>5. /\ call' = [call EXCEPT !.state = call.next, !.input = call.output,
                              !.sequence = call.sequence + 1,
                              !.transitions = call.transitions + 1,
                              !.attempt = 0]
      /\ UNCHANGED <<backend, result, deleting, jobs, kills>>
  BY DEF SaveCheckpoint
<1>6. call' \in Calls
  <2>1. /\ call.next \in NextIds /\ call.output \in Outputs
        /\ call.sequence + 1 \in 0 .. SequenceBound + 1
        /\ call.transitions + 1 \in 0 .. MaxTransitions
        /\ 0 \in 0 .. MaxStateRetries
    BY <1>1, <1>2, CallType, Limits DEF Calls
  <2>2. QED  BY <1>2, <1>5, <2>1 DEF Calls
<1>7. TypeOK'
  BY <1>1, <1>4, <1>5, <1>6 DEF Inv, TypeOK
<1>8. \A t \in Written' : store'[t].output.depth = t + 1
  <2> SUFFICES ASSUME NEW t \in Sequences, store'[t] # None
               PROVE  store'[t].output.depth = t + 1
    BY DEF Written
  <2>1. CASE store' = store
    BY <2>1 DEF Inv, DepthMatchesSequence, Written
  <2>2. CASE store' = [store EXCEPT ![s] = cp] /\ t = s
    BY <1>1, <1>2, <2>2
  <2>3. CASE store' = [store EXCEPT ![s] = cp] /\ t # s
    <3>1. store'[t] = store[t]
      BY <1>2, <2>3
    <3>2. QED  BY <3>1 DEF Inv, DepthMatchesSequence, Written
  <2>4. QED  BY <1>3, <2>1, <2>2, <2>3
<1>9. DepthMatchesSequence'
  BY <1>1, <1>2, <1>5, <1>8 DEF DepthMatchesSequence, Calls
<1>10. CallBounds'
  BY <1>1, <1>2, <1>5, CallType, Limits DEF Inv, CallBounds, InCall, Calls
<1>11. QED  BY <1>7, <1>9, <1>10 DEF Inv

\* delete and a kill only ever remove checkpoints, and leave no call behind.
LEMMA ForgetInv ==
    ASSUME Inv,
           DeleteMemory \/ DeleteFiles \/ Unlink \/ DeleteEnd \/ Kill
    PROVE  Inv'
<1>1. /\ store' \in [Sequences -> Checkpoints \cup {None}]
      /\ \A s \in Sequences : store'[s] = store[s] \/ store'[s] = None
  BY DEF Inv, TypeOK, Written, EmptyStore, DeleteMemory, DeleteFiles, Unlink, DeleteEnd, Kill
<1>2. pc' \in {"idle", "delete"} /\ call' = NoCall
  BY DEF Inv, TypeOK, DeleteMemory, DeleteFiles, Unlink, DeleteEnd, Kill
<1>3. /\ backend' \in Backends /\ result' \in Results \cup {NoResult}
      /\ jobs' \in 0 .. MaxJobs /\ kills' \in 0 .. MaxKills
  BY Limits DEF Inv, TypeOK, DeleteMemory, DeleteFiles, Unlink, DeleteEnd, Kill
<1>4. deleting' \in BOOLEAN
  BY DEF Inv, TypeOK, DeleteMemory, DeleteFiles, Unlink, DeleteEnd, Kill
<1>5. TypeOK'
  BY <1>1, <1>2, <1>3, <1>4 DEF TypeOK
<1>6. DepthMatchesSequence' /\ CallBounds'
  BY <1>1, <1>2 DEF Inv, DepthMatchesSequence, CallBounds, InCall, Written
<1>7. QED  BY <1>5, <1>6 DEF Inv

\* Every step of callers, engine and kill keeps the invariant.
LEMMA NextInv == Inv /\ [Next]_vars => Inv'
<1> SUFFICES ASSUME Inv, [Next]_vars PROVE Inv'
  OBVIOUS
<1>1. ASSUME NEW wf \in Workflows, Run(wf) PROVE Inv'
  <2>1. jobs + 1 \in 0 .. MaxJobs /\ jobs' = jobs + 1
    BY <1>1, Limits DEF Run, Inv, TypeOK
  <2>2. QED  BY <1>1, <2>1, RunFromInv DEF Run
<1>2. ASSUME NEW wf \in Workflows,
             ResumeFresh(wf) \/ ResumeDone(wf) \/ ResumeRefused(wf) \/ ResumeContinue(wf)
      PROVE  Inv'
  BY <1>2, ResumeInv
<1>3. CASE Finish \/ Overrun \/ RetriesExhausted \/ ExecuteFails \/ ExecuteRaises \/ SaveRefused
  BY <1>3, EndInv
<1>4. CASE ExecuteOk \/ ExecuteRetryable
  BY <1>4, ExecuteInv
<1>5. CASE SaveCheckpoint
  BY <1>5, SaveInv
<1>6. CASE DeleteMemory \/ DeleteFiles \/ Unlink \/ DeleteEnd \/ Kill
  BY <1>6, ForgetInv
<1>7. CASE UNCHANGED vars
  BY <1>7 DEF vars, Inv, TypeOK, DepthMatchesSequence, CallBounds, InCall, Written
<1>8. QED
  BY <1>1, <1>2, <1>3, <1>4, <1>5, <1>6, <1>7 DEF Next, Caller, Engine

\* Whatever the states of the workflows return, raise or fail with, and wherever
\* the process is killed: no call exceeds its limits, and every checkpoint holds
\* a well-formed transition.
THEOREM TypeCorrect == Spec => []TypeOK
<1>1. Inv => TypeOK
  BY DEF Inv
<1>2. QED  BY InitInv, NextInv, <1>1, PTL DEF Spec

\* Across retries, kills and resumes, and even when a workflow_id is reused
\* without deleting its checkpoints, no state's work is applied twice to the data
\* and none is skipped (WorkflowEngine._run_loop, resume).
THEOREM DepthCorrect == Spec => []DepthMatchesSequence
<1>1. Inv => DepthMatchesSequence
  BY DEF Inv
<1>2. QED  BY InitInv, NextInv, <1>1, PTL DEF Spec

-----------------------------------------------------------------------------
\* The log of a workflow_id that is reused only after its checkpoints are
\* deleted.  LogIsChained is not inductive: resume needs to know that nothing is
\* missing below the latest checkpoint, and a save needs to know that the call in
\* progress goes on from the latest checkpoint.
NoGaps == ~deleting => \A s \in Written, t \in Sequences : t < s => t \in Written

CallFollowsLog ==
    /\ InCall /\ call.sequence > 0 =>
         /\ store[call.sequence - 1].next_state = call.state
         /\ store[call.sequence - 1].output = call.input
    /\ pc = "save" => call.output.job = call.input.job

DeletingIsExclusive == (InCall => ~deleting) /\ (pc = "delete" => deleting)

LogInv == LogIsChained /\ NoGaps /\ CallFollowsLog /\ DeletingIsExclusive

-----------------------------------------------------------------------------
\* The empty log is a chain.
LEMMA InitLogInv == Init => LogInv
<1> SUFFICES ASSUME Init PROVE LogInv
  OBVIOUS
<1>1. Written = {} /\ pc = "idle"
  BY DEF Init, EmptyStore, Written
<1>2. QED
  BY <1>1 DEF LogInv, LogIsChained, NoGaps, CallFollowsLog, DeletingIsExclusive, InCall

\* Between calls only the store and the pending delete matter.
LEMMA IdleLogInv ==
    ASSUME LogInv, pc' = "idle", UNCHANGED <<store, deleting>>
    PROVE  LogInv'
BY DEF LogInv, LogIsChained, NoGaps, CallFollowsLog, DeletingIsExclusive, InCall, Written

\* A call enters the loop right behind the latest checkpoint.
LEMMA EnterLogInv ==
    ASSUME LogInv, NEW wf, NEW state, NEW input, NEW sequence \in Nat,
           EnterLoop(wf, state, input, sequence),
           ~deleting, UNCHANGED <<store, deleting>>,
           \A s \in Sequences : s \in Written <=> s < sequence,
           sequence > 0 => /\ store[sequence - 1].next_state = state
                           /\ store[sequence - 1].output = input
    PROVE  LogInv'
<1>1. pc' = "loop" /\ call'.sequence = sequence /\ call'.state = state /\ call'.input = input
  BY DEF EnterLoop
<1>2. LogIsChained' /\ NoGaps'
  BY <1>1 DEF LogInv, LogIsChained, NoGaps, Written
<1>3. CallFollowsLog' /\ DeletingIsExclusive'
  BY <1>1 DEF CallFollowsLog, DeletingIsExclusive, InCall
<1>4. QED  BY <1>2, <1>3 DEF LogInv

\* A call that enters the loop on an empty store is at the end of the log.
LEMMA RunFromLogInv ==
    ASSUME LogInv, NEW wf, NEW input, RunFrom(wf, input),
           Written = {}, ~deleting, UNCHANGED <<store, deleting>>
    PROVE  LogInv'
<1>1. CASE Valid(wf)
  <2>1. EnterLoop(wf, wf.initial, input, 0)
    BY <1>1 DEF RunFrom
  <2>2. \A s \in Sequences : s \in Written <=> s < 0
    BY Limits DEF Sequences
  <2>3. QED  BY <2>1, <2>2, EnterLogInv
<1>2. CASE ~Valid(wf)
  BY <1>2, IdleLogInv DEF RunFrom, Answer
<1>3. QED  BY <1>1, <1>2

\* resume enters the loop with the sequence after the latest checkpoint.
LEMMA ResumeContinueLogInv ==
    ASSUME Inv, LogInv, CleanCaller, NEW wf \in Workflows, ResumeContinue(wf)
    PROVE  LogInv'
<1>1. PICK s \in Written :
         /\ IsLatest(s)
         /\ EnterLoop(wf, store[s].next_state, store[s].output, s + 1)
  BY DEF ResumeContinue
<1>2. s \in Sequences /\ s \in Nat /\ s + 1 \in Nat /\ (s + 1) - 1 = s
  BY Limits DEF Written, Sequences
<1>3. ~deleting /\ UNCHANGED <<store, deleting>>
  BY DEF ResumeContinue, MayResume
<1>4. ASSUME NEW t \in Sequences PROVE t \in Written <=> t < s + 1
  <2>1. t \in Nat
    BY DEF Sequences
  <2>2. t \in Written => t <= s
    BY <1>1 DEF IsLatest
  <2>3. t < s => t \in Written
    BY <1>3 DEF LogInv, NoGaps
  <2>4. QED  BY <1>1, <1>2, <2>1, <2>2, <2>3
<1>5. QED  BY <1>1, <1>2, <1>3, <1>4, EnterLogInv

\* Executing a state touches no checkpoint.
LEMMA ExecuteLogInv ==
    ASSUME Inv, LogInv, ExecuteOk \/ ExecuteRetryable
    PROVE  LogInv'
<1>1. InCall /\ pc = "loop" /\ pc' \in {"loop", "save"} /\ UNCHANGED <<store, deleting>>
  BY DEF ExecuteOk, ExecuteRetryable, MayExecute, InLoop, InCall, StoreKept
<1>2. call \in Calls
  BY <1>1, CallType
<1>3. /\ call'.sequence = call.sequence /\ call'.state = call.state
      /\ call'.input = call.input
      /\ pc' = "save" => call'.output.job = call.input.job
  <2>1. CASE ExecuteOk
    <3>1. PICK next \in NextIds :
             call' = [call EXCEPT !.next = next,
                                  !.output = [job |-> call.input.job,
                                              depth |-> call.input.depth + 1]]
      BY <2>1 DEF ExecuteOk
    <3>2. call'.output = [job |-> call.input.job, depth |-> call.input.depth + 1]
      BY <1>2, <3>1 DEF Calls
    <3>3. QED  BY <1>2, <3>1, <3>2 DEF Calls
  <2>2. CASE ExecuteRetryable
    BY <1>1, <1>2, <2>2 DEF ExecuteRetryable, MayExecute, InLoop, Calls
  <2>3. QED  BY <2>1, <2>2
<1>4. LogIsChained' /\ NoGaps'
  BY <1>1, <1>3 DEF LogInv, LogIsChained, NoGaps, Written, InCall
<1>5. CallFollowsLog' /\ DeletingIsExclusive'
  BY <1>1, <1>3 DEF LogInv, CallFollowsLog, DeletingIsExclusive, InCall
<1>6. QED  BY <1>4, <1>5 DEF LogInv

\* A save writes the first free sequence, so nothing is replaced, and the next
\* iteration goes on from what was written.
LEMMA SaveLogInv ==
    ASSUME Inv, LogInv, SaveCheckpoint
    PROVE  LogInv'
<1> DEFINE n == call.sequence
           cp == [state_id |-> call.state, next_state |-> call.next, output |-> call.output]
<1>1. InCall /\ pc = "save" /\ pc' = "loop" /\ ~deleting /\ deleting' = deleting
  BY DEF SaveCheckpoint, InCall, LogInv, DeletingIsExclusive
<1>2. /\ call \in Calls /\ n \in Sequences /\ n \in Nat
      /\ store \in [Sequences -> Checkpoints \cup {None}]
  BY <1>1, CallType, Limits DEF Sequences, Inv, TypeOK
<1>3. /\ call'.sequence = n + 1 /\ call'.state = call.next /\ call'.input = call.output
  BY <1>2 DEF SaveCheckpoint, Calls
<1>4. \A s \in Sequences : s \in Written <=> s < n
  BY <1>1 DEF LogInv, LogIsChained, InCall
<1>5. n \notin Written
  BY <1>2, <1>4
<1>6. store' = [store EXCEPT ![n] = cp]
  BY <1>5 DEF SaveCheckpoint
<1>7. store'[n] = cp /\ \A s \in Sequences \ {n} : store'[s] = store[s]
  BY <1>2, <1>6
<1>8. cp # None
  <2>1. call.state \in StateIds
    BY <1>1, CallType, WorkflowType DEF Inv, CallBounds
  <2>2. cp \in Checkpoints
    BY <1>2, <2>1 DEF Calls, Checkpoints
  <2>3. QED  BY <2>2, NoneAssumption
<1>9. \A s \in Sequences : s \in Written' <=> s < n + 1
  BY <1>2, <1>4, <1>7, <1>8 DEF Written, Sequences
<1>10. LogIsChained'
  <2>1. \A s \in Sequences : s \in Written' <=> s < call'.sequence
    BY <1>3, <1>9
  <2>2. ASSUME NEW s \in Written' \ {0}
        PROVE  /\ s - 1 \in Written'
               /\ store'[s - 1].next_state = store'[s].state_id
               /\ store'[s - 1].output.job = store'[s].output.job
    <3>1. /\ s \in Sequences /\ s \in Nat /\ s > 0 /\ s < n + 1
          /\ s - 1 \in Sequences /\ s - 1 < n /\ s - 1 \in Written'
      BY <1>2, <1>9, Limits DEF Sequences, Written
    <3>2. store'[s - 1] = store[s - 1]
      BY <1>7, <3>1
    <3>3. CASE s = n
      <4>1. store[n - 1].next_state = call.state /\ store[n - 1].output = call.input
        BY <1>1, <1>2, <3>1, <3>3 DEF LogInv, CallFollowsLog
      <4>2. call.output.job = call.input.job
        BY <1>1 DEF LogInv, CallFollowsLog
      <4>3. QED  BY <1>7, <3>1, <3>2, <3>3, <4>1, <4>2
    <3>4. CASE s # n
      <4>1. s \in Written \ {0} /\ store'[s] = store[s]
        BY <1>2, <1>4, <1>7, <3>1, <3>4
      <4>2. QED  BY <1>1, <3>1, <3>2, <4>1 DEF LogInv, LogIsChained
    <3>5. QED  BY <3>3, <3>4
  <2>3. QED  BY <2>1, <2>2 DEF LogIsChained
<1>11. NoGaps'
  BY <1>2, <1>9 DEF NoGaps, Written, Sequences
<1>12. CallFollowsLog'
  BY <1>1, <1>2, <1>3, <1>7 DEF CallFollowsLog, InCall
<1>13. QED  BY <1>1, <1>10, <1>11, <1>12 DEF LogInv, DeletingIsExclusive, InCall

\* A delete first marks the workflow_id and unmarks it when no file is left; a
\* kill keeps the log as it is or loses all of it.
LEMMA ForgetLogInv ==
    ASSUME Inv, LogInv,
           DeleteMemory \/ DeleteFiles \/ Unlink \/ DeleteEnd \/ Kill
    PROVE  LogInv'
<1>1. pc' \in {"idle", "delete"} /\ (pc' = "delete" => deleting')
  BY DEF LogInv, DeletingIsExclusive, DeleteMemory, DeleteFiles, Unlink, DeleteEnd, Kill
<1>2. deleting' \/ Written' = {} \/ (~deleting /\ ~deleting' /\ store' = store)
  BY DEF LogInv, DeletingIsExclusive, DeleteMemory, DeleteFiles, Unlink, DeleteEnd, Kill,
         EmptyStore, Written
<1>3. LogIsChained' /\ NoGaps'
  BY <1>1, <1>2 DEF LogInv, LogIsChained, NoGaps, Written
<1>4. CallFollowsLog' /\ DeletingIsExclusive'
  BY <1>1 DEF CallFollowsLog, DeletingIsExclusive, InCall
<1>5. QED  BY <1>3, <1>4 DEF LogInv

\* Every step keeps the log a chain if an id is reused only after its delete.
LEMMA NextLogInv == CleanCaller /\ Inv /\ LogInv /\ [Next]_vars => LogInv'
<1> SUFFICES ASSUME CleanCaller, Inv, LogInv, [Next]_vars PROVE LogInv'
  OBVIOUS
<1>1. ASSUME NEW wf \in Workflows, Run(wf) PROVE LogInv'
  BY <1>1, RunFromLogInv DEF Run
<1>2. ASSUME NEW wf \in Workflows, ResumeFresh(wf) PROVE LogInv'
  BY <1>2, RunFromLogInv DEF ResumeFresh, MayResume
<1>3. ASSUME NEW wf \in Workflows, ResumeDone(wf) \/ ResumeRefused(wf) PROVE LogInv'
  BY <1>3, IdleLogInv DEF ResumeDone, ResumeRefused, Answer
<1>4. ASSUME NEW wf \in Workflows, ResumeContinue(wf) PROVE LogInv'
  BY <1>4, ResumeContinueLogInv
<1>5. CASE Finish \/ Overrun \/ RetriesExhausted \/ ExecuteFails \/ ExecuteRaises \/ SaveRefused
  BY <1>5, IdleLogInv DEF Finish, Overrun, RetriesExhausted, ExecuteFails, ExecuteRaises,
     SaveRefused, Fail, Answer, StoreKept
<1>6. CASE ExecuteOk \/ ExecuteRetryable
  BY <1>6, ExecuteLogInv
<1>7. CASE SaveCheckpoint
  BY <1>7, SaveLogInv
<1>8. CASE DeleteMemory \/ DeleteFiles \/ Unlink \/ DeleteEnd \/ Kill
  BY <1>8, ForgetLogInv
<1>9. CASE UNCHANGED vars
  BY <1>9 DEF vars, LogInv, LogIsChained, NoGaps, CallFollowsLog, DeletingIsExclusive, InCall,
     Written
<1>10. QED
  BY <1>1, <1>2, <1>3, <1>4, <1>5, <1>6, <1>7, <1>8, <1>9 DEF Next, Caller, Engine

\* If callers delete before they run again, the checkpoints are one unbroken
\* history of one job and no save replaces a checkpoint, whatever is killed.
THEOREM LogCorrect == CleanCaller => (Spec => []LogIsChained)
<1>1. CASE CleanCaller
  <2>1. LogInv => LogIsChained
    BY DEF LogInv
  <2>2. Inv /\ LogInv /\ [Next]_vars => (Inv /\ LogInv)'
    BY <1>1, NextInv, NextLogInv
  <2>3. QED  BY InitInv, InitLogInv, <2>1, <2>2, PTL DEF Spec
<1>2. QED  BY <1>1

\* The latest checkpoint of a call in progress is the one it follows, so a log
\* that ends in next_state None never belongs to a call with work left.
LEMMA LogInvIsQuiet == Inv /\ LogInv => ClosedLogIsQuiet
<1> SUFFICES ASSUME Inv, LogInv,
                    NEW s \in Written, IsLatest(s), store[s].next_state = None,
                    pc = "save" \/ MayExecute
             PROVE  FALSE
  BY DEF ClosedLogIsQuiet
<1>1. InCall /\ call.sequence \in 0 .. SequenceBound
  BY CallType DEF InCall, MayExecute, InLoop
<1>2. \A t \in Sequences : t \in Written <=> t < call.sequence
  BY <1>1 DEF LogInv, LogIsChained, InCall
<1>3. s \in Sequences /\ s \in Nat /\ s < call.sequence
  BY <1>2 DEF Written, Sequences
<1>4. call.sequence - 1 \in Written
  BY <1>1, <1>2, <1>3, Limits DEF Sequences
<1>5. s = call.sequence - 1
  BY <1>1, <1>3, <1>4 DEF IsLatest
<1>6. call.state = None
  BY <1>1, <1>3, <1>5 DEF LogInv, CallFollowsLog
<1>7. CASE pc = "save"
  BY <1>1, <1>6, <1>7, CallType, WorkflowType, WorkflowAssumption DEF Inv, CallBounds
<1>8. CASE MayExecute
  BY <1>6, <1>8 DEF MayExecute, Unfinished, IsTerminal
<1>9. QED  BY <1>7, <1>8

\* A workflow whose last checkpoint says there is no next state stays finished:
\* nothing is executed and nothing saved until the checkpoints are deleted.
THEOREM QuietCorrect == CleanCaller => (Spec => []ClosedLogIsQuiet)
<1>1. CASE CleanCaller
  <2>1. Inv /\ LogInv /\ [Next]_vars => (Inv /\ LogInv)'
    BY <1>1, NextInv, NextLogInv
  <2>2. QED  BY InitInv, InitLogInv, LogInvIsQuiet, <2>1, PTL DEF Spec
<1>2. QED  BY <1>1

-----------------------------------------------------------------------------
(******************************************************************************)
(* The engine implements DurableJob: the answers agree with the log, and      *)
(* every step of the engine is a step of DurableJob or changes nothing it     *)
(* can see.                                                                   *)
(******************************************************************************)

\* Workflows passed for one workflow_id agree on what ends it: what is a marker
\* to one is not an ordinary state of another.
MarkersAgree == \A wf \in Workflows : wf.states \cap Markers \subseteq wf.terminals

\* What is answered between calls is what the log says, a delete forgets the
\* answer first, and only a state that is not a marker is executed.
AnswersInv ==
    /\ CompletedAnswerIsTheLog
    /\ pc = "delete" => result = NoResult
    /\ pc = "save" => call.state \notin call.wf.terminals

-----------------------------------------------------------------------------
\* There are n sequence numbers below n.
LEMMA CountBelow ==
    ASSUME NEW n \in Nat
    PROVE  Cardinality(0 .. n - 1) = n
BY FS_Interval

\* A log without gaps below n holds n checkpoints.
LEMMA WrittenCount ==
    ASSUME NEW n \in 0 .. SequenceBound + 1,
           \A s \in Sequences : s \in Written <=> s < n
    PROVE  Written = 0 .. n - 1 /\ Cardinality(Written) = n
<1>1. Written = 0 .. n - 1
  BY Limits DEF Written, Sequences
<1>2. Cardinality(0 .. n - 1) = n
  BY CountBelow, Limits
<1>3. QED  BY <1>1, <1>2

\* Written is finite and counts at most as much after a step that removes.
LEMMA WrittenFinite == IsFiniteSet(Written) /\ Cardinality(Written) \in Nat
<1>1. IsFiniteSet(Sequences)
  BY FS_Interval, Limits DEF Sequences
<1>2. Written \in SUBSET Sequences
  BY DEF Written
<1>3. QED  BY <1>1, <1>2, FS_Subset, FS_CardinalityType

\* A call in progress: as many checkpoints as its sequence, the last of which
\* names the state it is at and holds its input.
LEMMA CallLog ==
    ASSUME Inv, LogInv, InCall
    PROVE  /\ Cardinality(Written) = call.sequence
           /\ \A s \in Written : IsLatest(s) =>
                 /\ store[s].next_state = call.state
                 /\ store[s].output = call.input
           /\ call.sequence > 0 => call.sequence - 1 \in Written /\ IsLatest(call.sequence - 1)
<1>1. call.sequence \in 0 .. SequenceBound
  BY CallType
<1>2. \A s \in Sequences : s \in Written <=> s < call.sequence
  BY DEF LogInv, LogIsChained, InCall
<1>3. Written = 0 .. call.sequence - 1 /\ Cardinality(Written) = call.sequence
  BY <1>1, <1>2, WrittenCount, Limits
<1>4. call.sequence > 0 => call.sequence - 1 \in Written /\ IsLatest(call.sequence - 1)
  BY <1>1, <1>3 DEF IsLatest
<1>5. ASSUME NEW s \in Written, IsLatest(s)
      PROVE  store[s].next_state = call.state /\ store[s].output = call.input
  <2>1. call.sequence > 0 /\ s = call.sequence - 1
    BY <1>1, <1>3, <1>4, <1>5 DEF IsLatest
  <2>2. QED  BY <2>1 DEF LogInv, CallFollowsLog
<1>6. QED  BY <1>3, <1>4, <1>5

\* Between calls, the latest checkpoint s counts the log.
LEMMA IdleLog ==
    ASSUME Inv, LogInv, ~deleting, NEW s \in Written, IsLatest(s)
    PROVE  Cardinality(Written) = s + 1
<1>1. s \in 0 .. SequenceBound
  BY StoredType
<1>2. ASSUME NEW t \in Sequences PROVE t \in Written <=> t < s + 1
  <2>1. t \in Nat
    BY DEF Sequences
  <2>2. t \in Written => t <= s
    BY DEF IsLatest
  <2>3. t < s => t \in Written
    BY DEF LogInv, NoGaps
  <2>4. QED  BY <1>1, <2>1, <2>2, <2>3
<1>3. QED  BY <1>1, <1>2, WrittenCount, Limits

-----------------------------------------------------------------------------
\* Nothing has been answered at first.
LEMMA InitAnswerInv == Init => AnswersInv
BY DEF Init, AnswersInv, CompletedAnswerIsTheLog, NoResult

\* Any answer other than COMPLETED, and any step that leaves no answer standing
\* between calls, keeps the invariant.
LEMMA QuietAnswerInv ==
    ASSUME AnswersInv,
           pc' = "idle" => result'.status # "COMPLETED",
           pc' = "delete" => result' = NoResult,
           pc' # "save"
    PROVE  AnswersInv'
BY DEF AnswersInv, CompletedAnswerIsTheLog

\* The call that finishes answers with its own input, the output of its last save.
LEMMA FinishAnswerInv ==
    ASSUME Inv, LogInv, Finish
    PROVE  AnswersInv'
<1>1. InCall /\ pc' = "idle" /\ UNCHANGED store
  BY DEF Finish, InLoop, InCall, Answer, StoreKept
<1>2. result' = [status |-> "COMPLETED", output |-> call.input, saved |-> call.sequence]
  BY DEF Finish, Answer
<1>3. QED
  BY <1>1, <1>2, CallLog DEF AnswersInv, CompletedAnswerIsTheLog, Written, IsLatest

\* resume on a closed log answers with the latest checkpoint and its number.
LEMMA ResumeDoneAnswerInv ==
    ASSUME Inv, LogInv, CleanCaller, NEW wf \in Workflows, ResumeDone(wf)
    PROVE  AnswersInv'
<1>1. PICK s \in Written : IsLatest(s) /\ Answer("COMPLETED", store[s].output, s + 1)
  BY DEF ResumeDone
<1>2. ~deleting /\ pc' = "idle" /\ UNCHANGED store
  BY <1>1 DEF ResumeDone, MayResume, Answer
<1>3. result' = [status |-> "COMPLETED", output |-> store[s].output, saved |-> s + 1]
  BY <1>1 DEF Answer
<1>4. Cardinality(Written) = s + 1
  BY <1>1, <1>2, IdleLog
<1>5. \A t \in Written : IsLatest(t) => t = s
  BY <1>1 DEF IsLatest, Written, Sequences
<1>6. QED
  BY <1>2, <1>3, <1>4, <1>5 DEF AnswersInv, CompletedAnswerIsTheLog, Written, IsLatest

\* Every step keeps what was answered in agreement with the log.
LEMMA NextAnswerInv ==
    CleanCaller /\ Inv /\ LogInv /\ AnswersInv /\ [Next]_vars => AnswersInv'
<1> SUFFICES ASSUME CleanCaller, Inv, LogInv, AnswersInv, [Next]_vars PROVE AnswersInv'
  OBVIOUS
<1>1. ASSUME NEW wf \in Workflows, NEW input, RunFrom(wf, input) PROVE AnswersInv'
  BY <1>1, QuietAnswerInv DEF RunFrom, EnterLoop, Answer
<1>2. ASSUME NEW wf \in Workflows, Run(wf) \/ ResumeFresh(wf) PROVE AnswersInv'
  BY <1>1, <1>2 DEF Run, ResumeFresh
<1>3. ASSUME NEW wf \in Workflows, ResumeRefused(wf) \/ ResumeContinue(wf) PROVE AnswersInv'
  BY <1>3, QuietAnswerInv DEF ResumeRefused, ResumeContinue, EnterLoop, Answer
<1>4. ASSUME NEW wf \in Workflows, ResumeDone(wf) PROVE AnswersInv'
  BY <1>4, ResumeDoneAnswerInv
<1>5. CASE Finish
  BY <1>5, FinishAnswerInv
<1>6. CASE Overrun \/ RetriesExhausted \/ ExecuteFails \/ ExecuteRaises \/ SaveRefused
  BY <1>6, QuietAnswerInv
     DEF Overrun, RetriesExhausted, ExecuteFails, ExecuteRaises, SaveRefused, Fail, Answer
<1>7. CASE ExecuteOk
  <2>1. InCall /\ pc' = "save" /\ call.state \notin call.wf.terminals
    BY <1>7 DEF ExecuteOk, MayExecute, InLoop, InCall, Unfinished, IsTerminal
  <2>2. call'.state = call.state /\ call'.wf = call.wf
    BY <1>7, <2>1, CallType DEF ExecuteOk, Calls
  <2>3. QED  BY <2>1, <2>2 DEF AnswersInv, CompletedAnswerIsTheLog
<1>8. CASE ExecuteRetryable \/ SaveCheckpoint
  BY <1>8, QuietAnswerInv DEF ExecuteRetryable, MayExecute, InLoop, SaveCheckpoint
<1>9. CASE DeleteMemory \/ DeleteFiles \/ Unlink \/ DeleteEnd \/ Kill
  BY <1>9, QuietAnswerInv
     DEF AnswersInv, DeleteMemory, DeleteFiles, Unlink, DeleteEnd, Kill, NoResult
<1>10. CASE UNCHANGED vars
  BY <1>10 DEF vars, AnswersInv, CompletedAnswerIsTheLog, Written, IsLatest
<1>11. QED
  BY <1>2, <1>3, <1>4, <1>5, <1>6, <1>7, <1>8, <1>9, <1>10 DEF Next, Caller, Engine

\* With callers that delete before they run again, COMPLETED always comes with
\* the number of checkpoints there are and the output of the latest one.
THEOREM AnswerCorrect == CleanCaller => (Spec => []CompletedAnswerIsTheLog)
<1>1. CASE CleanCaller
  <2>1. AnswersInv => CompletedAnswerIsTheLog
    BY DEF AnswersInv
  <2>2. Inv /\ LogInv /\ AnswersInv /\ [Next]_vars => (Inv /\ LogInv /\ AnswersInv)'
    BY <1>1, NextInv, NextLogInv, NextAnswerInv
  <2>3. QED  BY InitInv, InitLogInv, InitAnswerInv, <2>1, <2>2, PTL DEF Spec
<1>2. QED  BY <1>1

-----------------------------------------------------------------------------
\* The refinement, step by step.  What DurableJob sees of the engine:
DurableView == <<DurableSteps, LogIsClosed, result.status>>

\* The mapped closed is a truth value before and after a step.
LEMMA ClosedIsBoolean == LogIsClosed \in BOOLEAN /\ LogIsClosed' \in BOOLEAN
BY DEF LogIsClosed

\* A step that leaves the store alone changes neither mapped variable of it.
LEMMA ViewKept ==
    ASSUME UNCHANGED store
    PROVE  DurableSteps' = DurableSteps /\ LogIsClosed' = LogIsClosed
BY DEF DurableSteps, LogIsClosed, Written, IsLatest

\* An answer is a Judge step if it is not COMPLETED, or if the log bears it out.
LEMMA AnswerJudges ==
    ASSUME NEW status \in Statuses, NEW output, NEW saved,
           Answer(status, output, saved), UNCHANGED store,
           status = "COMPLETED" => LogIsClosed \/ DurableSteps = 0
    PROVE  Durable!Judge
<1>1. result'.status = status
  BY DEF Answer
<1>2. QED  BY <1>1, ViewKept DEF Durable!Judge, Statuses

\* Entering the loop is a stutter of DurableJob, a failed validation a Judge.
LEMMA RunFromStep ==
    ASSUME NEW wf, NEW input, RunFrom(wf, input), UNCHANGED store
    PROVE  Durable!Judge \/ UNCHANGED DurableView
<1>1. CASE Valid(wf)
  BY <1>1, ViewKept DEF RunFrom, EnterLoop, DurableView
<1>2. CASE ~Valid(wf)
  BY <1>2, AnswerJudges DEF RunFrom, Statuses
<1>3. QED  BY <1>1, <1>2

\* resume answers for the log it found, or enters the loop.
LEMMA ResumeStep ==
    ASSUME NEW wf,
           ResumeDone(wf) \/ ResumeRefused(wf) \/ ResumeContinue(wf)
    PROVE  Durable!Judge \/ UNCHANGED DurableView
<1>1. CASE ResumeDone(wf)
  <2>1. PICK s \in Written :
           /\ IsLatest(s) /\ store[s].next_state = None
           /\ Answer("COMPLETED", store[s].output, s + 1)
    BY <1>1 DEF ResumeDone
  <2>2. LogIsClosed
    BY <2>1 DEF LogIsClosed
  <2>3. QED  BY <1>1, <2>1, <2>2, AnswerJudges DEF ResumeDone, Statuses
<1>2. CASE ResumeRefused(wf)
  BY <1>2, AnswerJudges DEF ResumeRefused, Statuses
<1>3. CASE ResumeContinue(wf)
  BY <1>3, ViewKept DEF ResumeContinue, EnterLoop, DurableView
<1>4. QED  BY <1>1, <1>2, <1>3

\* The loop ends at a terminal state: the log is closed by it, or empty.
LEMMA FinishStep ==
    ASSUME Inv, LogInv, Finish
    PROVE  Durable!Judge
<1>1. InCall /\ IsTerminal(call.wf, call.state) /\ UNCHANGED store
  BY DEF Finish, InLoop, InCall, StoreKept
<1>2. call.state \in {None} \cup Markers
  BY <1>1, CallType DEF IsTerminal, Markers
<1>3. LogIsClosed \/ DurableSteps = 0
  <2>1. CASE call.sequence > 0
    BY <1>1, <1>2, <2>1, CallLog DEF LogIsClosed
  <2>2. CASE ~(call.sequence > 0)
    <3>1. call.sequence = 0
      BY <1>1, <2>2, CallType, Limits
    <3>2. QED  BY <1>1, <3>1, CallLog DEF DurableSteps
  <2>3. QED  BY <2>1, <2>2
<1>4. QED  BY <1>1, <1>3, AnswerJudges DEF Finish, Statuses

\* A save commits one more step to a log that is not closed.
LEMMA SaveStep ==
    ASSUME MarkersAgree, Inv, LogInv, LogInv', Inv', AnswersInv, SaveCheckpoint
    PROVE  Durable!Commit
<1>1. InCall /\ pc = "save" /\ pc' = "loop" /\ result' = result
  BY DEF SaveCheckpoint, InCall
<1>2. call \in Calls /\ call'.sequence = call.sequence + 1 /\ call.sequence \in Nat
  BY <1>1, CallType, Limits DEF SaveCheckpoint, Calls
<1>3. ~LogIsClosed
  <2>1. call.state \in call.wf.states /\ call.state \notin call.wf.terminals
    BY <1>1 DEF Inv, CallBounds, AnswersInv
  <2>2. call.state \notin {None} \cup Markers
    BY <1>1, <2>1, CallType, WorkflowType, WorkflowAssumption DEF MarkersAgree
  <2>3. QED  BY <1>1, <2>2, CallLog DEF LogIsClosed
<1>4. DurableSteps = call.sequence
  BY <1>1, CallLog DEF DurableSteps
<1>5. DurableSteps' = call'.sequence
  <2>1. \A s \in Sequences : s \in Written' <=> s < call'.sequence
    BY <1>1 DEF LogInv, LogIsChained
  <2>2. call'.sequence \in 0 .. SequenceBound + 1
    BY <1>1, <1>2, CallType, Limits
  <2>3. Written' = 0 .. call'.sequence - 1
    BY <2>1, <2>2, Limits DEF Written, Sequences
  <2>4. Cardinality(0 .. call'.sequence - 1) = call'.sequence
    BY <1>2, CountBelow
  <2>5. QED  BY <2>3, <2>4 DEF DurableSteps
<1>6. QED  BY <1>1, <1>2, <1>3, <1>4, <1>5, ClosedIsBoolean DEF Durable!Commit

\* A delete or a kill forgets, or cannot be seen.
LEMMA ForgetStep ==
    ASSUME Inv, AnswersInv, DeleteMemory \/ DeleteFiles \/ Unlink \/ DeleteEnd \/ Kill
    PROVE  Durable!Forget
<1>1. result'.status = "NONE"
  BY DEF AnswersInv, DeleteMemory, DeleteFiles, Unlink, DeleteEnd, Kill, NoResult
<1>2. Written' \in SUBSET Written
  <2>1. store \in [Sequences -> Checkpoints \cup {None}]
    BY DEF Inv, TypeOK
  <2>2. \A s \in Sequences : store'[s] = store[s] \/ store'[s] = None
    BY <2>1 DEF DeleteMemory, DeleteFiles, Unlink, DeleteEnd, Kill, Written, EmptyStore
  <2>3. QED  BY <2>2 DEF Written
<1>3. IsFiniteSet(Written')
  BY <1>2, WrittenFinite, FS_Subset
<1>4. Cardinality(Written') <= Cardinality(Written) /\ Cardinality(Written') \in Nat
  BY <1>2, <1>3, WrittenFinite, FS_Subset, FS_CardinalityType
<1>5. DurableSteps' \in 0 .. DurableSteps
  BY <1>4, WrittenFinite DEF DurableSteps
<1>6. QED  BY <1>1, <1>5, ClosedIsBoolean DEF Durable!Forget

\* Every step of the engine is a step of DurableJob or a stutter.
LEMMA NextStep ==
    ASSUME CleanCaller, MarkersAgree, Inv, LogInv, AnswersInv, Inv', LogInv', [Next]_vars
    PROVE  Durable!Next \/ UNCHANGED DurableView
<1>1. ASSUME NEW wf \in Workflows, Run(wf) \/ ResumeFresh(wf)
      PROVE  Durable!Next \/ UNCHANGED DurableView
  BY <1>1, RunFromStep DEF Run, ResumeFresh, Durable!Next
<1>2. ASSUME NEW wf \in Workflows, ResumeDone(wf) \/ ResumeRefused(wf) \/ ResumeContinue(wf)
      PROVE  Durable!Next \/ UNCHANGED DurableView
  BY <1>2, ResumeStep DEF Durable!Next
<1>3. CASE Finish
  BY <1>3, FinishStep DEF Durable!Next
<1>4. CASE Overrun \/ RetriesExhausted \/ ExecuteFails \/ ExecuteRaises \/ SaveRefused
  <2>1. UNCHANGED store
    BY <1>4 DEF Overrun, RetriesExhausted, ExecuteFails, ExecuteRaises, SaveRefused, StoreKept
  <2>2. QED
    BY <1>4, <2>1, AnswerJudges
       DEF Overrun, RetriesExhausted, ExecuteFails, ExecuteRaises, SaveRefused, Fail,
           Statuses, Durable!Next
<1>5. CASE ExecuteOk \/ ExecuteRetryable
  BY <1>5, ViewKept DEF ExecuteOk, ExecuteRetryable, StoreKept, DurableView
<1>6. CASE SaveCheckpoint
  BY <1>6, SaveStep DEF Durable!Next
<1>7. CASE DeleteMemory \/ DeleteFiles \/ Unlink \/ DeleteEnd \/ Kill
  BY <1>7, ForgetStep DEF Durable!Next
<1>8. CASE UNCHANGED vars
  BY <1>8, ViewKept DEF vars, DurableView
<1>9. QED
  BY <1>1, <1>2, <1>3, <1>4, <1>5, <1>6, <1>7, <1>8 DEF Next, Caller, Engine

\* The initial states map to the initial state of DurableJob.
LEMMA InitStep == Init => Durable!Init
<1> SUFFICES ASSUME Init PROVE Durable!Init
  OBVIOUS
<1>1. Written = {}
  BY DEF Init, EmptyStore, Written
<1>2. DurableSteps = 0
  BY <1>1, FS_EmptySet DEF DurableSteps
<1>3. LogIsClosed = FALSE
  BY <1>1 DEF LogIsClosed
<1>4. QED  BY <1>2, <1>3 DEF Init, NoResult, Durable!Init

\* The engine implements DurableJob for every set of workflows that agree on
\* their markers: durable steps are only ever added one at a time to an open log,
\* and COMPLETED is answered for a closed or an empty one.
THEOREM EngineImplementsDurableJob ==
    CleanCaller /\ MarkersAgree => (Spec => ImplementsDurableJob)
<1>1. CASE CleanCaller /\ MarkersAgree
  <2>1. Inv /\ LogInv /\ AnswersInv /\ [Next]_vars => (Inv /\ LogInv /\ AnswersInv)'
    BY <1>1, NextInv, NextLogInv, NextAnswerInv
  <2>2. Inv /\ LogInv /\ AnswersInv /\ Inv' /\ LogInv' /\ [Next]_vars
           => [Durable!Next]_<<DurableSteps, LogIsClosed, result.status>>
    BY <1>1, NextStep DEF DurableView
  <2>3. QED
    BY InitInv, InitLogInv, InitAnswerInv, InitStep, <2>1, <2>2, PTL
       DEF Spec, ImplementsDurableJob, Durable!Spec
<1>2. QED  BY <1>1
=============================================================================
