--------------------------- MODULE WorkflowEngine ---------------------------
(******************************************************************************)
(* WorkflowEngine.run / resume (ryuu_workflow/engine.py), the StateMachine    *)
(* it drives and the two checkpoint stores, for one workflow_id.              *)
(*                                                                            *)
(* One call of run, resume or delete is in progress at a time: a store is     *)
(* single-writer per workflow_id.  The process may be killed between any      *)
(* two awaits; what survives depends on the store.                            *)
(*                                                                            *)
(* A state's output is abstracted to its provenance: the job (the run whose   *)
(* initial_input it was computed from) and how many states that input went    *)
(* through.  What a state returns as next_state, or raises, is its own        *)
(* choice.  Timestamps, metadata and error texts are left out.                *)
(******************************************************************************)
EXTENDS Naturals, FiniteSets

CONSTANTS
    StateIds,        \* every id a state, a marker or a stale checkpoint may carry
    None,            \* next_state = None, and the absence of a checkpoint
    Workflows,       \* the Workflow objects callers pass: [states, initial, terminals]
    Backends,        \* the stores in use, a subset of {"file", "memory"}
    MaxStateRetries, \* WorkflowEngine.max_state_retries
    MaxTransitions,  \* WorkflowEngine.max_transitions
    CleanCaller,     \* callers run() a workflow_id only after its checkpoints are deleted
    MaxJobs,         \* bound: calls of run()
    MaxKills,        \* bound: kills of the process
    SequenceBound    \* bound: sequence numbers, enforced when a resume would pass it

ASSUME WorkflowAssumption ==
    /\ None \notin StateIds
    /\ Workflows \subseteq [states : SUBSET StateIds, initial : StateIds,
                            terminals : SUBSET StateIds]
    /\ Backends \subseteq {"file", "memory"}
    /\ MaxStateRetries \in Nat /\ MaxTransitions \in Nat
    /\ CleanCaller \in BOOLEAN
    /\ MaxJobs \in Nat /\ MaxKills \in Nat /\ SequenceBound \in Nat
    /\ MaxTransitions <= SequenceBound

VARIABLES
    backend,   \* which ICheckpointStore is configured
    store,     \* the checkpoints of the workflow_id by sequence, None where there is none
    pc,        \* what the call in progress awaits
    call,      \* the locals of _run_loop
    result,    \* the last answer a caller got
    deleting,  \* a delete() was asked for and has not finished
    jobs,      \* how many run()s had their own initial_input
    kills

vars == <<backend, store, pc, call, result, deleting, jobs, kills>>

-----------------------------------------------------------------------------
NextIds == StateIds \cup {None}
Sequences == 0 .. SequenceBound

\* initial_input of run number j is [job |-> j, depth |-> 0]; job 0 is
\* the initial_input=None of a resume that finds no checkpoint.
Outputs == [job : 0 .. MaxJobs, depth : 0 .. SequenceBound + 1]
Input(j) == [job |-> j, depth |-> 0]

Checkpoints == [state_id : StateIds, next_state : NextIds, output : Outputs]
ASSUME NoneAssumption == None \notin Checkpoints

NoCall == [wf |-> None, state |-> None, input |-> Input(0), sequence |-> 0,
           transitions |-> 0, attempt |-> 0, next |-> None, output |-> Input(0)]
Calls == [wf : Workflows, state : NextIds, input : Outputs, sequence : 0 .. SequenceBound + 1,
          transitions : 0 .. MaxTransitions, attempt : 0 .. MaxStateRetries,
          next : NextIds, output : Outputs]
Statuses == {"COMPLETED", "FAILED", "RAISED"}
NoResult == [status |-> "NONE", output |-> Input(0), saved |-> 0]
Results == [status : Statuses, output : Outputs, saved : 0 .. SequenceBound + 1]

Written == {s \in Sequences : store[s] # None}
Markers == UNION {wf.terminals : wf \in Workflows}
IsLatest(s) == s \in Written /\ \A t \in Written : t <= s
EmptyStore == [s \in Sequences |-> None]

-----------------------------------------------------------------------------
Init ==
    /\ backend \in Backends
    /\ store = EmptyStore
    /\ pc = "idle"
    /\ call = NoCall
    /\ result = NoResult
    /\ deleting = FALSE
    /\ jobs = 0
    /\ kills = 0

\* Mutant of IsTerminal: next_state None does not end the workflow.
IsTerminalOnlyAtMarker(wf, id) == id \in wf.terminals

\* StateMachine.validate: the key/state_id agreement is data and left out.
Valid(wf) == wf.initial \in wf.states
IsTerminal(wf, id) == id = None \/ id \in wf.terminals

\* An answer to the caller ends the call; the engine keeps nothing.
Answer(status, output, saved) ==
    /\ result' = [status |-> status, output |-> output, saved |-> saved]
    /\ pc' = "idle"
    /\ call' = NoCall

EnterLoop(wf, state, input, sequence) ==
    /\ call' = [wf |-> wf, state |-> state, input |-> input, sequence |-> sequence,
                transitions |-> 0, attempt |-> 0, next |-> None, output |-> input]
    /\ pc' = "loop"
    /\ UNCHANGED result

RunFrom(wf, input) ==
    IF Valid(wf) THEN EnterLoop(wf, wf.initial, input, 0)
                 ELSE Answer("FAILED", Input(0), 0)

Run(wf) ==
    /\ pc = "idle"
    /\ jobs < MaxJobs
    /\ CleanCaller => Written = {} /\ ~deleting
    /\ jobs' = jobs + 1
    /\ RunFrom(wf, Input(jobs + 1))
    /\ UNCHANGED <<backend, store, deleting, kills>>

MayResume == pc = "idle" /\ (CleanCaller => ~deleting)

\* load_latest returned None
ResumeFresh(wf) ==
    /\ MayResume
    /\ Written = {}
    /\ RunFrom(wf, Input(0))
    /\ UNCHANGED <<backend, store, deleting, jobs, kills>>

\* Mutant of ResumeDone: counts the checkpoints by the last sequence.
ResumeDoneOffByOne(wf) ==
    /\ MayResume
    /\ \E s \in Written :
         /\ IsLatest(s)
         /\ store[s].next_state = None
         /\ Answer("COMPLETED", store[s].output, s)
    /\ UNCHANGED <<backend, store, deleting, jobs, kills>>

\* the latest checkpoint has next_state None
ResumeDone(wf) ==
    /\ MayResume
    /\ \E s \in Written :
         /\ IsLatest(s)
         /\ store[s].next_state = None
         /\ Answer("COMPLETED", store[s].output, s + 1)
    /\ UNCHANGED <<backend, store, deleting, jobs, kills>>

\* validate() failed, or the latest next_state is not among workflow.states
ResumeRefused(wf) ==
    /\ MayResume
    /\ \E s \in Written :
         /\ IsLatest(s)
         /\ store[s].next_state # None
         /\ ~Valid(wf) \/ store[s].next_state \notin wf.states
         /\ Answer("FAILED", IF Valid(wf) THEN store[s].output ELSE Input(0), 0)
    /\ UNCHANGED <<backend, store, deleting, jobs, kills>>

\* Mutant of ResumeContinue: executes again the state whose checkpoint it found.
ResumeReexecuting(wf) ==
    /\ MayResume
    /\ \E s \in Written :
         /\ IsLatest(s)
         /\ s + 1 + MaxTransitions <= SequenceBound
         /\ store[s].next_state # None
         /\ Valid(wf) /\ store[s].next_state \in wf.states
         /\ EnterLoop(wf, store[s].state_id, store[s].output, s + 1)
    /\ UNCHANGED <<backend, store, deleting, jobs, kills>>

\* the latest next_state is a state: go on after the checkpoint
ResumeContinue(wf) ==
    /\ MayResume
    /\ \E s \in Written :
         /\ IsLatest(s)
         /\ s + 1 + MaxTransitions <= SequenceBound
         /\ store[s].next_state # None
         /\ Valid(wf) /\ store[s].next_state \in wf.states
         /\ EnterLoop(wf, store[s].next_state, store[s].output, s + 1)
    /\ UNCHANGED <<backend, store, deleting, jobs, kills>>

-----------------------------------------------------------------------------
\* _run_loop, from the top of the while loop to the next await.
InLoop == pc = "loop"
Unfinished == ~IsTerminal(call.wf, call.state) /\ call.transitions < MaxTransitions
MayExecute == InLoop /\ Unfinished /\ call.attempt < MaxStateRetries
Fail == Answer("FAILED", call.input, call.sequence)
StoreKept == UNCHANGED <<backend, store, deleting, jobs, kills>>

Finish ==
    /\ InLoop
    /\ IsTerminal(call.wf, call.state)
    /\ Answer("COMPLETED", call.input, call.sequence)
    /\ StoreKept

\* Mutant of Overrun: leaves the loop as if it had ended by itself.
OverrunCompletes ==
    /\ InLoop
    /\ ~IsTerminal(call.wf, call.state)
    /\ call.transitions >= MaxTransitions
    /\ Answer("COMPLETED", call.input, call.sequence)
    /\ StoreKept

Overrun ==
    /\ InLoop
    /\ ~IsTerminal(call.wf, call.state)
    /\ call.transitions >= MaxTransitions
    /\ Fail
    /\ StoreKept

\* state.execute returned a StateTransition
ExecuteOk ==
    /\ MayExecute
    /\ call.state \in call.wf.states
    /\ \E next \in NextIds :
         call' = [call EXCEPT !.next = next,
                              !.output = [job |-> call.input.job,
                                          depth |-> call.input.depth + 1]]
    /\ pc' = "save"
    /\ UNCHANGED result
    /\ StoreKept

\* RetryableError: sleep for the backoff, count the attempt, try again
ExecuteRetryable ==
    /\ MayExecute
    /\ call.state \in call.wf.states
    /\ call' = [call EXCEPT !.attempt = call.attempt + 1]
    /\ UNCHANGED <<pc, result>>
    /\ StoreKept

\* Mutant of RetriesExhausted: starts a new round of attempts instead of failing.
RetriesRestarted ==
    /\ InLoop /\ Unfinished
    /\ call.attempt >= MaxStateRetries
    /\ call' = [call EXCEPT !.attempt = 0]
    /\ UNCHANGED <<pc, result>>
    /\ StoreKept

RetriesExhausted ==
    /\ InLoop /\ Unfinished
    /\ call.attempt >= MaxStateRetries
    /\ Fail
    /\ StoreKept

\* DegradedError, FatalError, or StateMachine.step on an id with no state
ExecuteFails ==
    /\ MayExecute
    /\ Fail
    /\ StoreKept

\* any other exception, cancellation of the awaiting caller included, is
\* caught nowhere: whoever awaits run or resume gets it
ExecuteRaises ==
    /\ MayExecute
    /\ call.state \in call.wf.states
    /\ Answer("RAISED", Input(0), 0)
    /\ StoreKept

\* checkpoint_store.save and the bookkeeping after it.  The file store commits
\* at os.replace and replaces a checkpoint of the same sequence; the memory
\* store appends, and its load_latest then finds the older of the two.
SaveCheckpoint ==
    /\ pc = "save"
    /\ LET s == call.sequence
           cp == [state_id |-> call.state, next_state |-> call.next, output |-> call.output]
       IN store' = IF backend = "memory" /\ s \in Written
                   THEN store
                   ELSE [store EXCEPT ![s] = cp]
    /\ call' = [call EXCEPT !.state = call.next, !.input = call.output,
                            !.sequence = call.sequence + 1,
                            !.transitions = call.transitions + 1,
                            !.attempt = 0]
    /\ pc' = "loop"
    /\ UNCHANGED <<backend, result, deleting, jobs, kills>>

\* json.dumps refuses the output: FatalError escapes the engine
SaveRefused ==
    /\ pc = "save"
    /\ backend = "file"
    /\ Answer("RAISED", Input(0), 0)
    /\ StoreKept

-----------------------------------------------------------------------------
\* delete: the memory store pops the bucket, the file store unlinks the files
\* one by one, in directory order.
DeleteMemory ==
    /\ pc = "idle" /\ backend = "memory"
    /\ store' = EmptyStore
    /\ result' = NoResult
    /\ UNCHANGED <<backend, pc, call, deleting, jobs, kills>>

DeleteFiles ==
    /\ pc = "idle" /\ backend = "file"
    /\ pc' = "delete"
    /\ deleting' = TRUE
    /\ result' = NoResult
    /\ UNCHANGED <<backend, store, call, jobs, kills>>

Unlink ==
    /\ pc = "delete"
    /\ \E s \in Written : store' = [store EXCEPT ![s] = None]
    /\ UNCHANGED <<backend, pc, call, result, deleting, jobs, kills>>

DeleteEnd ==
    /\ pc = "delete"
    /\ Written = {}
    /\ pc' = "idle"
    /\ deleting' = FALSE
    /\ UNCHANGED <<backend, store, call, result, jobs, kills>>

\* kill -9: the call is gone with no answer; the memory store is gone with it.
Kill ==
    /\ kills < MaxKills
    /\ kills' = kills + 1
    /\ pc' = "idle"
    /\ call' = NoCall
    /\ result' = NoResult
    /\ store' = IF backend = "memory" THEN EmptyStore ELSE store
    /\ UNCHANGED <<backend, deleting, jobs>>

-----------------------------------------------------------------------------
Caller ==
    \/ \E wf \in Workflows :
         Run(wf) \/ ResumeFresh(wf) \/ ResumeDone(wf) \/ ResumeRefused(wf) \/ ResumeContinue(wf)
    \/ DeleteMemory
    \/ DeleteFiles

Engine ==
    \/ Finish \/ Overrun
    \/ ExecuteOk \/ ExecuteRetryable \/ RetriesExhausted \/ ExecuteFails \/ ExecuteRaises
    \/ SaveCheckpoint \/ SaveRefused
    \/ Unlink \/ DeleteEnd

Next == Caller \/ Engine \/ Kill

\* Callers and kills are not fair.  A call in progress keeps running: the event
\* loop resumes it, and a state's execute is assumed to return or to raise.
Spec == Init /\ [][Next]_vars /\ WF_vars(Engine)
-----------------------------------------------------------------------------
\* Types: a call never counts more attempts or transitions than configured.
TypeOK ==
    /\ backend \in Backends
    /\ store \in [Sequences -> Checkpoints \cup {None}]
    /\ pc \in {"idle", "loop", "save", "delete"}
    /\ IF pc \in {"loop", "save"} THEN call \in Calls ELSE call = NoCall
    /\ result \in Results \cup {NoResult}
    /\ deleting \in BOOLEAN
    /\ jobs \in 0 .. MaxJobs
    /\ kills \in 0 .. MaxKills

\* Across kills, retries and resumes no state's work is applied twice to the
\* data and none is skipped: the output saved under sequence s went through
\* exactly s + 1 states, and the input of the call in progress through exactly
\* as many as it has checkpoints behind it.
DepthMatchesSequence ==
    /\ \A s \in Written : store[s].output.depth = s + 1
    /\ pc \in {"loop", "save"} => call.input.depth = call.sequence
    /\ pc = "save" => call.output.depth = call.sequence + 1

\* The checkpoints are one unbroken history of one job: no gap, each state the
\* next_state of the one before, and the call in progress is about to write the
\* first free sequence, so that no save replaces a checkpoint.
LogIsChained ==
    /\ pc \in {"loop", "save"} => \A s \in Sequences : s \in Written <=> s < call.sequence
    /\ ~deleting =>
         \A s \in Written \ {0} :
            /\ s - 1 \in Written
            /\ store[s - 1].next_state = store[s].state_id
            /\ store[s - 1].output.job = store[s].output.job

\* Once a checkpoint with next_state None is the latest, nothing executes and
\* nothing is saved until the checkpoints are deleted.
ClosedLogIsQuiet ==
    (\E s \in Written : IsLatest(s) /\ store[s].next_state = None)
        => pc # "save" /\ ~MayExecute

\* COMPLETED is answered with the output of the latest checkpoint and with the
\* number of checkpoints there are, by the run that finished and by every later
\* resume alike.
CompletedAnswerIsTheLog ==
    result.status = "COMPLETED" /\ pc = "idle" =>
        /\ result.saved = Cardinality(Written)
        /\ \A s \in Written : IsLatest(s) => result.output = store[s].output

\* The engine never loops unboundedly: every call ends, whatever the states
\* return and however often they fail.
CallReturns == pc # "idle" ~> pc = "idle"

\* What a caller may rely on (DurableJob): steps become durable one at a time and
\* only until the log is closed, and COMPLETED is only answered for a closed log.
DurableSteps == Cardinality(Written)
LogIsClosed == \E s \in Written : IsLatest(s) /\ store[s].next_state \in {None} \cup Markers
Durable == INSTANCE DurableJob WITH
    steps <- DurableSteps, closed <- LogIsClosed, verdict <- result.status
ImplementsDurableJob == Durable!Spec
=============================================================================
