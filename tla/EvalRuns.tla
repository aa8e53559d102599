------------------------------ MODULE EvalRuns ------------------------------
(*******************************************************************************)
(* Evaluation runs: POST /run, the background task of each run, its event      *)
(* stream, GET /runs and /batch of ryuu_eval/http/router.py, over EvalRunner   *)
(* (ryuu_eval_core/runner.py), and the pages that watch a run (RunMonitor,     *)
(* BatchMonitor).                                                              *)
(*                                                                             *)
(* A step is the code between two awaits; putting into an unbounded queue      *)
(* does not wait.  The inner queue of _stream_parallel, which the background   *)
(* task forwards in order, is not told apart from the queue of the run.        *)
(* Which runs a POST names, whether a factory refuses, what a case costs and   *)
(* whether it fails are choices.  A restart of the server loses what is in     *)
(* memory; files, the key-value store and the run store stay.                  *)
(*******************************************************************************)
EXTENDS Integers, FiniteSets, Sequences

CONSTANTS
    Runs,        \* run ids that may be handed out
    Monitors,    \* pages open in browsers
    NCases,      \* cases of the suite, in order
    Concurrency, \* payload["concurrency"] after clamping
    Budgets,     \* budget_usd of a runner, in cases paid for
    MaxRestarts, \* bound: restarts of the server
    None

VARIABLES
    deploy,    \* which stores create_eval_router was given
    run,       \* EvalRunner and background task of each run
    emitted,   \* events put into the queue of each run, ever
    taken,     \* how many of them a reader has taken
    active,    \* keys of active_runners and _run_queues
    memory,    \* _run_results
    files,     \* runs/<run_id>.json
    kv,        \* "run:<id>" of the key-value store
    row,       \* eval_runs and eval_results of the run store
    getting,   \* GET /runs between its two reads of the run store
    monitor,   \* the pages
    restarts

stores == <<memory, files, kv, row>>
server == <<deploy, getting, restarts>>
runsVars == <<server, run, emitted, taken, active, stores, monitor>>

-----------------------------------------------------------------------------
Cases == 1..NCases
Ev(e) == [event |-> e, case |-> 0]
CaseEv(e, c) == [event |-> e, case |-> c]

\* A SuiteResult: the case results, with the refine metadata each one carries
\* (the case it is about), and total_count, which only a finished suite has.
CaseResults == [case : Cases, meta : Cases \cup {None}, ok : BOOLEAN]
Results == [cases : SUBSET CaseResults, total : Nat]

ASSUME EvalRunsAssumption ==
    /\ NCases \in Nat \ {0} /\ Concurrency \in Nat \ {0}
    /\ Budgets \subseteq Nat \ {0}
    /\ MaxRestarts \in Nat
    /\ None \notin Nat \cup Runs \cup Monitors \cup Results

Closing == {"run_done", "run_cancel"}
Fresh == [phase |-> "new", mode |-> "parallel", budget |-> None, cancel |-> FALSE,
          at |-> [c \in Cases |-> "waiting"], meta |-> None, result |-> {}]
NoRow == [status |-> "none", cases |-> {}, total |-> 0]
Page(kind, r) == [page |-> kind, run |-> r, conn |-> "closed", status |-> "running",
                  total |-> 0, completed |-> 0]
Closed == Page("run", None)

RunsInit ==
    /\ deploy \in [kv : BOOLEAN, store : BOOLEAN]
    /\ run = [r \in Runs |-> Fresh]
    /\ emitted = [r \in Runs |-> <<>>]
    /\ taken = [r \in Runs |-> 0]
    /\ active = {}
    /\ memory = [r \in Runs |-> None]
    /\ files = [r \in Runs |-> None]
    /\ kv = [r \in Runs |-> None]
    /\ row = [r \in Runs |-> NoRow]
    /\ getting = None
    /\ monitor = [m \in Monitors |-> Closed]
    /\ restarts = 0

-----------------------------------------------------------------------------
(* POST /run: a request for several models repeats this model by model.        *)

\* What start_run takes out of a payload it accepts.
Requests == [mode : {"parallel", "sequential"}, budget : Budgets \cup {None}]

\* _start_single_run up to create_run: the row may be refused (no such suite).
CreateRun(r) ==
    /\ run[r].phase = "new"
    /\ \E q \in Requests :
          run' = [run EXCEPT ![r].phase = "creating", ![r].mode = q.mode, ![r].budget = q.budget]
    /\ \/ /\ deploy.store
          /\ row' = [row EXCEPT ![r].status = "running"]
       \/ UNCHANGED row
    /\ UNCHANGED <<server, emitted, taken, active, memory, files, kv, monitor>>

\* The run gets its queue and its task.
Register(r) ==
    /\ run[r].phase = "creating"
    /\ run' = [run EXCEPT ![r].phase = "running"]
    /\ active' = active \cup {r}
    /\ UNCHANGED <<server, emitted, taken, stores, monitor>>

\* POST /run/cancel
Cancel(r) ==
    /\ r \in active
    /\ run' = [run EXCEPT ![r].cancel = TRUE]

-----------------------------------------------------------------------------
(* The background task of a run and EvalRunner.stream.                         *)

\* Mutant of Sequential: the mode of the request is not looked at.
SequentialByNumber(rn) == Concurrency <= 1 \/ NCases <= 1

\* eff_concurrency, and the choice of EvalRunner.stream.
Sequential(rn) == rn.mode = "sequential" \/ Concurrency <= 1 \/ NCases <= 1
InFlight(rn) == {c \in Cases : rn.at[c] \in {"target", "scoring"}}
NotStarted(rn) == {c \in Cases : rn.at[c] = "waiting"}
NextCase(rn) == CHOOSE c \in NotStarted(rn) : \A d \in NotStarted(rn) : c <= d
Cost(rn) == Cardinality({x \in rn.result : x.ok})
OverBudget(rn) == rn.budget # None /\ Cost(rn) >= rn.budget
Begun(rn, c) == [rn EXCEPT !.at[c] = "target"]

Emit(r, events) == emitted' = [emitted EXCEPT ![r] = @ \o events]

\* What is left of a runner whose suite is over.
Over(rn) == [Fresh EXCEPT !.phase = "kv", !.mode = rn.mode, !.result = rn.result]

Verdict(rn) == Ev(IF rn.cancel THEN "run_cancel" ELSE "run_done")
Told(rn, events) == Append(Append(events, Verdict(rn)), Ev("end"))

\* Mutant of EndSuite: a cancelled suite ends without an event and a sentinel.
EndSuiteSilently(r, rn, events) ==
    /\ run' = [run EXCEPT ![r] = Over(rn)]
    /\ Emit(r, IF rn.cancel THEN <<>> ELSE Told(rn, events))
    /\ active' = active \ {r}
    /\ memory' = [memory EXCEPT ![r] = [cases |-> rn.result, total |-> Cardinality(rn.result)]]
    /\ UNCHANGED files

\* suite_done, the sentinel, the registries, _run_results and the two files.
EndSuite(r, rn, events) ==
    /\ run' = [run EXCEPT ![r] = Over(rn)]
    /\ Emit(r, Told(rn, events))
    /\ active' = active \ {r}
    /\ memory' = [memory EXCEPT ![r] = [cases |-> rn.result, total |-> Cardinality(rn.result)]]
    /\ \E written \in BOOLEAN :
          files' = IF written THEN [files EXCEPT ![r] = memory'[r]] ELSE files

\* The sequential loop between two cases: end, stop, or start the next one.
NextInLine(r, rn, events) ==
    \/ /\ NotStarted(rn) = {}
       /\ EndSuite(r, rn, events)
    \/ /\ NotStarted(rn) # {} /\ rn.cancel
       /\ EndSuite(r, rn, Append(events, Ev("run_cancel")))
    \/ /\ NotStarted(rn) # {} /\ ~rn.cancel
       /\ run' = [run EXCEPT ![r] = Begun(rn, NextCase(rn))]
       /\ Emit(r, Append(events, CaseEv("case_start", NextCase(rn))))
       /\ UNCHANGED <<active, memory, files>>

BeginSuite(r) ==
    /\ run[r].phase = "running" /\ emitted[r] = <<>>
    /\ \/ /\ Sequential(run[r])
          /\ NextInLine(r, run[r], <<Ev("run_start")>>)
       \/ /\ ~Sequential(run[r])
          /\ Emit(r, <<Ev("run_start")>>)
          /\ UNCHANGED <<run, active, memory, files>>

\* A worker gets the semaphore, first come first served, before a cancel.
WorkerStarts(r) ==
    /\ run[r].phase = "running" /\ emitted[r] # <<>> /\ ~Sequential(run[r])
    /\ NotStarted(run[r]) # {} /\ Cardinality(InFlight(run[r])) < Concurrency
    /\ ~run[r].cancel
    /\ run' = [run EXCEPT ![r] = Begun(run[r], NextCase(run[r]))]
    /\ Emit(r, <<CaseEv("case_start", NextCase(run[r]))>>)
    /\ UNCHANGED <<active, memory, files>>

\* target.run returns: last_refine_meta is now about this case.
TargetAnswers(r, c) ==
    /\ run[r].at[c] = "target"
    /\ run' = [run EXCEPT ![r].at[c] = "scoring", ![r].meta = c]
    /\ UNCHANGED <<emitted, active, memory, files>>

\* The events of a case result, and what its runner does next.
CaseEnds(r, c, result, events) ==
    LET rn == [run[r] EXCEPT !.at[c] = "done", !.result = @ \cup {result}]
    IN  \/ /\ ~Sequential(rn)
           /\ run' = [run EXCEPT ![r] = rn]
           /\ Emit(r, events)
           /\ UNCHANGED <<active, memory, files>>
        \/ /\ Sequential(rn) /\ OverBudget(rn)
           /\ EndSuite(r, rn, Append(events, Ev("error")))
        \/ /\ Sequential(rn) /\ ~OverBudget(rn)
           /\ NextInLine(r, rn, events)

\* A result with an error is announced by an event of its own: the error of a target
\* that scored all the same too, and not the empty text of an exception.
Endings(c) == {<<CaseEv("case_done", c)>>, <<CaseEv("error", c), CaseEv("case_done", c)>>}

\* The scorers have answered; the metadata is read only now.
CaseScored(r, c) ==
    /\ run[r].at[c] = "scoring"
    /\ \E events \in Endings(c) :
          CaseEnds(r, c, [case |-> c, meta |-> run[r].meta, ok |-> TRUE], events)

\* Target or scorer raised: an error result, which costs nothing.
CaseFails(r, c) ==
    /\ run[r].at[c] \in {"target", "scoring"}
    /\ \E events \in Endings(c) :
          CaseEnds(r, c, [case |-> c, meta |-> None, ok |-> FALSE], events)

\* asyncio.gather(*tasks): workers that found the run cancelled have returned.
AllWorkersEnded(rn) == InFlight(rn) = {} /\ (NotStarted(rn) = {} \/ rn.cancel)

ParallelEnds(r) ==
    /\ run[r].phase = "running" /\ emitted[r] # <<>> /\ ~Sequential(run[r])
    /\ AllWorkersEnded(run[r])
    /\ EndSuite(r, run[r], <<>>)

\* kv_store.put("run:<id>"), best effort.
PutKv(r) ==
    /\ run[r].phase = "kv"
    /\ run' = [run EXCEPT ![r].phase = IF deploy.store THEN "store" ELSE "ended"]
    /\ \/ /\ deploy.kv
          /\ kv' = [kv EXCEPT ![r] = memory[r]]
       \/ UNCHANGED kv
    /\ UNCHANGED <<emitted, active, memory, files, row>>

\* run_store.save_result, case by case; an exception ends the saving.
SaveResult(r) ==
    /\ run[r].phase = "store"
    /\ \/ /\ row[r].status = "running"
          /\ \E x \in run[r].result \ row[r].cases : row' = [row EXCEPT ![r].cases = @ \cup {x}]
          /\ UNCHANGED run
       \/ /\ run' = [run EXCEPT ![r].phase = "ended"]
          /\ UNCHANGED row
    /\ UNCHANGED <<emitted, active, memory, files, kv>>

\* run_store.finish_run: status "completed", whether or not it was cancelled.
FinishRow(r) ==
    /\ run[r].phase = "store" /\ row[r].status = "running" /\ row[r].cases = run[r].result
    /\ run' = [run EXCEPT ![r].phase = "ended"]
    /\ row' = [row EXCEPT ![r].status = "completed", ![r].total = Cardinality(run[r].result)]
    /\ UNCHANGED <<emitted, active, memory, files, kv>>

SuiteStep(r) ==
    /\ \/ BeginSuite(r) \/ WorkerStarts(r) \/ ParallelEnds(r)
       \/ \E c \in Cases : TargetAnswers(r, c) \/ CaseScored(r, c) \/ CaseFails(r, c)
    /\ UNCHANGED <<kv, row>>
TaskStep(r) ==
    /\ SuiteStep(r) \/ PutKv(r) \/ SaveResult(r) \/ FinishRow(r)
    /\ UNCHANGED <<server, taken, monitor>>

-----------------------------------------------------------------------------
(* GET /runs: memory, then the run store, the key-value store and the file.    *)

HasRow(r) == deploy.store /\ row[r].status # "none"

\* The answer is what is in memory afterwards: each path keeps what it found.
GetRow(r) ==                      \* the row, whatever its status
    /\ memory[r] = None /\ HasRow(r) /\ getting = None
    /\ getting' = [run |-> r, total |-> row[r].total]
    /\ UNCHANGED <<memory, kv>>

GetCases ==                       \* the case results, after another await
    /\ getting # None
    /\ memory' = [memory EXCEPT ![getting.run] = [cases |-> row[getting.run].cases,
                                                  total |-> getting.total]]
    /\ getting' = None
    /\ UNCHANGED kv

GetFromKv(r) ==
    /\ memory[r] = None /\ ~HasRow(r) /\ deploy.kv /\ kv[r] # None
    /\ memory' = [memory EXCEPT ![r] = kv[r]]
    /\ UNCHANGED <<getting, kv>>

\* A file is read once and moved to the key-value store, as far as it answers.
GetFromFile(r) ==
    /\ memory[r] = None /\ ~HasRow(r) /\ (deploy.kv => kv[r] = None) /\ files[r] # None
    /\ memory' = [memory EXCEPT ![r] = files[r]]
    /\ kv' \in {kv, IF deploy.kv THEN [kv EXCEPT ![r] = files[r]] ELSE kv}
    /\ UNCHANGED getting

GetRun ==
    /\ \/ GetCases
       \/ \E r \in Runs : /\ run[r].phase \notin {"new", "creating"}
                          /\ GetRow(r) \/ GetFromKv(r) \/ GetFromFile(r)
    /\ UNCHANGED <<deploy, restarts, run, emitted, taken, active, files, row, monitor>>

-----------------------------------------------------------------------------
(* GET /run/stream and the pages that read it.                                 *)

\* What an event makes of the status, on either page.
StatusAfter(page, e) ==
    CASE e.event = "run_done" -> "done"
      [] e.event = "run_cancel" -> "cancelled"
      [] e.event = "error" -> "error"
      [] OTHER -> page.status

\* The counts of a page, and its stream, which it reads on or closes.
Counted(page, e, readsOn) ==
    [page |-> page.page, run |-> page.run, status |-> StatusAfter(page, e),
     conn |-> IF readsOn THEN page.conn ELSE "closed",
     total |-> IF e.event = "run_start" THEN NCases ELSE page.total,
     completed |-> IF e.event = "case_done" THEN page.completed + 1 ELSE page.completed]

\* The handler of the page of a run, which closes its stream at a closing event.
RunHandled(page, e) == Counted(page, e, e.event \notin Closing)

\* The handler of a row of a batch, which reads while its status is "running".
BatchHandled(page, e) == Counted(page, e, StatusAfter(page, e) = "running")

Handled(page, e) == IF page.page = "run" THEN RunHandled(page, e) ELSE BatchHandled(page, e)

\* What a batch page shows of a run before any event of it.
BatchRow(r) == Page("batch", r)
RunPage(r) == Page("run", r)

\* A page connects: to the queue, to a result in memory, or to nothing.
OpenMonitor(m) ==
    /\ monitor[m].run = None
    /\ \E r \in Runs : \E opened \in {RunPage(r), BatchRow(r)} :
          /\ run[r].phase \notin {"new", "creating"}
          /\ monitor' = [monitor EXCEPT ![m] =
                CASE r \in active -> [opened EXCEPT !.conn = "open"]
                  [] r \notin active /\ memory[r] # None -> Handled(opened, Ev("run_done"))
                  [] OTHER -> opened]
    /\ UNCHANGED <<server, run, emitted, taken, active, stores>>

\* queue.get() of the reader, and the event in the browser.
ReadEvent(m) ==
    /\ monitor[m].conn = "open"
    /\ LET r == monitor[m].run
           e == emitted[r][taken[r] + 1]
       IN  /\ taken[r] < Len(emitted[r])
           /\ taken' = [taken EXCEPT ![r] = @ + 1]
           /\ monitor' = [monitor EXCEPT ![m] =
                 IF e.event = "end" THEN [@ EXCEPT !.conn = "closed"] ELSE Handled(@, e)]
    /\ UNCHANGED <<server, run, emitted, active, stores>>

\* The Cancel button of a run page: "cancelled" at once, and no more reading.
PressCancel(m) ==
    /\ monitor[m].run # None /\ monitor[m].page = "run" /\ monitor[m].status = "running"
    /\ Cancel(monitor[m].run)
    /\ monitor' = [monitor EXCEPT ![m].status = "cancelled", ![m].conn = "closed"]
    /\ UNCHANGED <<server, emitted, taken, active, stores>>

\* The button of a batch row: the row waits for the event.
PressCancelRow(m) ==
    /\ monitor[m].run # None /\ monitor[m].page = "batch" /\ monitor[m].status = "running"
    /\ Cancel(monitor[m].run)
    /\ UNCHANGED <<server, emitted, taken, active, stores, monitor>>

-----------------------------------------------------------------------------
Restart ==
    /\ restarts < MaxRestarts
    /\ restarts' = restarts + 1
    /\ run' = [r \in Runs |-> IF run[r].phase \in {"new", "ended"} THEN run[r]
                              ELSE [Fresh EXCEPT !.phase = "lost", !.result = run[r].result]]
    /\ emitted' = [r \in Runs |-> <<>>]
    /\ taken' = [r \in Runs |-> 0]
    /\ active' = {}
    /\ memory' = [r \in Runs |-> None]
    /\ getting' = None
    /\ monitor' = [m \in Monitors |-> [monitor[m] EXCEPT !.conn = "closed"]]
    /\ UNCHANGED <<deploy, files, kv, row>>

RunsNext ==
    \/ GetRun \/ Restart
    \/ \E r \in Runs : CreateRun(r) \/ Register(r) \/ TaskStep(r)
    \/ \E m \in Monitors : OpenMonitor(m) \/ ReadEvent(m) \/ PressCancel(m) \/ PressCancelRow(m)

\* Targets and scorers answer, and an open page reads; nobody has to press,
\* open, post or restart.
Fairness ==
    /\ \A r \in Runs : WF_runsVars(TaskStep(r))
    /\ \A m \in Monitors : WF_runsVars(ReadEvent(m))

RunsSpec == RunsInit /\ [][RunsNext]_runsVars /\ Fairness

-----------------------------------------------------------------------------
(* Properties                                                                  *)

\* In a sequential run the refine metadata of a case result is that of its own
\* case, although it is read from the shared target after the scorers were
\* awaited (runner.py _run_case); parallel runs promise nothing of the kind.
SequentialMetaIsOwn ==
    \A r \in Runs : \A x \in run[r].result : run[r].mode = "sequential" /\ x.ok => x.meta = x.case

\* Without a run store GET /runs never answers with part of a run: neither
\* while it runs nor after a restart, when the key-value store or the file
\* takes the place of the memory (router.py get_run_result).
ServedFromCopiesIsWhole ==
    ~deploy.store => \A r \in Runs : memory[r] # None =>
        /\ run[r].phase \notin {"creating", "running"}
        /\ memory[r] = [cases |-> run[r].result, total |-> Cardinality(run[r].result)]

OnlyReader(m) == \A n \in Monitors \ {m} : monitor[n].run # monitor[m].run

\* A page that is the only reader of its run and has lost its stream knows how
\* the run ended, also when it connected just after the queue was removed, and a
\* run page that saw the run begin and end has counted all of its cases
\* (router.py _bg and stream_run, RunMonitor.tsx handleEvent).
MonitorKnowsTheRun ==
    \A m \in Monitors :
        monitor[m].run # None /\ OnlyReader(m) /\ restarts = 0 =>
            /\ monitor[m].conn = "closed" => monitor[m].status # "running"
            /\ monitor[m].page = "run" /\ monitor[m].status = "done" /\ monitor[m].total > 0 =>
                  monitor[m].completed = Cardinality(run[monitor[m].run].result)

\* What is read of a run is the run's, whichever of its copies answers: its metadata,
\* its results and its end (the three of them).
ReadersAreToldTheRun == SequentialMetaIsOwn /\ ServedFromCopiesIsWhole /\ MonitorKnowsTheRun

\* A page that is the only reader of its run does not show "running" for ever
\* unless the server restarts (the sentinel of _bg, "SSE reader exits loop").
MonitorLearnsTheEnd ==
    \A m \in Monitors :
        monitor[m].conn = "open" ~>
            (monitor[m].status # "running" \/ ~OnlyReader(m) \/ restarts > 0)

=============================================================================
