------------------------------- MODULE BatchRun -------------------------------
(*******************************************************************************)
(* One BatchRunner.run over a list of inputs (ryuu/batch.py): as runs of the   *)
(* agent side by side under a semaphore ("gather"), or as one job of           *)
(* OpenAI's Batch API.  The API is external: its output file has at most one   *)
(* line for each line of the upload, in any order.                             *)
(*                                                                             *)
(* An id is a number: n stands for "item-n", which an input at place n gets    *)
(* when it has none of its own (places are counted from 1 here).               *)
(*******************************************************************************)
EXTENDS Naturals, Sequences, FiniteSets, SequencesExt

CONSTANTS MaxInputs,      \* bound: length of the list
          MaxConcurrent,
          GivenIds,       \* that inputs of the form {"id": ..} may have
          NoId            \* the input is a text

ASSUME BatchAssumption ==
    /\ MaxInputs \in Nat \ {0} /\ MaxConcurrent \in Nat \ {0}
    /\ GivenIds \subseteq Nat /\ NoId \notin Nat

VARIABLES batchMode, onError,
          inputs,      \* the id of each, or NoId
          slot,        \* gather: of each input, where its run is
          job,         \* openai_batch: how far the code is
          outputLines, \* openai_batch: the file that was downloaded
          batchResult

batchVars == <<batchMode, onError, inputs, slot, job, outputLines, batchResult>>

Slots == DOMAIN inputs
Id(n) == IF inputs[n] = NoId THEN n ELSE inputs[n]

\* A result: its id, the place of the input that it answers, or an error.
Answer(id, n) == [id |-> id, answers |-> n]
Error(id)     == [id |-> id, answers |-> 0]

NoResultYet          == [is |-> "open", results |-> <<>>]
ReturnedAs(s) == [is |-> "returned", results |-> s]
RaisedAs      == [is |-> "raised", results |-> <<>>]

BatchInit ==
    /\ batchMode \in {"gather", "openai_batch"} /\ onError \in {"raise", "collect"}
    /\ inputs \in UNION {[1 .. n -> GivenIds \union {NoId}] : n \in 0 .. MaxInputs}
    /\ slot = [n \in Slots |-> "waiting"]
    /\ job = "new" /\ outputLines = <<>>
    /\ batchResult = IF inputs = <<>> THEN ReturnedAs(<<>>) ELSE NoResultYet

-----------------------------------------------------------------------------
\* gather: tasks enter the semaphore in the order they were started.
In(status) == {n \in Slots : slot[n] = status}
RunsAtWork == In("running") \union In("cancelling")

Gathering ==
    /\ batchMode = "gather" /\ batchResult = NoResultYet
    /\ UNCHANGED <<batchMode, onError, inputs, job, outputLines, batchResult>>

Enter(n) ==
    /\ Gathering
    /\ n \in In("waiting") /\ \A m \in 1 .. n - 1 : slot[m] # "waiting"
    /\ Cardinality(RunsAtWork) < MaxConcurrent
    /\ slot' = [slot EXCEPT ![n] = "running"]

RunReturns(n) ==
    /\ Gathering
    /\ n \in In("running")
    /\ slot' = [slot EXCEPT ![n] = "answered"]

\* The task group cancels what else it has: a run that is at work ends at its next
\* await.
CancelRest(n) ==
    [m \in Slots |-> IF m = n THEN "failed"
                     ELSE CASE slot[m] = "running" -> "cancelling"
                            [] slot[m] = "waiting" -> "cancelled"
                            [] OTHER               -> slot[m]]

RunRaises(n) ==
    /\ Gathering
    /\ n \in RunsAtWork
    /\ slot' = IF onError = "raise" THEN CancelRest(n) ELSE [slot EXCEPT ![n] = "failed"]

RunEnds(n) ==
    /\ Gathering
    /\ n \in In("cancelling")
    /\ slot' = [slot EXCEPT ![n] = "cancelled"]

\* The task group is left when all its tasks have ended.
GatherEnds ==
    /\ batchMode = "gather" /\ batchResult = NoResultYet
    /\ RunsAtWork \union In("waiting") = {}
    /\ batchResult' =
           IF onError = "raise" /\ In("failed") # {} THEN RaisedAs
           ELSE ReturnedAs([n \in Slots |-> IF slot[n] = "failed" THEN Error(Id(n))
                                             ELSE Answer(Id(n), n)])
    /\ UNCHANGED <<batchMode, onError, inputs, slot, job, outputLines>>

-----------------------------------------------------------------------------
\* openai_batch, between two calls of the client.
Goes(from, to) ==
    /\ batchMode = "openai_batch" /\ batchResult = NoResultYet
    /\ job = from /\ job' = to
    /\ UNCHANGED <<batchMode, onError, inputs, slot>>

KeepResult == UNCHANGED <<outputLines, batchResult>>

Upload == Goes("new", "uploaded") /\ KeepResult
Create == Goes("uploaded", "polling") /\ KeepResult
Sleep  == Goes("polling", "asleep") /\ KeepResult     \* the status is not terminal
Wake   == Goes("asleep", "polling") /\ KeepResult

Terminal == {"completed", "failed", "expired", "cancelled"}

\* The status is terminal: only a completed batch that has an output file is read.
PollEnds ==
    \E status \in Terminal, hasFile \in BOOLEAN :
        /\ Goes("polling", status)
        /\ batchResult' = IF status = "completed" /\ hasFile THEN NoResultYet ELSE RaisedAs
        /\ UNCHANGED outputLines

\* Any call of the client may raise: the batch, once created, goes on unread.
ClientRaises ==
    /\ \E from \in {"new", "uploaded", "polling", "completed"} : Goes(from, from)
    /\ batchResult' = RaisedAs
    /\ UNCHANGED outputLines

\* Lines with their custom_id: each answers the line that was uploaded for a place.
Files == UNION {{[k \in 1 .. Cardinality(ps) |->
                     [id |-> Id(order[k]), answers |-> order[k], err |-> order[k] \in bad]]
                 : order \in SetToSeqs(ps), bad \in SUBSET ps}
                : ps \in SUBSET Slots}

Download ==
    /\ Goes("completed", "read")
    /\ outputLines' \in Files
    /\ UNCHANGED batchResult

\* Mutant: lines are taken in the order of the file.
ItemByPlace(n) ==
    IF n \notin DOMAIN outputLines \/ outputLines[n].err THEN Error(Id(n))
    ELSE Answer(Id(n), outputLines[n].answers)

\* outputs_by_id: of the lines with one id, the last; no line is an error as well.
Item(n) ==
    LET of   == {k \in DOMAIN outputLines : outputLines[k].id = Id(n)}
        line == outputLines[Max(of)]
    IN  IF of = {} \/ line.err THEN Error(Id(n)) ELSE Answer(Id(n), line.answers)

BuildResults ==
    /\ Goes("read", "built")
    /\ LET items == [n \in Slots |-> Item(n)]
           bad   == \E n \in Slots : items[n] = Error(Id(n))
       IN  batchResult' = IF bad /\ onError = "raise" THEN RaisedAs ELSE ReturnedAs(items)
    /\ UNCHANGED outputLines

BatchNext ==
    \/ \E n \in Slots : Enter(n) \/ RunReturns(n) \/ RunRaises(n) \/ RunEnds(n)
    \/ GatherEnds
    \/ Upload \/ Create \/ Sleep \/ Wake \/ PollEnds \/ ClientRaises \/ Download \/ BuildResults

BatchSpec == BatchInit /\ [][BatchNext]_batchVars

-----------------------------------------------------------------------------
OnlyOneWithItsId(n) == \A m \in Slots : Id(m) = Id(n) => m = n

\* However runs interleave and whatever order the output file has, the results are "in
\* input order", as many as there were inputs, each with the id of its input and the
\* answer to it; an answer to another input only where two inputs have one id, which a
\* default id and a given one may have.  An error stands for an input whose run failed
\* or which has no good line, and with on_error "raise" none is returned.  Nothing of
\* the batch is still at work when run() is left, and never more than max_concurrent.
InputsAreAnswered ==
    /\ Cardinality(RunsAtWork) <= MaxConcurrent
    /\ batchResult # NoResultYet => RunsAtWork = {}
    /\ batchResult.is = "returned" =>
          LET results == batchResult.results
          IN  /\ DOMAIN results = Slots
              /\ \A n \in Slots :
                    LET r == results[n] IN
                    /\ r.id = Id(n)
                    /\ r.answers # 0 => /\ Id(r.answers) = r.id
                                        /\ OnlyOneWithItsId(n) \/ batchMode = "gather"
                                              => r.answers = n
                    /\ r.answers = 0 =>
                          /\ onError = "collect"
                          /\ \/ slot[n] = "failed"
                             \/ /\ batchMode = "openai_batch"
                                /\ OnlyOneWithItsId(n) => \A k \in DOMAIN outputLines :
                                       outputLines[k].answers = n => outputLines[k].err
=============================================================================
