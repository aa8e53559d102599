----------------------------- MODULE AuditTrail -----------------------------
(*****************************************************************************)
(* The audit file: AuditLogger with its two file stores.  FileAuditStore     *)
(* writes each event at once; QueuedFileAuditStore queues it for a worker    *)
(* task that writes batches, and has a shutdown.  A logger continues the     *)
(* hash chain of the file it finds.                                          *)
(*                                                                           *)
(* Events are numbered in the order in which they are logged, and the hash   *)
(* of the chain is the number of the event it was made from: of a line,      *)
(* "prev" is the event whose chain hash went into its own.                   *)
(*****************************************************************************)
EXTENDS Naturals, Sequences, FiniteSets, SequencesExt

CONSTANTS Loggers,
          MaxEvents, MaxCrashes,   \* bounds of the run
          MaxBatch

ASSUME AuditAssumption == MaxBatch \in Nat \ {0} /\ MaxEvents \in Nat /\ MaxCrashes \in Nat

VARIABLES trail,      \* the lines of the file
          logger,     \* the stores of the process, see NoLogger
          logged,     \* events so far
          crashes,
          faults      \* history: what no store can make good, see Faults

auditVars == <<trail, logger, logged, crashes, faults>>

Genesis == 0
Torn    == [id |-> 0, prev |-> 0]   \* a line cut off

\* What shows in the chain: two open stores on one file, a line cut off, a batch
\* that could not be written.  An event logged after the shutdown does not.
Breaks == {"shared", "torn", "lost"}
NoLogger == [state  |-> "none",      \* "open", "closing", "closed"
             queued |-> FALSE,       \* QueuedFileAuditStore
             last   |-> Genesis,     \* _last_hash
             queue  |-> <<>>,
             worker |-> "none"]      \* "running", "done"

AuditInit ==
    /\ trail = <<>> /\ logged = 0 /\ crashes = 0 /\ faults = {}
    /\ logger = [l \in Loggers |-> NoLogger]

Live == {l \in Loggers : logger[l].state \in {"open", "closing"}}

\* Writing behind a cut-off line makes one unreadable line of both.
Written(lines, events) ==
    IF events = <<>> \/ (lines # <<>> /\ Last(lines) = Torn) THEN lines ELSE lines \o events

CutOff(lines) == IF lines # <<>> /\ Last(lines) = Torn THEN lines ELSE Append(lines, Torn)

Event(l) == [id |-> logged + 1, prev |-> logger[l].last]

\* A store reads the file for the last hash; a line that is no JSON raises.
OpenLogger(l) ==
    /\ logger[l].state = "none"
    /\ Torn \notin ToSet(trail)
    /\ \E q \in BOOLEAN :
         logger' = [logger EXCEPT ![l] =
             [NoLogger EXCEPT !.state = "open", !.queued = q,
                              !.last = IF trail = <<>> THEN Genesis ELSE Last(trail).id]]
    /\ faults' = IF Live = {} THEN faults ELSE faults \union {"shared"}
    /\ UNCHANGED <<trail, logged, crashes>>

\* FileAuditStore: the hash moves on when the line is written, and with nothing
\* written nothing changes.
LogNow(l) ==
    /\ logger[l].state = "open" /\ ~logger[l].queued /\ logged < MaxEvents
    /\ \/ /\ trail' = Written(trail, <<Event(l)>>)
          /\ logger' = [logger EXCEPT ![l].last = logged + 1]
          /\ logged' = logged + 1
          /\ UNCHANGED faults
       \/ /\ trail' = CutOff(trail) /\ faults' = faults \union {"torn"}
          /\ UNCHANGED <<logger, logged>>
    /\ UNCHANGED crashes

\* QueuedFileAuditStore: the hash moves on at once; a worker that is not running is
\* started, unless the event is logged outside of the event loop.
LogQueued(l) ==
    /\ logger[l].state \in {"open", "closing", "closed"}
    /\ logger[l].queued /\ logged < MaxEvents
    /\ logged' = logged + 1
    /\ \E w \in {logger[l].worker, "running"} :
         logger' = [logger EXCEPT ![l] =
             [logger[l] EXCEPT !.last = logged + 1, !.worker = w, !.queue = Append(@, Event(l))]]
    /\ faults' = IF logger[l].state = "closed" THEN faults \union {"late"} ELSE faults
    /\ UNCHANGED <<trail, crashes>>

Least(m, n) == IF m < n THEN m ELSE n

\* _flush_batch: all lines, or some and an exception, which ends the worker.
Flush(l, batch, rest, after) ==
    \/ /\ trail' = Written(trail, batch)
       /\ logger' = [logger EXCEPT ![l] = [after EXCEPT !.queue = rest]]
       /\ UNCHANGED faults
    \/ \E n \in 0 .. Len(batch) - 1, torn \in BOOLEAN :
       /\ trail' = LET some == Written(trail, SubSeq(batch, 1, n))
                   IN  IF torn THEN CutOff(some) ELSE some
       /\ logger' = [logger EXCEPT ![l] = [after EXCEPT !.queue = rest, !.worker = "done"]]
       /\ faults' = faults \union {"lost"} \union IF torn THEN {"torn"} ELSE {}

\* Mutant: the batch is what was there a moment ago.
WriteBatchAgain(l) ==
    LET q == logger[l].queue
        n == Least(Len(q), MaxBatch)
    IN  /\ logger[l].worker = "running" /\ l \in Live /\ q # <<>>
        /\ Flush(l, SubSeq(q, 1, n), SubSeq(q, n, Len(q)), logger[l])
        /\ UNCHANGED <<logged, crashes>>

\* The worker takes what is there, at most MaxBatch, and writes it; once more after
\* the cancellation, if that arrives with an event (wait_for of Python 3.11).
WriteBatch(l) ==
    LET q == logger[l].queue
        n == Least(Len(q), MaxBatch)
    IN  /\ logger[l].worker = "running" /\ l \in Live /\ q # <<>>
        /\ Flush(l, SubSeq(q, 1, n), SubSeq(q, n + 1, Len(q)), logger[l])
        /\ UNCHANGED <<logged, crashes>>

\* A worker that finds the store shut down returns; also one started for a late event.
WorkerReturns(l) ==
    /\ logger[l].worker = "running" /\ logger[l].state # "open"
    /\ logger' = [logger EXCEPT ![l].worker = "done"]
    /\ UNCHANGED <<trail, logged, crashes, faults>>

\* shutdown cancels the worker and waits for its end ...
Shutdown(l) ==
    /\ logger[l].state = "open" /\ logger[l].queued
    /\ logger' = [logger EXCEPT ![l].state = "closing"]
    /\ UNCHANGED <<trail, logged, crashes, faults>>

\* ... and writes what is left.  Events logged after that stay in the queue.
Drain(l) ==
    /\ logger[l].state = "closing" /\ logger[l].worker # "running"
    /\ Flush(l, logger[l].queue, <<>>, [logger[l] EXCEPT !.state = "closed"])
    /\ UNCHANGED <<logged, crashes>>

\* The process dies, perhaps while it writes what some store has to write.
Crash ==
    /\ crashes < MaxCrashes /\ crashes' = crashes + 1
    /\ logger' = [l \in Loggers |-> NoLogger]
    /\ \/ UNCHANGED <<trail, faults>>
       \/ \E l \in Live, torn \in BOOLEAN : \E n \in 0 .. Len(logger[l].queue) :
             /\ trail' = LET some == Written(trail, SubSeq(logger[l].queue, 1, n))
                         IN  IF torn THEN CutOff(some) ELSE some
             /\ faults' = faults \union IF torn THEN {"torn"} ELSE {}
    /\ UNCHANGED logged

AuditNext ==
    \/ \E l \in Loggers : \/ OpenLogger(l) \/ LogNow(l) \/ LogQueued(l) \/ WriteBatch(l)
                          \/ WorkerReturns(l) \/ Shutdown(l) \/ Drain(l)
    \/ Crash

AuditSpec == AuditInit /\ [][AuditNext]_auditVars

-----------------------------------------------------------------------------
\* verify_chain.
Verified(lines) ==
    \A n \in DOMAIN lines :
        lines[n].prev = IF n = 1 THEN Genesis ELSE lines[n - 1].id

\* The file verifies as one chain across batches, crashes, shutdowns, events that
\* come too late and the stores that continue it, unless two stores were open at
\* once, a line was cut off or a batch could not be written (QueuedFileAuditStore,
\* FileAuditStore.__init__, AuditLogger._write).
TrailVerifies == faults \intersect Breaks = {} => Verified(trail)

\* While nothing failed, every event is in the file or, until the worker or the
\* shutdown writes it, in the queue of the open store, once and in order: no batch
\* limit, no race of worker and shutdown and no change of stores skips or repeats
\* one ("Graceful shutdown: drain queue + flush remaining events").
TrailIsComplete ==
    faults = {} /\ crashes = 0 =>
        LET unwritten == UNION {ToSet(logger[l].queue) : l \in Live}
        IN  /\ \A n \in DOMAIN trail : trail[n].id = n
            /\ \A l \in Live : \A n \in DOMAIN logger[l].queue :
                  logger[l].queue[n].id = Len(trail) + n
            /\ Len(trail) + Cardinality(unwritten) = logged

\* The audit log loses no event and its chain says so (both of the above).
AuditIsSound == TrailVerifies /\ TrailIsComplete
=============================================================================
