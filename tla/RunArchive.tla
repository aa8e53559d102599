----------------------------- MODULE RunArchive -----------------------------
(*******************************************************************************)
(* What the evaluation API (ryuu_eval/http/router.py) keeps of finished runs   *)
(* of one suite without a run store: run_history/<suite>.jsonl,                *)
(* last_run/<suite>.json and the records of batches, and what GET              *)
(* /suites/{id}/runs and the suite page make of them.                          *)
(*                                                                             *)
(* A POST for several models starts them one by one, waiting for the case      *)
(* store in between; a run finishes in one step, after its last await.         *)
(* Writing may fail for a full disk: then a line, or the file, is cut off.     *)
(* Runs are numbered as they start.                                            *)
(*******************************************************************************)
EXTENDS Integers, FiniteSets, Sequences, SequencesExt

CONSTANTS
    Gap,          \* 30 seconds: how close finished runs are taken for a batch
    PageLimit,    \* limit: entries that a page asks for
    MaxArchived,  \* bound: runs started
    MaxFinish,    \* bound: the clock
    MaxReboots,   \* bound: restarts of the server
    MaxFull,      \* bound: writes that fail
    Alone         \* no batch

ASSUME RunArchiveAssumption ==
    /\ Gap \in Nat \ {0} /\ PageLimit \in Nat \ {0}
    /\ {MaxArchived, MaxFinish, MaxReboots, MaxFull} \subseteq Nat
    /\ Alone \notin Nat

VARIABLES
    started,   \* the runs started so far, each with its batch
    underway,  \* the runs that have not finished
    posting,   \* the POST that still starts models of a batch, if any
    records,   \* _batch_results and "batch:<id>" of the key-value store
    broken,    \* history: batches whose record was not written, or only in memory
    history,   \* the readable lines of the history file
    cut,       \* whether the file ends in the middle of a line
    lastRun,   \* the run in last_run/<suite>.json
    clock, reboots, full

archiveVars == <<started, underway, posting, records, broken, history, cut, lastRun,
                 clock, reboots, full>>
archiveFiles == <<history, cut, lastRun>>
archiveBounds == <<clock, reboots, full>>

-----------------------------------------------------------------------------
NoPost == [batch |-> Alone, runs |-> <<>>]
NoRecords == [memory |-> {}, kv |-> {}]

ArchiveInit ==
    /\ started = <<>> /\ underway = {}
    /\ posting = NoPost
    /\ records = NoRecords /\ broken = {}
    /\ history = <<>> /\ cut = FALSE
    /\ lastRun = 0
    /\ clock = 0 /\ reboots = 0 /\ full = 0

Begin(batch) ==
    /\ Len(started) < MaxArchived
    /\ started' = Append(started, batch)
    /\ underway' = underway \cup {Len(started) + 1}
    /\ UNCHANGED <<records, broken, archiveFiles, archiveBounds>>

\* start_run for one model.
StartAlone == Begin(Alone) /\ UNCHANGED posting

\* start_run for several: the batch is named here after its first run.
StartOneOfBatch ==
    LET r == Len(started) + 1
        batch == IF posting = NoPost THEN r ELSE posting.batch
    IN  /\ Begin(batch)
        /\ posting' = [batch |-> batch, runs |-> Append(posting.runs, r)]

\* The factory refuses the next model: 400, while the others run on.
BatchRefused ==
    /\ posting # NoPost
    /\ posting' = NoPost
    /\ broken' = broken \cup {posting.batch}
    /\ UNCHANGED <<started, underway, records, archiveFiles, archiveBounds>>

\* batch_record, in memory and, best effort, in the key-value store.
BatchRecorded ==
    /\ Len(posting.runs) > 1
    /\ posting' = NoPost
    /\ records' = [memory |-> records.memory \cup {posting}, kv |-> records.kv \cup {posting}]
    /\ UNCHANGED <<started, underway, broken, archiveFiles, archiveBounds>>

BatchRecordedInMemory ==
    /\ Len(posting.runs) > 1 /\ full < MaxFull
    /\ full' = full + 1
    /\ posting' = NoPost
    /\ records' = [records EXCEPT !.memory = @ \cup {posting}]
    /\ broken' = broken \cup {posting.batch}
    /\ UNCHANGED <<started, underway, archiveFiles, clock, reboots>>

\* _write_run_history: what is appended to a line that was cut off is lost
\* with it.
AppendedTo(h, r) ==
    IF cut THEN h ELSE Append(h, [run |-> r, at |-> clock, batch |-> started[r]])

\* _write_last_run, then _write_run_history.
Finish(r) ==
    /\ r \in underway
    /\ underway' = underway \ {r}
    /\ lastRun' = r
    /\ history' = AppendedTo(history, r)
    /\ cut' = FALSE
    /\ UNCHANGED <<started, posting, records, broken, archiveBounds>>

\* The same with an OSError in either of them, or in both: each is caught, and
\* the file of the last run is left as it was, cut off, or written.
FinishOnFullDisk(r) ==
    /\ r \in underway /\ full < MaxFull
    /\ full' = full + 1
    /\ underway' = underway \ {r}
    /\ lastRun' \in {lastRun, 0, r}
    /\ \/ history' = history /\ cut' \in {cut, TRUE}
       \/ history' = AppendedTo(history, r) /\ cut' = FALSE
    /\ UNCHANGED <<started, posting, records, broken, clock, reboots>>

Later ==
    /\ clock < MaxFinish
    /\ clock' = clock + 1
    /\ UNCHANGED <<started, underway, posting, records, broken, archiveFiles, reboots, full>>

RebootServer ==
    /\ reboots < MaxReboots
    /\ reboots' = reboots + 1
    /\ underway' = {} /\ posting' = NoPost
    /\ records' = [records EXCEPT !.memory = {}]
    /\ broken' = broken \cup {posting.batch}
    /\ UNCHANGED <<started, archiveFiles, clock, full>>

ArchiveNext ==
    \/ StartAlone \/ StartOneOfBatch \/ BatchRefused \/ BatchRecorded
    \/ BatchRecordedInMemory
    \/ \E r \in underway : Finish(r) \/ FinishOnFullDisk(r)
    \/ Later \/ RebootServer

ArchiveSpec == ArchiveInit /\ [][ArchiveNext]_archiveVars

-----------------------------------------------------------------------------
(* GET /suites/{id}/runs and the groups of the suite page.                     *)

SoloAt == {i \in DOMAIN history : history[i].batch = Alone}

\* Mutant: a pause of just 30 seconds parts them, too.
OpensSooner(i) ==
    LET earlier == {j \in SoloAt : j < i} IN
    earlier # {} => history[i].at - history[Max(earlier)].at >= Gap

\* The runs without a batch are taken in the order they finished: one that comes more
\* than 30 seconds after the last one opens a group, named after it (synthetic_id).
Opens(i) ==
    LET earlier == {j \in SoloAt : j < i} IN
    earlier # {} => history[i].at - history[Max(earlier)].at > Gap

Opener(i) == Max({j \in SoloAt : j <= i /\ Opens(j)})

\* batch_id of an entry as it is returned: <<>> for a run that stays alone.
ShownRuns(i) ==
    IF history[i].batch # Alone THEN <<"batch", history[i].batch>>
    ELSE IF \E k \in SoloAt : k # i /\ Opener(k) = Opener(i)
         THEN <<"auto", history[Opener(i)].run>> ELSE <<>>

\* entries[:limit], newest first; runs that finish at once are not parted.
Page ==
    {i \in DOMAIN history :
        Cardinality({j \in DOMAIN history : history[j].at > history[i].at}) < PageLimit}

\* The groups with a link to compare their runs.
Shows(g) == {i \in Page : ShownRuns(i) = g}
Groups   == {g \in {ShownRuns(i) : i \in Page} : g # <<>> /\ Cardinality(Shows(g)) > 1}

\* GET /batch/{batch_id}
Record(g) == {p \in records.memory \cup records.kv : g = <<"batch", p.batch>>}

-----------------------------------------------------------------------------
(* Properties.                                                                 *)

\* Some solo run between the two was followed by nothing for more than 30 s.
Separated(d, e) ==
    \E a \in SoloAt :
        /\ history[d].at <= history[a].at /\ history[a].at < history[e].at
        /\ ~\E b \in SoloAt : history[b].at - history[a].at \in 1 .. Gap

\* The history groups the runs without a batch by bursts and nothing else: two
\* of them are in one group when no pause of more than 30 seconds parts them.
SoloRunsGroupByBursts ==
    \A d, e \in SoloAt :
        d < e => (ShownRuns(d) = ShownRuns(e) /\ ShownRuns(d) # <<>> <=> ~Separated(d, e))

\* A batch that the page offers to compare has a record that names every run
\* listed under it, also after a restart; unless its POST is still starting
\* models, ended in a 400, or its record never reached the key-value store.
BatchesHaveRecords ==
    \A g \in Groups : g[1] = "batch" /\ g[2] # posting.batch /\ g[2] \notin broken
        => \E p \in Record(g) : {history[i].run : i \in Shows(g)} \subseteq ToSet(p.runs)

\* The last run is the newest of the history as long as no write failed.
LastRunIsNewest ==
    full = 0 /\ history # <<>> => lastRun = Last(history).run

\* What the API says of past runs is what happened to them.
ArchiveTellsTheRuns == SoloRunsGroupByBursts /\ BatchesHaveRecords /\ LastRunIsNewest

\* A link to a group stays good: a run once shown in a group is shown in that
\* group for ever, whatever finishes later and whatever else is lost.
GroupsOnlyGrow ==
    \A i \in DOMAIN history : ShownRuns(i) # <<>> => ShownRuns(i)' = ShownRuns(i)

\* What the API tells of past runs is so after every step, and stays so (both of the
\* above; it begins with no run to tell of).
HistoryIsTold == [][ArchiveTellsTheRuns' /\ GroupsOnlyGrow]_archiveVars

=============================================================================
