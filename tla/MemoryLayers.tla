---------------------------- MODULE MemoryLayers ----------------------------
(*******************************************************************************)
(* The memory of one scope: MemoryBackbone with its working, episodic and      *)
(* semantic stores (in memory), the extraction filter before the episodic      *)
(* one, and the DreamingConsolidator with its EvictionJob, which end_session   *)
(* starts and nobody awaits: cycles overlap each other, later writes and a     *)
(* clear.  The stores never suspend; the filter, the embedder and the          *)
(* summarising model do, and each may fail.                                    *)
(*                                                                             *)
(* Observations are numbered as they are written.  Those of Related are        *)
(* about one subject (cosine above both thresholds), the others each about     *)
(* their own.  Time is in units that order the three periods of the code:      *)
(* an entry of low importance decays below the threshold after 21 days, one    *)
(* of medium importance after 34, an archive is kept for 30.                   *)
(*******************************************************************************)
EXTENDS Naturals, Sequences, FiniteSets, SequencesExt

CONSTANTS NumObservations, Related,   \* bound of the run
          Cycles,                     \* bound of the run: sessions that end
          MaxWorking, MaxEntries,     \* max_entries of the two stores
          Limit,                      \* of get_unconsolidated
          Life,                       \* idle time after which an entry decays
          ArchiveTTL

Observations == 1 .. NumObservations
Importances  == {"high", "medium", "low"}

ASSUME MemoryAssumption ==
    /\ NumObservations \in Nat /\ Related \subseteq Observations
    /\ MaxWorking \in Nat \ {0} /\ MaxEntries \in Nat \ {0} /\ Limit \in Nat \ {0}
    /\ Life \in [{"medium", "low"} -> Nat] /\ ArchiveTTL \in Nat \ {0}

VARIABLES setup,       \* which of filter, embedder and llm the application gave
          written,     \* observations so far
          working,     \* WorkingMemoryStore: a deque
          filtering,   \* observations whose filter call is under way
          episodic,    \* EpisodicMemoryStore: a set of entries, nth in order of storing
          semantic,    \* SemanticMemoryStore: a sequence of facts
          cycle,       \* run_cycle of each ended session, see NoCycle
          early,       \* history: entries deleted by eviction before their time
          cyclesOverlapped   \* history: two cycles have run at once

stores == <<working, filtering, episodic, semantic>>
memoryVars == <<setup, written, working, filtering, episodic, semantic, cycle, early,
                cyclesOverlapped>>

NoCycle == [pc       |-> "none",
            todo     |-> {},   \* pending entries still to be clustered, as they were
            clusters |-> {},   \* while clustering all, later those still to be promoted
            due      |-> {},   \* history: high entries it started with
            skipped  |-> {}]   \* history: entries whose summary came back empty

UnderWay == {c \in Cycles : cycle[c].pc \notin {"none", "done"}}

Similar(o, p) == o = p \/ {o, p} \subseteq Related

MemoryInit ==
    /\ setup \in [filter : BOOLEAN, embedder : BOOLEAN, llm : BOOLEAN]
    /\ written = 0 /\ working = <<>> /\ filtering = {} /\ episodic = {}
    /\ semantic = <<>> /\ cycle = [c \in Cycles |-> NoCycle]
    /\ early = {} /\ cyclesOverlapped = FALSE

EntryIds(s) == {e.id : e \in s}

High(e) == e.importance = "high"

Oldest(s) == CHOOSE e \in s : \A f \in s : e.nth <= f.nth

\* Writing ---------------------------------------------------------------

StoreWorking(o) ==
    working' = Append(IF Len(working) >= MaxWorking THEN Tail(working) ELSE working, o)

\* The store is full: its oldest entry makes room, whatever its importance.
Roomy == IF Cardinality(episodic) >= MaxEntries THEN episodic \ {Oldest(episodic)} ELSE episodic

Latest(s) == IF s = {} THEN 0 ELSE Max({e.nth : e \in s})

StoreEpisodic(o) ==
    \E i \in Importances :
        episodic' = Roomy \union {[id |-> o, importance |-> i, status |-> "active",
                                   age |-> 0, left |-> 0, nth |-> Latest(Roomy) + 1]}

\* write: the working store at once, the episodic one now or behind the filter.
Write ==
    /\ written < NumObservations
    /\ written' = written + 1
    /\ StoreWorking(written + 1)
    /\ \/ /\ setup.filter
          /\ filtering' = filtering \union {written + 1}
          /\ UNCHANGED episodic
       \/ /\ ~setup.filter
          /\ StoreEpisodic(written + 1)
          /\ UNCHANGED filtering
    /\ UNCHANGED <<setup, semantic, cycle, early, cyclesOverlapped>>

\* The filter judged an observation a signal, or failed: then it is stored as it is.
FilterKeeps(o) ==
    /\ o \in filtering
    /\ filtering' = filtering \ {o}
    /\ StoreEpisodic(o)
    /\ UNCHANGED <<setup, written, working, semantic, cycle, early, cyclesOverlapped>>

FilterDrops(o) ==
    /\ o \in filtering
    /\ filtering' = filtering \ {o}
    /\ UNCHANGED <<setup, written, working, episodic, semantic, cycle, early, cyclesOverlapped>>

\* The application clears the three stores of the scope.
Clear ==
    /\ episodic # {} \/ semantic # <<>>
    /\ working' = <<>> /\ episodic' = {} /\ semantic' = <<>>
    /\ early' = {}
    /\ cycle' = [c \in Cycles |-> [cycle[c] EXCEPT !.due = {}]]
    /\ UNCHANGED <<setup, written, filtering, cyclesOverlapped>>

\* Entries older than the age at which they may be gone are alike.
Gone(e) == IF High(e) THEN 0 ELSE Life[e.importance] + ArchiveTTL + 1

Older(e) == [e EXCEPT !.age  = IF @ < Gone(e) THEN @ + 1 ELSE @,
                      !.left = IF @ > 0 THEN @ - 1 ELSE 0]

DayPasses ==
    /\ episodic' = {Older(e) : e \in episodic}
    /\ episodic' # episodic
    /\ UNCHANGED <<setup, written, working, filtering, semantic, cycle, early, cyclesOverlapped>>

\* Eviction --------------------------------------------------------------

Decayed(e) == ~High(e) /\ e.age > Life[e.importance]

Expired(e) == e.status = "archived" /\ e.left = 0

\* Mutant: what decays is deleted, promoted or not.
EvictedAtOnce(s) == {e \in s : ~Decayed(e)}

\* EvictionJob.run: a decayed entry that is consolidated is deleted, an active one is
\* archived; then the archives whose time is over are deleted.
Archived(e) ==
    IF Decayed(e) /\ e.status = "active"
    THEN [e EXCEPT !.status = "archived", !.left = ArchiveTTL] ELSE e

Evicted(s) ==
    {e \in {Archived(f) : f \in s} : ~Expired(e) /\ ~(Decayed(e) /\ e.status = "consolidated")}

\* Consolidation ---------------------------------------------------------

Unconsolidated(s) ==
    LET active == {e \in s : e.status = "active"}
    IN  {e \in active : Cardinality({f \in active : f.nth < e.nth}) < Limit}

Marked(s, ids) ==
    {IF e.id \in ids THEN [e EXCEPT !.status = "consolidated"] ELSE e : e \in s}

Several(k) == \A e \in k.members : k.members # {e}

\* A single entry is promoted only if it is important.
WorthAFact(k) == Several(k) \/ \A e \in k.members : High(e)

\* Clusters are kept in the order of their first entries.
First(clusters) ==
    CHOOSE k \in clusters : \A j \in clusters : Oldest(k.members).nth <= Oldest(j.members).nth

Fact(ids, embedded) == [sources |-> ids, embedded |-> embedded]

\* Where a cycle awaits next, with these clusters left: the model for a summary of
\* several entries, else the embedder.
Promoting(t, clusters) ==
    [t EXCEPT !.todo = {}, !.clusters = clusters,
              !.pc = IF clusters = {} THEN "done"
                     ELSE IF setup.llm /\ Several(First(clusters)) THEN "summarizing"
                     ELSE "embedding"]

\* run_cycle, up to its first suspension.  Without an embedder there is none: every
\* entry is a cluster of its own, and the important ones are promoted verbatim.
Dream(c) ==
    LET kept    == Evicted(episodic)
        pending == Unconsolidated(kept)
        due     == EntryIds({e \in pending : High(e)})
    IN  /\ cycle[c].pc = "none"
        /\ early' = early \union {e.id : e \in {e \in episodic :
                                  e.id \notin EntryIds(kept) /\ (High(e) \/ e.age < Gone(e))}}
        /\ \/ /\ setup.embedder /\ pending # {}
              /\ cycle' = [cycle EXCEPT ![c] = [@ EXCEPT !.pc = "clustering", !.due = due,
                                                         !.todo = pending]]
              /\ episodic' = kept
              /\ cyclesOverlapped' = (cyclesOverlapped \/ UnderWay # {})
              /\ UNCHANGED semantic
           \/ /\ ~setup.embedder \/ pending = {}
              /\ cycle' = [cycle EXCEPT ![c] = [@ EXCEPT !.pc = "done", !.due = due]]
              /\ semantic' = semantic \o SetToSeq({Fact({o}, FALSE) : o \in due})
              /\ episodic' = Marked(kept, due)
              /\ UNCHANGED cyclesOverlapped
        /\ UNCHANGED <<setup, written, working, filtering>>

\* The greedy clustering: the first cluster whose centroid is close, else a new one.
Placed(clusters, e, embedded) ==
    LET close == {k \in clusters :
                    embedded /\ k.embedded /\ Similar(e.id, Oldest(k.members).id)}
    IN  IF close = {} THEN clusters \union {[members |-> {e}, embedded |-> embedded]}
        ELSE (clusters \ {First(close)})
                \union {[First(close) EXCEPT !.members = @ \union {e}]}

\* The embedder answers for the next entry, or fails; after the last one the clusters
\* worth a fact are promoted in order.
ClusterNext(c) ==
    /\ cycle[c].pc = "clustering"
    /\ \E embedded \in BOOLEAN :
         LET next     == Oldest(cycle[c].todo)
             clusters == Placed(cycle[c].clusters, next, embedded)
             rest     == cycle[c].todo \ {next}
         IN  cycle' = [cycle EXCEPT ![c] =
                 IF rest # {} THEN [@ EXCEPT !.todo = rest, !.clusters = clusters]
                 ELSE Promoting(@, {k \in clusters : WorthAFact(k)})]
    /\ UNCHANGED <<setup, written, stores, early, cyclesOverlapped>>

\* A failing model is replaced by the first entry's text.
Summarized(c) ==
    /\ cycle[c].pc = "summarizing"
    /\ cycle' = [cycle EXCEPT ![c].pc = "embedding"]
    /\ UNCHANGED <<setup, written, stores, early, cyclesOverlapped>>

SummaryIsEmpty(c) ==
    /\ cycle[c].pc = "summarizing"
    /\ LET next  == First(cycle[c].clusters)
           given == [cycle[c] EXCEPT !.skipped = @ \union EntryIds(next.members)]
       IN  cycle' = [cycle EXCEPT ![c] = Promoting(given, @.clusters \ {next})]
    /\ UNCHANGED <<setup, written, stores, early, cyclesOverlapped>>

\* Facts the duplicate check may take the summary for.
Alike(ids) == {f \in ToSet(semantic) :
                   f.embedded /\ \E o \in ids, p \in f.sources : Similar(o, p)}

\* The summary is embedded (or not), compared, and stored unless it is a duplicate; its
\* entries are marked.  Nothing suspends in between.
Consolidate(ids) ==
    /\ \/ \E embedded \in BOOLEAN : semantic' = Append(semantic, Fact(ids, embedded))
       \/ Alike(ids) # {} /\ UNCHANGED semantic
    /\ episodic' = Marked(episodic, ids)

SummaryEmbedded(c) ==
    /\ cycle[c].pc = "embedding"
    /\ LET next == First(cycle[c].clusters)
       IN  /\ Consolidate(EntryIds(next.members))
           /\ cycle' = [cycle EXCEPT ![c] = Promoting(@, @.clusters \ {next})]
    /\ UNCHANGED <<setup, written, working, filtering, early, cyclesOverlapped>>

MemoryNext ==
    \/ Write \/ Clear \/ DayPasses
    \/ \E o \in filtering : FilterKeeps(o) \/ FilterDrops(o)
    \/ \E c \in Cycles : Dream(c) \/ ClusterNext(c) \/ Summarized(c) \/ SummaryIsEmpty(c)
                            \/ SummaryEmbedded(c)

MemorySpec == MemoryInit /\ [][MemoryNext]_memoryVars

-----------------------------------------------------------------------------
Covered(o) == \E f \in ToSet(semantic) : \E p \in f.sources : Similar(o, p)

\* Observations are accounted for.  What the cycles hide from retrieval or evict lives on
\* in a fact, or was unimportant and has had its idle time and its archive time, also
\* when overlapping cycles evict, archive and mark the same entries; and as long as
\* cycles do not overlap no observation is the source of two facts (consolidator.py:78-96,
\* :121-159; episodic.py:97-150).  Of what a full store drops for a new entry, the
\* oldest whatever its importance, nothing is said.
ObservationsAreAccounted ==
    /\ \A e \in episodic : e.status = "consolidated" => Covered(e.id)
    /\ \A o \in early : Covered(o)
    /\ ~cyclesOverlapped => \A i, j \in DOMAIN semantic :
                          semantic[i].sources \intersect semantic[j].sources # {} => i = j

\* A cycle that has ended leaves no important entry it started with unpromoted, except
\* those whose summary came back empty (consolidator.py:130-139).
HighEntriesArePromoted ==
    \A c \in Cycles : cycle[c].pc = "done" =>
        \A o \in cycle[c].due : Covered(o) \/ o \in cycle[c].skipped

\* A cycle hides or evicts no observation that matters, and leaves none behind (both of
\* them).
ObservationsAreKept == ObservationsAreAccounted /\ HighEntriesArePromoted
=============================================================================
