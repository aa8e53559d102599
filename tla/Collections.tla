---------------------------- MODULE Collections ----------------------------
(******************************************************************************)
(* One scope of an ICollectionStore in its four implementations, with calls   *)
(* that overlap and a reader that pages through it with since_id.             *)
(*                                                                            *)
(* memory    every operation is one step;                                     *)
(* jsonl     a file per scope: an append writes one line and an update or     *)
(*           delete rewrites the file, in a thread, under a lock of the       *)
(*           event loop that readers do not take.  A cancelled call gives     *)
(*           the lock back while its thread goes on;                          *)
(* sqlite, postgres   one statement per operation; items are ordered by       *)
(*           their time of creation, which is taken before they are stored.   *)
(******************************************************************************)
EXTENDS Naturals, Sequences, FiniteSets, SequencesExt

CONSTANTS Writers, MaxCalls,   \* bounds of the run
          MaxTime, MaxPolls,   \* bounds of the run
          PageSize,            \* limit of list
          NoCall

ASSUME CollectionAssumption == PageSize \in Nat \ {0} /\ NoCall \notin Writers

VARIABLES backend,
          items,      \* what a reader finds, oldest line or row first
          lock,       \* whose rewrite holds the lock of the scope, or NoCall
          writer,     \* the call of each writer, see Idle
          calls,      \* calls so far; an append names its item so
          now,
          reader,     \* what it has got, in order, and its cursor
          polls,
          cut,        \* history: a call was cancelled
          overlapped, \* history: appends whose times do not tell their order
          lostPlace   \* history: the item under the cursor is gone

collectionVars == <<backend, items, lock, writer, calls, now, reader, polls,
                    cut, overlapped, lostPlace>>

SQL == {"sqlite", "postgres"}

Idle == [pc     |-> "idle",     \* "appending", "waiting", "rewriting"; cancelled while
                                \* its thread goes on: "adrift", "orphaned"
         item   |-> [id |-> 0, at |-> 0, text |-> 0],
         op     |-> "append",
         target |-> 0,
         lines  |-> <<>>]       \* what the rewrite will put into the file

Ids(s) == {s[n].id : n \in DOMAIN s}

CollectionInit ==
    /\ backend \in {"memory", "jsonl"} \union SQL
    /\ items = <<>> /\ lock = NoCall /\ calls = 0 /\ now = 0 /\ polls = 0
    /\ writer = [w \in Writers |-> Idle]
    /\ reader = [seen |-> <<>>, cursor |-> 0]
    /\ cut = FALSE /\ overlapped = FALSE /\ lostPlace = FALSE

Tick ==
    /\ now < MaxTime /\ now' = now + 1
    /\ UNCHANGED <<backend, items, lock, writer, calls, reader, polls, cut, overlapped, lostPlace>>

Become(w, call) == writer' = [writer EXCEPT ![w] = call]

\* The reader's place is lost with the item that is its cursor.
Change(s) ==
    /\ items' = s
    /\ lostPlace' = (lostPlace \/ reader.cursor \in Ids(items) \ Ids(s))

\* Append ----------------------------------------------------------------

\* The id and the time are chosen before the item is stored; in memory nothing comes
\* between.
BeginAppend(w) ==
    /\ writer[w].pc = "idle" /\ calls < MaxCalls
    /\ backend = "memory" => \A v \in Writers : writer[v].pc # "appending"
    /\ calls' = calls + 1
    /\ LET item == [id |-> calls + 1, at |-> now, text |-> 0]
       IN  Become(w, [Idle EXCEPT !.pc = "appending", !.item = item])
    /\ overlapped' = \/ overlapped
                     \/ \E v \in Writers : writer[v].pc = "appending"
                     \/ \E n \in DOMAIN items : items[n].at = now
    /\ UNCHANGED <<backend, items, lock, now, reader, polls, cut, lostPlace>>

\* The line is written, or the row inserted.
StoreItem(w) ==
    /\ writer[w].pc \in {"appending", "adrift"}
    /\ backend = "jsonl" /\ writer[w].pc = "appending" => lock = NoCall
    /\ Change(Append(items, writer[w].item))
    /\ Become(w, Idle)
    /\ UNCHANGED <<backend, lock, calls, now, reader, polls, cut, overlapped>>

\* Cancelled while its thread writes: the line comes whoever has the lock by then.
CancelAppend(w) ==
    /\ backend = "jsonl" /\ lock = NoCall /\ writer[w].pc = "appending"
    /\ Become(w, [writer[w] EXCEPT !.pc = "adrift"])
    /\ cut' = TRUE
    /\ UNCHANGED <<backend, items, lock, calls, now, reader, polls, overlapped, lostPlace>>

\* Update, delete, clear --------------------------------------------------

\* Where the item of this id is.
Place(s, id) == CHOOSE n \in DOMAIN s : s[n].id = id

Edited(s, op, id) ==
    CASE op = "clear" -> <<>>
      [] op # "clear" /\ id \notin Ids(s) -> s
      [] op = "update" /\ id \in Ids(s) -> [s EXCEPT ![Place(s, id)].text = 1 - @]
      [] op = "delete" /\ id \in Ids(s) -> RemoveAt(s, Place(s, id))

\* Memory and databases: one step, or one statement.
EditInPlace(op, id) ==
    /\ backend # "jsonl" /\ calls < MaxCalls /\ calls' = calls + 1
    /\ Change(Edited(items, op, id))
    /\ UNCHANGED <<backend, lock, writer, now, reader, polls, cut, overlapped>>

BeginEdit(w, op, id) ==
    /\ backend = "jsonl" /\ writer[w].pc = "idle" /\ calls < MaxCalls
    /\ calls' = calls + 1
    /\ Become(w, [Idle EXCEPT !.pc = "waiting", !.op = op, !.target = id])
    /\ UNCHANGED <<backend, items, lock, now, reader, polls, cut, overlapped, lostPlace>>

\* Mutant: the lock is for appends only.
ReadWithoutLock(w) ==
    /\ writer[w].pc = "waiting"
    /\ Become(w, [writer[w] EXCEPT !.pc = "rewriting",
                                   !.lines = Edited(items, writer[w].op, writer[w].target)])
    /\ UNCHANGED <<backend, items, lock, calls, now, reader, polls, cut, overlapped, lostPlace>>

\* It takes the lock and reads the file; without the item there is nothing to do.
ReadLocked(w) ==
    /\ writer[w].pc = "waiting" /\ lock = NoCall
    /\ \/ /\ writer[w].op = "clear" \/ writer[w].target \in Ids(items)
          /\ lock' = w
          /\ Become(w, [writer[w] EXCEPT !.pc = "rewriting",
                                         !.lines = Edited(items, writer[w].op, writer[w].target)])
       \/ /\ writer[w].op # "clear" /\ writer[w].target \notin Ids(items)
          /\ Become(w, Idle) /\ UNCHANGED lock
    /\ UNCHANGED <<backend, items, calls, now, reader, polls, cut, overlapped, lostPlace>>

\* The temporary file takes the place of the file, or the file is unlinked.
Replace(w) ==
    /\ writer[w].pc \in {"rewriting", "orphaned"}
    /\ Change(writer[w].lines)
    /\ lock' = IF lock = w THEN NoCall ELSE lock
    /\ Become(w, Idle)
    /\ UNCHANGED <<backend, calls, now, reader, polls, cut, overlapped>>

\* The task is cancelled in its await: the lock is free, the thread goes on.  A
\* rewrite that meets the temporary file of another may also fail.
CancelEdit(w) ==
    /\ writer[w].pc = "rewriting"
    /\ lock' = IF lock = w THEN NoCall ELSE lock
    /\ Become(w, [writer[w] EXCEPT !.pc = "orphaned"])
    /\ cut' = TRUE
    /\ UNCHANGED <<backend, items, calls, now, reader, polls, overlapped, lostPlace>>

OrphanFails(w) ==
    /\ writer[w].pc = "orphaned" /\ Become(w, Idle)
    /\ UNCHANGED <<backend, items, lock, calls, now, reader, polls, cut, overlapped, lostPlace>>

\* list --------------------------------------------------------------------

\* Mutant: the page begins with the anchor.
AfterPlaceInclusive(id) ==
    IF id \in Ids(items)
    THEN SubSeq(items, Place(items, id), Len(items))
    ELSE items

\* memory, jsonl: what follows the anchor; all of it if the anchor is not found.
AfterPlace(id) ==
    IF id \in Ids(items)
    THEN SubSeq(items, 1 + Place(items, id), Len(items))
    ELSE items

\* sqlite, postgres: what was created after the anchor, in any order that the times
\* allow; nothing if the anchor is not found.
AfterTime(id) ==
    LET later  == IF id = 0 THEN ToSet(items)
                  ELSE {i \in ToSet(items) : \E a \in ToSet(items) : a.id = id /\ i.at > a.at}
    IN  {s \in SetToSeqs(later) : \A m, n \in DOMAIN s : m < n => s[m].at <= s[n].at}

Poll ==
    /\ polls < MaxPolls /\ polls' = polls + 1
    /\ \E found \in IF backend \in SQL THEN AfterTime(reader.cursor)
                    ELSE {AfterPlace(reader.cursor)} :
         LET page == SubSeq(found, 1, IF Len(found) < PageSize THEN Len(found) ELSE PageSize)
         IN  /\ page # <<>>
             /\ reader' = [seen   |-> reader.seen \o [n \in DOMAIN page |-> page[n].id],
                           cursor |-> Last(page).id]
    /\ UNCHANGED <<backend, items, lock, writer, calls, now, cut, overlapped, lostPlace>>

CollectionNext ==
    \/ Tick \/ Poll
    \/ \E w \in Writers : \/ BeginAppend(w) \/ StoreItem(w) \/ CancelAppend(w)
                          \/ ReadLocked(w) \/ Replace(w) \/ CancelEdit(w) \/ OrphanFails(w)
    \/ \E id \in Ids(items) \union {0}, op \in {"update", "delete", "clear"} :
          /\ op = "clear" <=> id = 0
          /\ EditInPlace(op, id) \/ \E w \in Writers : BeginEdit(w, op, id)

CollectionSpec == CollectionInit /\ [][CollectionNext]_collectionVars

-----------------------------------------------------------------------------
\* The order in which a reader is told of the items.
ReadOrder(i) == IF backend \in SQL THEN i.at ELSE CHOOSE n \in DOMAIN items : items[n] = i

\* A reader that pages with the last id it got as since_id gets no item twice and
\* passes none by, while calls overlap, items change and items before its place go:
\* provided the item under its cursor is still there and, in a database, the times
\* of the appends tell their order ("List items in append order. `since_id` cursors
\* past prior items", protocols.py list).
ReaderMissesNothing ==
    ~lostPlace /\ ~cut /\ (backend \in SQL => ~overlapped) =>
        /\ IsInjective(reader.seen)
        /\ \A i, p \in ToSet(items) :
              p.id = reader.cursor /\ ReadOrder(i) <= ReadOrder(p) =>
                  i.id \in ToSet(reader.seen)

\* Every change of a scope is the one of one call: an append adds its item behind
\* the others, a rewrite changes its item only and takes no append back that came
\* after its read, unless a call was cancelled (the lock of JsonlCollectionStore).
WholeChange ==
    ~cut' /\ items' # items =>
        \/ items' = <<>>
        \/ \E i \in {writer[w].item : w \in Writers} : items' = Append(items, i)
        \/ \E id \in Ids(items) : \E op \in {"update", "delete"} : items' = Edited(items, op, id)

ChangesAreWhole == [][WholeChange]_collectionVars
=============================================================================
