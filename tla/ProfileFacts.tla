---------------------------- MODULE ProfileFacts ----------------------------
(******************************************************************************)
(* One fact of a user's profile in PostgresProfileStore: a row per value,     *)
(* the active one without an end.  set_value is a transaction that closes     *)
(* the active row and inserts the next; the database runs transactions with   *)
(* read committed: a statement sees what was committed when it began, waits   *)
(* for a row that another has changed and then looks at that row again, and   *)
(* now() is the time the transaction began.                                   *)
(******************************************************************************)
EXTENDS Naturals, FiniteSets

CONSTANTS Setters,
          MaxSets, MaxErasures   \* bounds of the run

VARIABLES facts,        \* committed rows, see FactRow
          setter,       \* the transaction of each setter, see NoTransaction
          erasures,     \* delete_key so far
          sets,         \* transactions so far: the time one begins
          together      \* history: two transactions overlapped

profileVars == <<facts, setter, erasures, sets, together>>

Open == 0

\* A row is known by the time it was opened, which no two of one fact share here.
FactRow(from) == [from |-> from, to |-> Open]

NoTransaction == [pc     |-> "idle",   \* "begun", "waiting", "closed", "inserted"
                  began  |-> 0,
                  sees   |-> {},       \* active rows its update has to close
                  closed |-> {}]       \* and those it has closed

ProfileInit ==
    /\ facts = {} /\ erasures = 0 /\ sets = 0 /\ together = FALSE
    /\ setter = [s \in Setters |-> NoTransaction]

Active == {r \in facts : r.to = Open}

Others(s) == Setters \ {s}

\* Rows that a transaction under way has changed are locked until it ends.
Locked(s) == UNION {setter[o].closed : o \in Others(s)}

BeginSet(s) ==
    /\ setter[s].pc = "idle" /\ sets < MaxSets /\ sets' = sets + 1
    /\ setter' = [setter EXCEPT ![s] = [NoTransaction EXCEPT !.pc = "begun", !.began = sets + 1]]
    /\ together' = (together \/ \E o \in Others(s) : setter[o].pc # "idle")
    /\ UNCHANGED <<facts, erasures>>

\* The update finds the rows that are active now ...
FindActive(s) ==
    /\ setter[s].pc = "begun"
    /\ setter' = [setter EXCEPT ![s].pc = "waiting", ![s].sees = Active]
    /\ UNCHANGED <<facts, erasures, sets, together>>

\* ... waits for them, and closes those that still are active then.
CloseActive(s) ==
    /\ setter[s].pc = "waiting" /\ setter[s].sees \intersect Locked(s) = {}
    /\ setter' = [setter EXCEPT ![s].pc = "closed",
                                ![s].closed = setter[s].sees \intersect Active]
    /\ UNCHANGED <<facts, erasures, sets, together>>

Rollback(s) == setter' = [setter EXCEPT ![s] = NoTransaction]

\* The insert waits for another's that is under way.  The index of active rows admits
\* one: a second raises, and set_value is rolled back.
InsertNext(s) ==
    /\ setter[s].pc = "closed" /\ \A o \in Others(s) : setter[o].pc # "inserted"
    /\ IF Active \ setter[s].closed = {}
       THEN setter' = [setter EXCEPT ![s].pc = "inserted"]
       ELSE Rollback(s)
    /\ UNCHANGED <<facts, erasures, sets, together>>

CloseAt(rows, time) == {[r EXCEPT !.to = time] : r \in rows}

\* Mutant: the old row is committed by itself.
CommitCloseFirst(s) ==
    \/ /\ setter[s].pc = "closed" /\ setter[s].closed # {}
       /\ facts' = (facts \ setter[s].closed) \union CloseAt(setter[s].closed, setter[s].began)
       /\ setter' = [setter EXCEPT ![s].closed = {}]
       /\ UNCHANGED <<erasures, sets, together>>
    \/ /\ setter[s].pc = "inserted"
       /\ facts' = facts \union {FactRow(setter[s].began)}
       /\ Rollback(s)
       /\ UNCHANGED <<erasures, sets, together>>

CommitSet(s) ==
    /\ setter[s].pc = "inserted"
    /\ facts' = (facts \ setter[s].closed) \union CloseAt(setter[s].closed, setter[s].began)
                    \union {FactRow(setter[s].began)}
    /\ setter' = [setter EXCEPT ![s] = NoTransaction]
    /\ UNCHANGED <<erasures, sets, together>>

\* The connection or the task is lost.
AbortSet(s) ==
    /\ setter[s].pc # "idle" /\ Rollback(s)
    /\ UNCHANGED <<facts, erasures, sets, together>>

\* delete_key waits for locked rows too; a row that was closed meanwhile it deletes,
\* one that was inserted meanwhile it does not see.
Erase(seen) ==
    /\ erasures < MaxErasures /\ erasures' = erasures + 1
    /\ \A s \in Setters : setter[s].closed = {}
    /\ facts' = {r \in facts : r.from \notin seen}
    /\ UNCHANGED <<setter, sets, together>>

ProfileNext ==
    \/ \E s \in Setters : \/ BeginSet(s) \/ FindActive(s) \/ CloseActive(s)
                          \/ InsertNext(s) \/ CommitSet(s) \/ AbortSet(s)
    \/ Erase({r.from : r \in facts})
    \* or it has waited for the one who inserted the active row
    \/ Active # {} /\ Erase({r.from : r \in facts \ Active})

ProfileSpec == ProfileInit /\ [][ProfileNext]_profileVars

-----------------------------------------------------------------------------
\* A fact that was set has one current value at any time a reader looks: never none
\* between the two statements, never two, also when setters overlap, fail or meet a
\* deletion ("setting a new value never overwrites history", profile.py).  Its history
\* is a line without gaps, overlaps or intervals that end before they begin, so that
\* get_at finds one value at each time since the first: unless set_value calls overlap,
\* where now() of the one that goes second may be the earlier.
FactHasOneValue ==
    /\ facts # {} => Cardinality(Active) = 1
    /\ ~together =>
        /\ \A r \in facts \ Active :
              r.from < r.to /\ \E next \in facts : next.from = r.to
        /\ \A r, q \in facts : r.from < q.from => r.to # Open /\ r.to <= q.from
=============================================================================
