---------------------------- MODULE StorageProofs ----------------------------
(***************************************************************************)
(* Proofs about the stores: the facts of a profile under transactions that *)
(* overlap, the connection pool that is created by its first user, the     *)
(* audit file, the saving of changes to a collection, the evaluation       *)
(* studio's fixture with its review file, the layers of memory, and recall.*)
(***************************************************************************)
EXTENDS ProfileFacts, ConnectionPool, AuditTrail, Collections, EvalStudio, MemoryLayers,
        RecallPipeline, FiniteSetTheorems, SequenceTheorems, WellFoundedInduction, TLAPS

Rows == [from : Nat \ {0}, to : Nat]
Transactions ==
    [pc : {"idle", "begun", "waiting", "closed", "inserted"}, began : Nat,
     sees : SUBSET Rows, closed : SUBSET Rows]

ProfileTypeOK ==
    /\ facts \in SUBSET Rows /\ setter \in [Setters -> Transactions]
    /\ erasures \in Nat /\ sets \in Nat /\ together \in BOOLEAN

\* Times are those of transactions so far, and no two open a row at the same one.
RowsDiffer ==
    /\ \A r \in facts : r.from <= sets /\ r.to <= sets
    /\ \A r, q \in facts : r.from = q.from => r = q
    /\ \A s \in Setters : setter[s].pc # "idle" =>
          setter[s].began \in 1 .. sets /\ \A r \in facts : r.from # setter[s].began
    /\ \A s, o \in Setters : s # o /\ setter[s].pc # "idle" /\ setter[o].pc # "idle" =>
          setter[s].began # setter[o].began

\* What a transaction has closed is active for all others until it commits.
ClosedIsLocked ==
    /\ \A s \in Setters : setter[s].pc \in {"idle", "begun", "waiting"} => setter[s].closed = {}
    /\ \A s \in Setters : setter[s].closed \subseteq Active
    /\ \A s, o \in Setters : s # o => setter[s].closed \cap setter[o].closed = {}

\* One transaction at a time has its row in the index, and it has closed the active one.
OneInserts ==
    /\ \A s, o \in Setters : setter[s].pc = "inserted" /\ setter[o].pc = "inserted" => s = o
    /\ \A s \in Setters : setter[s].pc = "inserted" => Active \subseteq setter[s].closed

OneActive == facts # {} => \E r \in facts : Active = {r}

\* While transactions have not overlapped, the one under way began last.
Alone ==
    ~together =>
        /\ \A s, o \in Setters : setter[s].pc # "idle" /\ setter[o].pc # "idle" => s = o
        /\ \A s \in Setters : setter[s].pc # "idle" => setter[s].began = sets

HistoryIsALine ==
    ~together =>
        /\ \A r \in facts : r.to # Open =>
              r.from < r.to /\ \E next \in facts : next.from = r.to
        /\ \A r, q \in facts : r.from < q.from => r.to # Open /\ r.to <= q.from

ProfileInv ==
    /\ ProfileTypeOK /\ RowsDiffer /\ ClosedIsLocked /\ OneInserts /\ OneActive
    /\ Alone /\ HistoryIsALine

\* What a step makes of the transaction of setter s.
SetterNow(s, pc, began, closed) ==
    /\ setter' \in [Setters -> Transactions] /\ \A o \in Setters \ {s} : setter'[o] = setter[o]
    /\ setter'[s].pc = pc /\ setter'[s].began = began /\ setter'[s].closed = closed

LEMMA ProfileInitial == ProfileInit => ProfileInv
<1> SUFFICES ASSUME ProfileInit PROVE ProfileInv
  OBVIOUS
<1> USE DEF ProfileInit, NoTransaction
<1>1. ProfileTypeOK
  BY DEF ProfileTypeOK, Transactions
<1>2. RowsDiffer /\ ClosedIsLocked /\ OneInserts
  BY DEF RowsDiffer, ClosedIsLocked, OneInserts, Active
<1>3. OneActive /\ Alone /\ HistoryIsALine
  BY DEF OneActive, Alone, HistoryIsALine
<1> QED
  BY <1>1, <1>2, <1>3 DEF ProfileInv

LEMMA ActiveRows == ProfileTypeOK => Active \in SUBSET Rows
BY DEF ProfileTypeOK, Active

\* A transaction that begins takes the next time.
LEMMA BeginStep == \A s \in Setters : ProfileInv /\ BeginSet(s) => ProfileInv'
<1> SUFFICES ASSUME NEW s \in Setters, ProfileInv, BeginSet(s) PROVE ProfileInv'
  OBVIOUS
<1> USE DEF ProfileInv
<1>1. SetterNow(s, "begun", sets + 1, {}) /\ setter[s].pc = "idle"
  <2> DEFINE begin == sets + 1
             t   == [NoTransaction EXCEPT !.pc = "begun", !.began = begin]
  <2>1. begin \in Nat
    BY DEF ProfileTypeOK
  <2> HIDE DEF begin
  <2>2. t \in Transactions /\ t.pc = "begun" /\ t.began = begin /\ t.closed = {}
    BY <2>1 DEF NoTransaction, Transactions
  <2>3. setter' = [setter EXCEPT ![s] = t] /\ setter[s].pc = "idle"
    BY DEF BeginSet, begin
  <2> HIDE DEF t
  <2> QED
    BY <2>2, <2>3 DEF SetterNow, ProfileTypeOK, begin
<1>2. facts' = facts /\ Active' = Active /\ sets' = sets + 1
  BY DEF BeginSet, Active
<1>3. together \in BOOLEAN /\ together' \in BOOLEAN /\ (together => together')
      /\ (~together' => \A o \in Setters \ {s} : setter[o].pc = "idle")
  BY Zenon DEF BeginSet, Others, ProfileTypeOK
<1>4. ProfileTypeOK'
  BY <1>1, <1>2, <1>3 DEF ProfileTypeOK, BeginSet, SetterNow
<1>5. RowsDiffer'
  BY <1>1, <1>2 DEF RowsDiffer, SetterNow, ProfileTypeOK, Rows, Transactions
<1>6. ClosedIsLocked'
  BY <1>1, <1>2 DEF ClosedIsLocked, SetterNow
<1>7. OneInserts' /\ OneActive'
  BY <1>1, <1>2 DEF OneInserts, OneActive, SetterNow
<1>8. Alone'
  BY <1>1, <1>2, <1>3 DEF Alone, SetterNow
<1>9. HistoryIsALine'
  BY <1>2, <1>3 DEF HistoryIsALine
<1> QED
  BY <1>4, <1>5, <1>6, <1>7, <1>8, <1>9

\* A step that changes no row and leaves a transaction with its time.
LEMMA QuietStep ==
  ASSUME ProfileInv, NEW s \in Setters, setter[s].pc # "idle",
         NEW pc \in {"waiting", "closed", "inserted"}, NEW closed \in SUBSET Active,
         SetterNow(s, pc, setter[s].began, closed),
         pc = "waiting" => closed = {},
         \A o \in Setters \ {s} : closed \cap setter[o].closed = {},
         pc = "inserted" => /\ Active \subseteq closed
                            /\ \A o \in Setters \ {s} : setter[o].pc # "inserted",
         UNCHANGED <<facts, erasures, sets, together>>
  PROVE  ProfileInv'
<1> USE DEF ProfileInv
<1>1. Active' = Active
  BY DEF Active
<1>2. ProfileTypeOK'
  BY DEF ProfileTypeOK, SetterNow
<1>3. RowsDiffer'
  BY DEF RowsDiffer, SetterNow
<1>4. ClosedIsLocked'
  BY <1>1 DEF ClosedIsLocked, SetterNow
<1>5. OneInserts' /\ OneActive'
  BY <1>1 DEF OneInserts, OneActive, SetterNow
<1>6. Alone'
  BY DEF Alone, SetterNow
<1>7. HistoryIsALine'
  BY DEF HistoryIsALine
<1> QED
  BY <1>2, <1>3, <1>4, <1>5, <1>6, <1>7

LEMMA FindStep == \A s \in Setters : ProfileInv /\ FindActive(s) => ProfileInv'
<1> SUFFICES ASSUME NEW s \in Setters, ProfileInv, FindActive(s) PROVE ProfileInv'
  OBVIOUS
<1>1. setter[s].pc = "begun" /\ setter[s].closed = {}
  BY DEF FindActive, ProfileInv, ClosedIsLocked
<1>2. SetterNow(s, "waiting", setter[s].began, {})
  BY <1>1, ActiveRows DEF FindActive, SetterNow, ProfileInv, ProfileTypeOK, Transactions
<1> QED
  BY <1>1, <1>2, QuietStep DEF FindActive

LEMMA CloseStep == \A s \in Setters : ProfileInv /\ CloseActive(s) => ProfileInv'
<1> SUFFICES ASSUME NEW s \in Setters, ProfileInv, CloseActive(s) PROVE ProfileInv'
  OBVIOUS
<1> DEFINE found == setter[s].sees \cap Active
<1>1. setter[s].pc = "waiting" /\ \A o \in Setters \ {s} : found \cap setter[o].closed = {}
  BY DEF CloseActive, Locked, Others
<1>2. SetterNow(s, "closed", setter[s].began, found)
  BY ActiveRows DEF CloseActive, SetterNow, ProfileInv, ProfileTypeOK, Transactions
<1> QED
  BY <1>1, <1>2, QuietStep DEF CloseActive

\* A transaction that is rolled back gives up its locks.
LEMMA RollbackStep ==
  ASSUME ProfileInv, NEW s \in Setters, Rollback(s), UNCHANGED <<facts, erasures, sets, together>>
  PROVE  ProfileInv'
<1> USE DEF ProfileInv
<1>1. SetterNow(s, "idle", 0, {}) /\ Active' = Active
  BY DEF Rollback, SetterNow, ProfileTypeOK, NoTransaction, Transactions, Active
<1>2. ProfileTypeOK'
  BY <1>1 DEF ProfileTypeOK, SetterNow
<1>3. RowsDiffer'
  BY <1>1 DEF RowsDiffer, SetterNow
<1>4. ClosedIsLocked'
  BY <1>1 DEF ClosedIsLocked, SetterNow
<1>5. OneInserts' /\ OneActive'
  BY <1>1 DEF OneInserts, OneActive, SetterNow
<1>6. Alone' /\ HistoryIsALine'
  BY <1>1 DEF Alone, HistoryIsALine, SetterNow
<1> QED
  BY <1>2, <1>3, <1>4, <1>5, <1>6

LEMMA InsertStep == \A s \in Setters : ProfileInv /\ InsertNext(s) => ProfileInv'
<1> SUFFICES ASSUME NEW s \in Setters, ProfileInv, InsertNext(s) PROVE ProfileInv'
  OBVIOUS
<1>1. CASE Active \ setter[s].closed = {}
  <2>1. SetterNow(s, "inserted", setter[s].began, setter[s].closed)
    BY <1>1 DEF InsertNext, SetterNow, ProfileInv, ProfileTypeOK, Transactions
  <2>2. /\ setter[s].closed \in SUBSET Active /\ Active \subseteq setter[s].closed
        /\ \A o \in Setters \ {s} : setter[s].closed \cap setter[o].closed = {}
    BY <1>1 DEF ProfileInv, ClosedIsLocked
  <2> QED
    BY <2>1, <2>2, QuietStep DEF InsertNext, Others
<1>2. CASE Active \ setter[s].closed # {}
  BY <1>2, RollbackStep DEF InsertNext
<1> QED
  BY <1>1, <1>2

LEMMA AbortStep == \A s \in Setters : ProfileInv /\ AbortSet(s) => ProfileInv'
BY RollbackStep DEF AbortSet

\* A commit turns the active row, if there is one, into the one before the new row.
LEMMA CommitStep == \A s \in Setters : ProfileInv /\ CommitSet(s) => ProfileInv'
<1> SUFFICES ASSUME NEW s \in Setters, ProfileInv, CommitSet(s) PROVE ProfileInv'
  OBVIOUS
<1> USE DEF ProfileInv
<1> DEFINE begin == setter[s].began
           old == CloseAt(Active, begin)
<1>1. setter[s].pc = "inserted" /\ setter[s].closed = Active /\ begin \in 1 .. sets
  BY DEF CommitSet, OneInserts, ClosedIsLocked, RowsDiffer
<1>2. SetterNow(s, "idle", 0, {}) /\ UNCHANGED <<erasures, sets, together>>
  BY DEF CommitSet, SetterNow, ProfileTypeOK, NoTransaction, Transactions
<1>3. facts' = (facts \ Active) \cup old \cup {FactRow(begin)}
  BY <1>1 DEF CommitSet
<1>4. /\ FactRow(begin) \in Rows /\ FactRow(begin).from = begin /\ FactRow(begin).to = Open
      /\ \A r \in Active : [r EXCEPT !.to = begin] \in Rows /\ r \in Rows
                          /\ [r EXCEPT !.to = begin].from = r.from /\ [r EXCEPT !.to = begin].to = begin
  BY <1>1, ActiveRows DEF FactRow, Rows, Open, ProfileTypeOK
<1>5. \A r \in facts' :
         \/ r \in facts /\ r.to # Open
         \/ r \in old /\ r \in Rows /\ r.to = begin /\ \E a \in Active : a \in facts /\ a.from = r.from
                                                          /\ r = [a EXCEPT !.to = begin]
         \/ r = FactRow(begin)
  BY <1>3, <1>4 DEF Active, CloseAt
<1>6. \A r \in facts : \E q \in facts' : q.from = r.from
  BY <1>3, <1>4 DEF CloseAt
<1>7. Active' = {FactRow(begin)} /\ FactRow(begin) \in facts'
  BY <1>1, <1>3, <1>4, <1>5 DEF Active, Open
<1>8. \A o \in Setters \ {s} : setter[o].closed = {} /\ setter[o].pc # "inserted"
  BY <1>1 DEF ClosedIsLocked, OneInserts
<1> HIDE DEF begin, old
<1>9. ProfileTypeOK'
  <2>1. facts' \in SUBSET Rows
    BY <1>4, <1>5 DEF ProfileTypeOK
  <2> QED
    BY <1>2, <2>1 DEF ProfileTypeOK, SetterNow
<1>10. RowsDiffer'
  <2>1. \A r \in facts' : r.from <= sets /\ r.to <= sets
    BY <1>1, <1>4, <1>5 DEF RowsDiffer, ProfileTypeOK, Rows, Open
  <2>2. \A r, q \in facts' : r.from = q.from => r = q
    BY <1>1, <1>4, <1>5 DEF RowsDiffer, begin, Active
  <2>3. \A o \in Setters : setter'[o].pc # "idle" =>
            setter'[o].began \in 1 .. sets /\ \A r \in facts' : r.from # setter'[o].began
    BY <1>1, <1>2, <1>4, <1>5 DEF RowsDiffer, SetterNow, begin
  <2>4. \A o, p \in Setters : o # p /\ setter'[o].pc # "idle" /\ setter'[p].pc # "idle" =>
            setter'[o].began # setter'[p].began
    BY <1>2 DEF RowsDiffer, SetterNow
  <2> QED
    BY <1>2, <2>1, <2>2, <2>3, <2>4 DEF RowsDiffer
<1>11. ClosedIsLocked'
  BY <1>2, <1>8 DEF ClosedIsLocked, SetterNow
<1>12. OneInserts'
  BY <1>2, <1>8 DEF OneInserts, SetterNow
<1>13. OneActive'
  BY <1>7 DEF OneActive
<1>14. Alone'
  BY <1>2 DEF Alone, SetterNow
<1>15. HistoryIsALine'
  <2> SUFFICES ASSUME ~together
               PROVE  /\ \A r \in facts' : r.to # Open =>
                            r.from < r.to /\ \E next \in facts' : next.from = r.to
                      /\ \A r, q \in facts' : r.from < q.from => r.to # Open /\ r.to <= q.from
    BY <1>2 DEF HistoryIsALine
  <2>1. begin = sets /\ \A r \in facts : r.from \in Nat /\ r.to \in Nat /\ r.from < begin /\ r.to <= begin
    BY <1>1 DEF Alone, RowsDiffer, begin, ProfileTypeOK, Rows
  <2>2. \A r \in facts' : r.to # Open => r.from < r.to /\ \E next \in facts' : next.from = r.to
    BY <1>4, <1>5, <1>6, <1>7, <2>1 DEF HistoryIsALine
  <2>3. ASSUME NEW r \in facts', NEW q \in facts', r.from < q.from
        PROVE  r.to # Open /\ r.to <= q.from
    <3>1. CASE r = FactRow(begin)
      <4>1. r.from = begin /\ begin \in Nat /\ q.from \in Nat
        BY <1>4, <1>9, <2>1, <3>1 DEF ProfileTypeOK, Rows
      <4>2. q.from <= begin
        BY <1>4, <1>5, <2>1, <4>1
      <4> QED
        BY <2>3, <4>1, <4>2
    <3>2. CASE r \in old
      BY <1>1, <1>4, <1>5, <2>1, <2>3, <3>2 DEF HistoryIsALine, Active, Open
    <3>3. CASE r \in facts /\ r.to # Open
      BY <1>4, <1>5, <2>1, <2>3, <3>3 DEF HistoryIsALine
    <3> QED
      BY <1>5, <3>1, <3>2, <3>3
  <2> QED
    BY <2>2, <2>3
<1> QED
  BY <1>9, <1>10, <1>11, <1>12, <1>13, <1>14, <1>15

\* A deletion takes every row, or leaves the active one.
LEMMA EraseStep ==
  ASSUME ProfileInv, NEW seen, Erase(seen),
         \/ seen = {r.from : r \in facts}
         \/ Active # {} /\ seen = {r.from : r \in facts \ Active}
  PROVE  ProfileInv'
<1> USE DEF ProfileInv
<1>1. /\ facts' \subseteq facts /\ UNCHANGED <<setter, sets, together>> /\ erasures' \in Nat
      /\ \A s \in Setters : setter[s].closed = {}
  BY DEF Erase, ProfileTypeOK
<1>2. facts' = {} \/ (Active # {} /\ facts' = Active)
  <2>1. CASE seen = {r.from : r \in facts}
    BY <2>1 DEF Erase
  <2>2. CASE Active # {} /\ seen = {r.from : r \in facts \ Active}
    <3>1. \A r \in facts : r \in facts' <=> r.from \notin seen
      BY DEF Erase
    <3>2. \A r \in facts : r.from \in seen <=> r \notin Active
      BY <2>2 DEF RowsDiffer
    <3> QED
      BY <1>1, <2>2, <3>1, <3>2 DEF Active
  <2> QED
    BY <2>1, <2>2
<1>3. Active' = facts' /\ Active' \subseteq Active
  BY <1>1, <1>2 DEF Active
<1>4. ProfileTypeOK' /\ RowsDiffer' /\ Alone'
  BY <1>1 DEF ProfileTypeOK, RowsDiffer, Alone
<1>5. ClosedIsLocked' /\ OneInserts'
  BY <1>1, <1>3 DEF ClosedIsLocked, OneInserts
<1>6. OneActive' /\ HistoryIsALine'
  BY <1>1, <1>2, <1>3 DEF OneActive, HistoryIsALine, Active
<1> QED
  BY <1>4, <1>5, <1>6

LEMMA ProfileStep == ProfileInv /\ [ProfileNext]_profileVars => ProfileInv'
<1> SUFFICES ASSUME ProfileInv, [ProfileNext]_profileVars PROVE ProfileInv'
  OBVIOUS
<1>1. CASE UNCHANGED profileVars
  BY <1>1 DEF profileVars, ProfileInv, ProfileTypeOK, RowsDiffer, ClosedIsLocked, OneInserts,
              OneActive, Alone, HistoryIsALine, Active
<1>2. ASSUME NEW s \in Setters,
             \/ BeginSet(s) \/ FindActive(s) \/ CloseActive(s)
             \/ InsertNext(s) \/ CommitSet(s) \/ AbortSet(s)
      PROVE  ProfileInv'
  BY <1>2, BeginStep, FindStep, CloseStep, InsertStep, CommitStep, AbortStep
<1>3. CASE \/ Erase({r.from : r \in facts})
           \/ Active # {} /\ Erase({r.from : r \in facts \ Active})
  BY <1>3, EraseStep
<1> QED
  BY <1>1, <1>2, <1>3 DEF ProfileNext

\* What the invariant says of the rows is the property.
LEMMA ProfileInvSuffices == ProfileInv => FactHasOneValue
<1> SUFFICES ASSUME ProfileInv PROVE FactHasOneValue
  OBVIOUS
<1>1. facts # {} => Cardinality(Active) = 1
  BY FS_Singleton DEF ProfileInv, OneActive
<1> QED
  BY <1>1 DEF ProfileInv, HistoryIsALine, FactHasOneValue, Active

\* A fact that was set has one current value at any time, and a history that is a line
\* unless set_value calls overlapped: for any number of them, and of deletions, in any
\* order (PostgresProfileStore.set_value, delete_key).
THEOREM FactCorrect == ProfileSpec => []FactHasOneValue
<1>1. ProfileSpec => []ProfileInv
  BY ProfileInitial, ProfileStep, PTL DEF ProfileSpec
<1> QED
  BY <1>1, ProfileInvSuffices, PTL

-----------------------------------------------------------------------------
(***************************************************************************)
(* The connection pool.                                                    *)
(***************************************************************************)
Operations ==
    [pc : {"idle", "asking", "creating", "waiting", "holding"}, store : Stores \cup {NoStore},
     goal : {"none", "ensure", "work"}, pool : Nat, held : SUBSET ({"ensure", "work"} \X Nat)]

PoolTypeOK ==
    /\ cachedPool \in Nat /\ madePools \in Nat /\ tableReady \in [Stores -> BOOLEAN]
    /\ client \in [Clients -> Operations]

\* An operation that is between connections has at most one, that of its statement,
\* and then it is one of a collection store on its way to create the table.
Between(op) ==
    op.pc # "holding" =>
        \/ op.held = {}
        \/ op.store \in Nested /\ op.goal = "ensure" /\ \E h \in op.held : h[1] = "work" /\ op.held = {h}

\* It wants the connection of its statement first only if nothing has to be created,
\* or its store is a collection store.
Ordered(op, ready) ==
    op.pc # "idle" => /\ op.store \in Stores /\ op.goal \in {"ensure", "work"}
                      /\ op.goal = "work" => op.store \in Nested \/ ready[op.store]

PoolInv == PoolTypeOK /\ \A c \in Clients : Between(client[c]) /\ Ordered(client[c], tableReady)

LEMMA PoolInitial == PoolInit => PoolInv
BY PoolAssumption DEF PoolInit, PoolInv, PoolTypeOK, Between, Ordered, NoOperation, Operations

LEMMA NoOperationIsSane == NoOperation \in Operations /\ Between(NoOperation) /\ Ordered(NoOperation, tableReady')
BY DEF NoOperation, Operations, Between, Ordered

\* A step of one client that leaves it as it should be, and tables as they are or ready.
LEMMA BecomeStep ==
  ASSUME PoolInv, NEW c \in Clients, NEW op \in Operations, BecomeClient(c, op),
         Between(op), Ordered(op, tableReady'), cachedPool' \in Nat, madePools' \in Nat,
         tableReady' \in [Stores -> BOOLEAN], \A s \in Stores : tableReady[s] => tableReady'[s]
  PROVE  PoolInv'
<1>1. PoolTypeOK'
  BY DEF PoolInv, PoolTypeOK, BecomeClient
<1>2. ASSUME NEW d \in Clients PROVE Between(client'[d]) /\ Ordered(client'[d], tableReady')
  <2>1. CASE d = c
    <3>1. client'[c] = op
      BY DEF BecomeClient, PoolInv, PoolTypeOK
    <3> QED
      BY <2>1, <3>1 DEF Between, Ordered
  <2>2. CASE d # c
    <3>1. client'[d] = client[d]
      BY <2>2 DEF BecomeClient, PoolInv, PoolTypeOK
    <3> QED
      BY <3>1 DEF Between, Ordered, PoolInv
  <2> QED
    BY <2>1, <2>2
<1> QED
  BY <1>1, <1>2 DEF PoolInv

LEMMA PoolStep == PoolInv /\ [PoolNext]_poolVars => PoolInv'
<1> SUFFICES ASSUME PoolInv, [PoolNext]_poolVars PROVE PoolInv'
  OBVIOUS
<1>1. CASE UNCHANGED poolVars
  BY <1>1 DEF poolVars, PoolInv, PoolTypeOK, Between, Ordered
<1> SUFFICES ASSUME NEW c \in Clients,
                    \/ Start(c) \/ AskPool(c) \/ PoolCreated(c) \/ Acquire(c)
                    \/ TableEnsured(c) \/ Finish(c)
             PROVE  PoolInv'
  BY <1>1 DEF PoolNext
<1> DEFINE op == client[c]
<1>2. op \in Operations /\ Between(op) /\ Ordered(op, tableReady) /\ tableReady \in [Stores -> BOOLEAN]
      /\ cachedPool \in Nat /\ madePools \in Nat
  BY DEF PoolInv, PoolTypeOK
<1>3. CASE Start(c)
  <2>1. PICK s \in Stores : BecomeClient(c, [NoOperation EXCEPT !.pc = "asking", !.store = s,
                                                                !.goal = FirstGoal(s)])
    BY <1>3 DEF Start
  <2> DEFINE goal == FirstGoal(s)
             t    == [NoOperation EXCEPT !.pc = "asking", !.store = s, !.goal = goal]
  <2>2. goal \in {"ensure", "work"} /\ (goal = "work" => s \in Nested \/ tableReady[s])
    BY DEF FirstGoal
  <2> HIDE DEF goal
  <2>3. t \in Operations /\ Between(t) /\ Ordered(t, tableReady')
    BY <1>3, <2>2 DEF NoOperation, Operations, Between, Ordered, Start
  <2> HIDE DEF t
  <2> QED
    BY <1>2, <1>3, <2>1, <2>3, BecomeStep DEF Start, goal, t
<1>4. CASE AskPool(c)
  <2> DEFINE pc == IF cachedPool = 0 THEN "creating" ELSE "waiting"
             t  == [op EXCEPT !.pc = pc, !.pool = cachedPool]
  <2>1. pc \in {"creating", "waiting"}
    OBVIOUS
  <2> HIDE DEF pc
  <2>2. t \in Operations /\ Between(t) /\ Ordered(t, tableReady')
    BY <1>2, <1>4, <2>1 DEF Operations, Between, Ordered, AskPool
  <2> HIDE DEF t
  <2> QED
    BY <1>2, <1>4, <2>2, BecomeStep DEF AskPool, pc, t
<1>5. CASE PoolCreated(c)
  <2> DEFINE p == madePools + 1
             t == [op EXCEPT !.pc = "waiting", !.pool = p]
  <2>1. p \in Nat
    BY <1>2
  <2> HIDE DEF p
  <2>2. t \in Operations /\ Between(t) /\ Ordered(t, tableReady')
    BY <1>2, <1>5, <2>1 DEF Operations, Between, Ordered, PoolCreated
  <2> HIDE DEF t
  <2> QED
    BY <1>2, <1>5, <2>1, <2>2, BecomeStep DEF PoolCreated, p, t
<1>6. CASE Acquire(c)
  <2>1. CASE op.goal = "work" /\ ~tableReady[op.store]
    <3> DEFINE held == op.held \cup {<<op.goal, op.pool>>}
               t    == [op EXCEPT !.held = held, !.pc = "asking", !.goal = "ensure"]
    <3>1. held = {<<"work", op.pool>>} /\ op.pool \in Nat /\ op.store \in Nested
      BY <1>2, <1>6, <2>1 DEF Between, Ordered, Acquire, Operations
    <3>2. held \in SUBSET ({"ensure", "work"} \X Nat)
      BY <3>1
    <3> HIDE DEF held
    <3>3. t \in Operations /\ t.held = held /\ t.pc = "asking" /\ t.goal = "ensure"
          /\ t.store = op.store
      BY <1>2, <3>2 DEF Operations
    <3>4. BecomeClient(c, t)
      BY <1>6, <2>1 DEF Acquire, held
    <3> HIDE DEF t
    <3>5. Between(t) /\ Ordered(t, tableReady')
      BY <3>1, <3>3, PoolAssumption DEF Between, Ordered
    <3> QED
      BY <1>2, <1>6, <3>3, <3>4, <3>5, BecomeStep DEF Acquire
  <2>2. CASE ~(op.goal = "work" /\ ~tableReady[op.store])
    <3> DEFINE held == op.held \cup {<<op.goal, op.pool>>}
               t    == [op EXCEPT !.held = held, !.pc = "holding", !.goal = op.goal]
    <3>1. held \in SUBSET ({"ensure", "work"} \X Nat)
      BY <1>2, <1>6 DEF Ordered, Acquire, Operations
    <3> HIDE DEF held
    <3>2. t \in Operations /\ Between(t) /\ Ordered(t, tableReady')
      BY <1>2, <1>6, <3>1 DEF Operations, Between, Ordered, Acquire
    <3>3. BecomeClient(c, t)
      BY <1>6, <2>2 DEF Acquire, held
    <3> HIDE DEF t
    <3> QED
      BY <1>2, <1>6, <3>2, <3>3, BecomeStep DEF Acquire
  <2> QED
    BY <2>1, <2>2
<1>7. CASE TableEnsured(c)
  <2> DEFINE held == {h \in op.held : h[1] = "work"}
             pc   == IF \E h \in op.held : h[1] = "work" THEN "holding" ELSE "asking"
             t    == [op EXCEPT !.held = held, !.goal = "work", !.pc = pc]
  <2>1. held \in SUBSET ({"ensure", "work"} \X Nat) /\ pc \in {"holding", "asking"}
        /\ (pc # "holding" => held = {})
    BY <1>2 DEF Operations
  <2>2. BecomeClient(c, t)
    BY <1>7 DEF TableEnsured
  <2>3. op.store \in Stores /\ tableReady' = [tableReady EXCEPT ![op.store] = TRUE]
        /\ UNCHANGED <<cachedPool, madePools>>
    BY <1>2, <1>7 DEF TableEnsured, Ordered
  <2>4. /\ tableReady' \in [Stores -> BOOLEAN] /\ tableReady'[op.store]
        /\ \A s \in Stores : tableReady[s] => tableReady'[s]
    BY <1>2, <2>3
  <2> HIDE DEF held, pc
  <2>5. t \in Operations /\ Between(t) /\ Ordered(t, tableReady')
    BY <1>2, <2>1, <2>3, <2>4 DEF Operations, Between, Ordered
  <2> HIDE DEF t
  <2> QED
    BY <1>2, <2>2, <2>3, <2>4, <2>5, BecomeStep
<1>8. CASE Finish(c)
  BY <1>2, <1>8, BecomeStep, NoOperationIsSane DEF Finish
<1> QED
  BY <1>3, <1>4, <1>5, <1>6, <1>7, <1>8

\* Of operations that wait each has one connection: there are as many.
LEMMA PoolInvSuffices == PoolInv => OnlyFirstUseWedgesPool
<1> SUFFICES ASSUME PoolInv, NEW p \in 1 .. madePools,
                    Cardinality(Connections(p)) = PoolSize,
                    \A c \in {c \in Clients : \E h \in client[c].held : h[2] = p} : Waits(c, p)
             PROVE  LET holders == {c \in Clients : \E h \in client[c].held : h[2] = p}
                    IN  /\ Cardinality(holders) = PoolSize
                        /\ \A c \in holders : client[c].store \in Nested
  BY DEF OnlyFirstUseWedgesPool
<1> DEFINE holders == {c \in Clients : \E h \in client[c].held : h[2] = p}
           f == [c \in holders |-> <<c, "work">>]
<1>1. ASSUME NEW c \in holders PROVE client[c].held = {<<"work", p>>} /\ client[c].store \in Nested
  <2>1. Waits(c, p) /\ Between(client[c]) /\ client[c].held # {}
    BY DEF PoolInv
  <2>2. client[c].held \subseteq {"ensure", "work"} \X Nat
    BY DEF PoolInv, PoolTypeOK, Operations
  <2>3. PICK h \in client[c].held : h[1] = "work" /\ client[c].held = {h}
    BY <2>1 DEF Waits, Between
  <2>4. h = <<"work", p>>
    BY <2>2, <2>3
  <2> QED
    BY <2>1, <2>3, <2>4 DEF Waits, Between
<1>2. IsFiniteSet(holders)
  BY FS_Subset, PoolAssumption
<1>3. Connections(p) = {<<c, "work">> : c \in holders}
  <2>1. ASSUME NEW x \in Connections(p) PROVE x \in {<<c, "work">> : c \in holders}
    <3>1. PICK c \in Clients, goal \in {"ensure", "work"} :
              x = <<c, goal>> /\ <<goal, p>> \in client[c].held
      BY DEF Connections
    <3>2. c \in holders
      BY <3>1
    <3>3. goal = "work"
      <4>1. client[c].held = {<<"work", p>>}
        BY <1>1, <3>2
      <4> QED
        BY <3>1, <4>1
    <3> QED
      BY <3>1, <3>2, <3>3
  <2>2. ASSUME NEW c \in holders PROVE <<c, "work">> \in Connections(p)
    BY <1>1 DEF Connections
  <2> QED
    BY <2>1, <2>2
<1>4. f \in Surjection(holders, Connections(p)) /\ f \in Injection(holders, Connections(p))
  BY <1>3 DEF Surjection, Injection, IsInjective
<1>5. Cardinality(holders) = PoolSize
  BY <1>2, <1>4, FS_Surjection
<1> QED
  BY <1>1, <1>5

\* The pool is exhausted for good only by as many overlapping first uses of collection
\* stores as it has connections: for any number of stores and operations and any size
\* (get_pool, append and _ensure_table of the PostgreSQL stores).
THEOREM PoolCorrect == PoolSpec => []OnlyFirstUseWedgesPool
<1>1. PoolSpec => []PoolInv
  BY PoolInitial, PoolStep, PTL DEF PoolSpec
<1> QED
  BY <1>1, PoolInvSuffices, PTL
-----------------------------------------------------------------------------
(***************************************************************************)
(* The audit file.                                                         *)
(***************************************************************************)
Events == [id : Nat, prev : Nat]
LoggerStates ==
    [state : {"none", "open", "closing", "closed"}, queued : BOOLEAN, last : Nat,
     queue : Seq(Events), worker : {"none", "running", "done"}]

AuditTypeOK ==
    /\ trail \in Seq(Events) /\ logger \in [Loggers -> LoggerStates]
    /\ logged \in Nat /\ crashes \in Nat /\ faults \in SUBSET {"shared", "torn", "lost", "late"}

QueueIsOfQueued ==
    \A l \in Loggers : /\ ~logger[l].queued => logger[l].queue = <<>>
                       /\ logger[l].state = "none" => ~logger[l].queued

Chain(s)    == Verified(s) /\ \A n \in DOMAIN s : s[n].id # 0
LastId(s)   == IF s = <<>> THEN Genesis ELSE s[Len(s)].id
Numbered(s) == \A n \in DOMAIN s : s[n].id = n

\* What the file will be once the queue is written.
Whole(l) == trail \o logger[l].queue

\* Without a fault that shows, one store at a time continues the chain of the file.
OneChain ==
    faults \cap Breaks = {} =>
        /\ \A l, m \in Live : l = m
        /\ Chain(trail)
        /\ \A l \in Live : Chain(Whole(l)) /\ logger[l].last = LastId(Whole(l))

\* Without any fault it holds each event once.
AllEvents ==
    faults = {} /\ crashes = 0 =>
        /\ Live = {} => Numbered(trail) /\ Len(trail) = logged
        /\ \A l \in Live : Numbered(Whole(l)) /\ Len(Whole(l)) = logged

AuditInv == AuditTypeOK /\ QueueIsOfQueued /\ OneChain /\ AllEvents

\* What Written does to a file without a cut-off line, and a cut to any.
LEMMA WrittenLines ==
  ASSUME NEW lines \in Seq(Events), NEW new \in Seq(Events)
  PROVE  /\ Written(lines, new) \in Seq(Events) /\ CutOff(lines) \in Seq(Events)
         /\ Chain(lines) => Written(lines, new) = lines \o new
<1>1. Torn \in Events /\ Torn.id = 0
  BY DEF Torn, Events
<1>2. Written(lines, new) \in Seq(Events) /\ CutOff(lines) \in Seq(Events)
  BY <1>1, ConcatProperties, AppendProperties DEF Written, CutOff
<1>3. ASSUME Chain(lines) PROVE Written(lines, new) = lines \o new
  <2>1. CASE new = <<>>
    BY <2>1, ConcatEmptySeq DEF Written
  <2>2. CASE new # <<>>
    <3>1. lines # <<>> => Last(lines) # Torn
      BY <1>1, <1>3, EmptySeq, LenProperties DEF Chain, Last
    <3> QED
      BY <2>2, <3>1 DEF Written
  <2> QED
    BY <2>1, <2>2
<1> QED
  BY <1>2, <1>3

LEMMA PrefixOfChain ==
  ASSUME NEW s \in Seq(Events), NEW t \in Seq(Events)
  PROVE  /\ Chain(s \o t) => Chain(s)
         /\ Numbered(s \o t) => Numbered(s)
<1>1. /\ s \o t \in Seq(Events) /\ Len(s \o t) = Len(s) + Len(t)
      /\ Len(s) \in Nat /\ Len(t) \in Nat /\ DOMAIN s = 1 .. Len(s)
      /\ DOMAIN (s \o t) = 1 .. Len(s) + Len(t)
      /\ \A n \in 1 .. Len(s) : (s \o t)[n] = s[n]
  BY ConcatProperties, LenProperties
<1>2. \A n \in 1 .. Len(s) : n \in 1 .. Len(s) + Len(t) /\ (n # 1 => n - 1 \in 1 .. Len(s))
  BY <1>1
<1> QED
  BY <1>1, <1>2 DEF Chain, Verified, Numbered

LEMMA Together ==
  \A s, t, u \in Seq(Events) : (s \o t) \o u = s \o (t \o u)
BY ConcatAssociative

LEMMA SplitAt ==
  ASSUME NEW q \in Seq(Events), NEW n \in 0 .. Len(q)
  PROVE  /\ SubSeq(q, 1, n) \in Seq(Events) /\ SubSeq(q, n + 1, Len(q)) \in Seq(Events)
         /\ SubSeq(q, 1, n) \o SubSeq(q, n + 1, Len(q)) = q
<1>1. Len(q) \in Nat
  BY LenProperties
<1>2. SubSeq(q, 1, n) \in Seq(Events) /\ SubSeq(q, n + 1, Len(q)) \in Seq(Events)
  BY <1>1, SubSeqProperties, ElementOfSeq
<1>3. 1 \in 1 .. Len(q) + 1 /\ n \in 1 - 1 .. Len(q) /\ Len(q) \in n .. Len(q)
  BY <1>1
<1>4. SubSeq(q, 1, n) \o SubSeq(q, n + 1, Len(q)) = SubSeq(q, 1, Len(q))
  BY <1>3, ConcatAdjacentSubSeq
<1>5. SubSeq(q, 1, Len(q)) = q
  BY SubSeqFull
<1> QED
  BY <1>2, <1>4, <1>5

LEMMA AppendToSecond ==
  ASSUME NEW s \in Seq(Events), NEW t \in Seq(Events), NEW e \in Events
  PROVE  /\ s \o t \in Seq(Events) /\ Append(t, e) \in Seq(Events)
         /\ s \o Append(t, e) = Append(s \o t, e)
<1>1. <<e>> \in Seq(Events)
  OBVIOUS
<1>2. s \o t \in Seq(Events) /\ Append(t, e) \in Seq(Events)
  BY ConcatProperties, AppendProperties
<1>3. Append(t, e) = t \o <<e>> /\ Append(s \o t, e) = (s \o t) \o <<e>>
  BY <1>2, AppendIsConcat
<1>4. (s \o t) \o <<e>> = s \o (t \o <<e>>)
  BY <1>1, ConcatAssociative
<1> QED
  BY <1>2, <1>3, <1>4, Zenon

LEMMA LastIdType == \A s \in Seq(Events) : LastId(s) \in Nat
<1> TAKE s \in Seq(Events)
<1>1. CASE s = <<>>
  BY <1>1 DEF LastId, Genesis
<1>2. CASE s # <<>>
  <2>1. Len(s) \in 1 .. Len(s)
    BY <1>2, EmptySeq
  <2>2. s[Len(s)] \in Events
    BY <2>1, ElementOfSeq
  <2> QED
    BY <1>2, <2>2 DEF LastId, Events
<1> QED
  BY <1>1, <1>2

LEMMA ChainGrows ==
  ASSUME NEW s \in Seq(Events), NEW e \in Events, e.id # 0
  PROVE  /\ s \o <<e>> = Append(s, e) /\ LastId(Append(s, e)) = e.id
         /\ Append(s, e) \in Seq(Events) /\ Len(Append(s, e)) = Len(s) + 1
         /\ Chain(s) /\ e.prev = LastId(s) => Chain(Append(s, e))
         /\ Numbered(s) /\ e.id = Len(s) + 1 => Numbered(Append(s, e))
<1> DEFINE u == Append(s, e)
<1>1. /\ u \in Seq(Events) /\ u # <<>> /\ Len(u) = Len(s) + 1 /\ Len(s) \in Nat
      /\ DOMAIN s = 1 .. Len(s) /\ DOMAIN u = 1 .. Len(s) + 1
      /\ \A n \in 1 .. Len(s) : u[n] = s[n]
      /\ u[Len(s) + 1] = e
  BY AppendProperties, LenProperties
<1>2. s \o <<e>> = u
  BY AppendIsConcat
<1>3. s = <<>> <=> Len(s) = 0
  BY EmptySeq
<1> HIDE DEF u
<1>4. LastId(u) = e.id
  BY <1>1 DEF LastId
<1>5. ASSUME Chain(s), e.prev = LastId(s) PROVE Chain(u)
  <2> SUFFICES ASSUME NEW n \in DOMAIN u
               PROVE  u[n].prev = (IF n = 1 THEN Genesis ELSE u[n - 1].id) /\ u[n].id # 0
    BY DEF Chain, Verified
  <2>1. CASE n \in 1 .. Len(s)
    BY <1>1, <1>5, <2>1 DEF Chain, Verified
  <2>2. CASE n = Len(s) + 1
    BY <1>1, <1>3, <1>5, <2>2 DEF LastId
  <2> QED
    BY <1>1, <2>1, <2>2
<1>6. ASSUME Numbered(s), e.id = Len(s) + 1 PROVE Numbered(u)
  BY <1>1, <1>6 DEF Numbered
<1> QED
  BY <1>1, <1>2, <1>4, <1>5, <1>6 DEF u

LEMMA AuditInitial == AuditInit => AuditInv
<1> SUFFICES ASSUME AuditInit PROVE AuditInv
  OBVIOUS
<1>1. trail = <<>> /\ trail \in Seq(Events) /\ DOMAIN trail = {} /\ Len(trail) = 0
  BY EmptySeq, LenProperties DEF AuditInit
<1>2. Live = {}
  BY DEF AuditInit, NoLogger, Live
<1>3. AuditTypeOK /\ QueueIsOfQueued
  BY <1>1 DEF AuditInit, NoLogger, AuditTypeOK, QueueIsOfQueued, LoggerStates, Genesis
<1>4. OneChain /\ AllEvents
  BY <1>1, <1>2 DEF OneChain, AllEvents, Chain, Verified, Numbered, AuditInit
<1> QED
  BY <1>3, <1>4 DEF AuditInv

\* What a step makes of logger l, whose record becomes t.
LoggerNow(l, t) ==
    /\ logger' \in [Loggers -> LoggerStates] /\ logger'[l] = t
    /\ \A m \in Loggers \ {l} : logger'[m] = logger[m]

LEMMA LoggerBecomes ==
  ASSUME AuditTypeOK, NEW l \in Loggers, NEW t \in LoggerStates,
         logger' = [logger EXCEPT ![l] = t]
  PROVE  LoggerNow(l, t)
BY DEF AuditTypeOK, LoggerNow

\* The live loggers after a step of l, and what the file will be by them.
LEMMA LiveNow ==
  ASSUME AuditTypeOK, NEW l \in Loggers, NEW t \in LoggerStates, LoggerNow(l, t)
  PROVE  /\ l \in Live' <=> t.state \in {"open", "closing"}
         /\ \A m \in Loggers \ {l} : m \in Live' <=> m \in Live
         /\ Whole(l)' = trail' \o t.queue
         /\ trail' = trail => \A m \in Loggers \ {l} : Whole(m)' = Whole(m)
BY DEF Live, LoggerNow, Whole

LEMMA OpenStep == \A l \in Loggers : AuditInv /\ OpenLogger(l) => AuditInv'
<1> SUFFICES ASSUME NEW l \in Loggers, AuditInv, OpenLogger(l) PROVE AuditInv'
  OBVIOUS
<1> USE DEF AuditInv
<1>1. PICK q \in BOOLEAN : logger' = [logger EXCEPT ![l] =
             [NoLogger EXCEPT !.state = "open", !.queued = q,
                              !.last = IF trail = <<>> THEN Genesis ELSE Last(trail).id]]
  BY DEF OpenLogger
<1> DEFINE last == LastId(trail)
           t == [NoLogger EXCEPT !.state = "open", !.queued = q, !.last = last]
<1>2. last \in Nat
  BY LastIdType DEF AuditTypeOK
<1>3. logger' = [logger EXCEPT ![l] = t]
  BY <1>1 DEF LastId, Last
<1> HIDE DEF last
<1>4. t \in LoggerStates /\ t.state = "open" /\ t.queue = <<>> /\ t.last = last
  BY <1>2, EmptySeq DEF NoLogger, LoggerStates
<1> HIDE DEF t
<1>5. LoggerNow(l, t)
  BY <1>3, <1>4, LoggerBecomes
<1>6. /\ l \in Live' /\ \A m \in Loggers \ {l} : m \in Live' <=> m \in Live
      /\ Whole(l)' = trail /\ \A m \in Loggers \ {l} : Whole(m)' = Whole(m)
  BY <1>4, <1>5, LiveNow, ConcatEmptySeq DEF OpenLogger, AuditTypeOK
<1>7. AuditTypeOK'
  BY <1>5 DEF AuditTypeOK, OpenLogger, LoggerNow
<1>8. QueueIsOfQueued'
  BY <1>4, <1>5 DEF QueueIsOfQueued, LoggerNow
<1>9. OneChain'
  <2> SUFFICES ASSUME faults' \cap Breaks = {}
               PROVE  /\ \A m, n \in Live' : m = n
                      /\ Chain(trail')
                      /\ \A m \in Live' : Chain(Whole(m)') /\ logger'[m].last = LastId(Whole(m)')
    BY DEF OneChain
  <2>1. Live = {} /\ faults' = faults
    BY DEF OpenLogger, Breaks
  <2>2. Live' = {l}
    BY <1>6, <2>1 DEF Live
  <2> QED
    BY <1>4, <1>5, <1>6, <2>1, <2>2 DEF OneChain, OpenLogger, LoggerNow, last
<1>10. AllEvents'
  <2> SUFFICES ASSUME faults' = {}, crashes' = 0
               PROVE  \A m \in Live' : Numbered(Whole(m)') /\ Len(Whole(m)') = logged'
    BY <1>6 DEF AllEvents
  <2>1. Live = {} /\ faults' = faults
    BY DEF OpenLogger
  <2>2. Live' = {l}
    BY <1>6, <2>1 DEF Live
  <2> QED
    BY <1>6, <2>1, <2>2 DEF AllEvents, OpenLogger
<1> QED
  BY <1>7, <1>8, <1>9, <1>10

\* With a fault that shows there is nothing to say of the chain.
LEMMA BrokenStep ==
  ASSUME AuditTypeOK', QueueIsOfQueued', faults' \cap Breaks # {}
  PROVE  AuditInv'
BY DEF AuditInv, OneChain, AllEvents

\* A step of a live logger that adds the event to what the file will be, or leaves
\* that as it is and may be the last one of the logger.
LEMMA LiveStep ==
  ASSUME AuditInv, NEW l \in Live, NEW t \in LoggerStates, LoggerNow(l, t),
         t.state \in {"open", "closing"} \/ (t.state = "closed" /\ t.queue = <<>>),
         t.queued = logger[l].queued, ~t.queued => t.queue = <<>>,
         trail' \in Seq(Events), UNCHANGED <<crashes, faults>>,
         \/ /\ t.last = logged + 1 /\ logged' = logged + 1 /\ t.state # "closed"
            /\ Chain(trail) => trail' \o t.queue = Append(Whole(l), Event(l))
         \/ /\ t.last = logger[l].last /\ logged' = logged
            /\ Chain(trail) => trail' \o t.queue = Whole(l)
  PROVE  AuditInv'
<1> USE DEF AuditInv
<1>1. l \in Loggers /\ Live' \subseteq Loggers /\ Live \subseteq Loggers
  BY DEF Live
<1>2. /\ l \in Live' <=> t.state # "closed"
      /\ \A m \in Loggers \ {l} : m \in Live' <=> m \in Live
      /\ Whole(l)' = trail' \o t.queue
  BY <1>1, LiveNow
<1>3. /\ Event(l) \in Events /\ Event(l).id = logged + 1 /\ Event(l).prev = logger[l].last
      /\ logged + 1 # 0 /\ logger[l].queue \in Seq(Events) /\ t.queue \in Seq(Events)
      /\ logged + 1 \in Nat /\ trail \in Seq(Events)
  BY <1>1 DEF Event, Events, AuditTypeOK, LoggerStates
<1>4. Whole(l) \in Seq(Events)
  BY <1>3, ConcatProperties DEF Whole
<1>5. AuditTypeOK'
  BY <1>3 DEF AuditTypeOK, LoggerNow
<1>6. QueueIsOfQueued'
  BY DEF QueueIsOfQueued, LoggerNow
<1>7. ASSUME faults' \cap Breaks = {}
      PROVE  /\ \A m \in Live' : m = l
             /\ Chain(Whole(l)') /\ t.last = LastId(Whole(l)') /\ Chain(trail')
  <2>1. /\ \A m \in Live : m = l
        /\ Chain(trail) /\ Chain(Whole(l)) /\ logger[l].last = LastId(Whole(l))
    BY <1>7 DEF OneChain
  <2>2. \A m \in Live' : m = l
    BY <1>1, <1>2, <2>1
  <2>3. Chain(Whole(l)') /\ t.last = LastId(Whole(l)')
    <3>1. CASE t.last = logged + 1 /\ trail' \o t.queue = Append(Whole(l), Event(l))
      <4>1. /\ LastId(Append(Whole(l), Event(l))) = logged + 1
            /\ Chain(Append(Whole(l), Event(l)))
        BY <1>3, <1>4, <2>1, ChainGrows
      <4>2. Whole(l)' = Append(Whole(l), Event(l))
        BY <1>2, <3>1
      <4> QED
        BY <3>1, <4>1, <4>2
    <3>2. CASE t.last = logger[l].last /\ trail' \o t.queue = Whole(l)
      BY <1>2, <2>1, <3>2
    <3> QED
      BY <2>1, <3>1, <3>2
  <2>4. Chain(trail')
    <3>1. Chain(trail' \o t.queue)
      BY <1>2, <2>3
    <3> QED
      BY <1>3, <3>1, PrefixOfChain
  <2> QED
    BY <2>2, <2>3, <2>4
<1>8. OneChain'
  BY <1>7 DEF OneChain, LoggerNow
<1>9. AllEvents'
  <2> SUFFICES ASSUME faults' = {}, crashes' = 0
               PROVE  /\ Live' = {} => Numbered(trail') /\ Len(trail') = logged'
                      /\ \A m \in Live' : Numbered(Whole(m)') /\ Len(Whole(m)') = logged'
    BY DEF AllEvents
  <2>1. /\ \A m \in Live' : m = l
        /\ Numbered(Whole(l)) /\ Len(Whole(l)) = logged /\ Chain(trail)
    BY <1>7 DEF OneChain, AllEvents
  <2>2. Numbered(Whole(l)') /\ Len(Whole(l)') = logged'
    <3>1. CASE logged' = logged + 1 /\ trail' \o t.queue = Append(Whole(l), Event(l))
      BY <1>2, <1>3, <1>4, <2>1, <3>1, ChainGrows
    <3>2. CASE logged' = logged /\ trail' \o t.queue = Whole(l)
      BY <1>2, <2>1, <3>2
    <3> QED
      BY <2>1, <3>1, <3>2
  <2>3. Live' = {} => t.queue = <<>> /\ trail' = Whole(l)'
    BY <1>2, ConcatEmptySeq
  <2> QED
    BY <2>1, <2>2, <2>3
<1> QED
  BY <1>5, <1>6, <1>8, <1>9

\* A logger that is shut down writes nothing any more.
LEMMA ClosedStep ==
  ASSUME AuditInv, NEW l \in Loggers, logger[l].state = "closed",
         NEW t \in LoggerStates, LoggerNow(l, t), t.state = "closed", t.queued = logger[l].queued,
         ~t.queued => t.queue = <<>>, UNCHANGED <<trail, crashes>>, logged' \in Nat,
         \/ UNCHANGED <<logged, faults>>
         \/ faults' = faults \cup {"late"}
  PROVE  AuditInv'
<1> USE DEF AuditInv
<1>1. /\ Live' = Live /\ l \notin Live /\ Live \subseteq Loggers
      /\ \A m \in Live : Whole(m)' = Whole(m) /\ logger'[m] = logger[m]
  BY DEF Live, LoggerNow, Whole
<1>2. AuditTypeOK'
  BY DEF AuditTypeOK, LoggerNow
<1>3. QueueIsOfQueued'
  BY DEF QueueIsOfQueued, LoggerNow
<1>4. OneChain'
  BY <1>1 DEF OneChain, Breaks
<1>5. AllEvents'
  BY <1>1 DEF AllEvents
<1> QED
  BY <1>2, <1>3, <1>4, <1>5

LEMMA LogNowStep == \A l \in Loggers : AuditInv /\ LogNow(l) => AuditInv'
<1> SUFFICES ASSUME NEW l \in Loggers, AuditInv, LogNow(l) PROVE AuditInv'
  OBVIOUS
<1>1. /\ l \in Live /\ logger[l].queue = <<>> /\ ~logger[l].queued /\ crashes' = crashes
      /\ logger[l] \in LoggerStates /\ trail \in Seq(Events) /\ logged \in Nat
      /\ logger[l].state = "open" /\ AuditTypeOK
  BY DEF AuditInv, QueueIsOfQueued, LogNow, Live, AuditTypeOK
<1>2. CASE /\ trail' = Written(trail, <<Event(l)>>) /\ logged' = logged + 1 /\ UNCHANGED faults
           /\ logger' = [logger EXCEPT ![l].last = logged + 1]
  <2> DEFINE id == logged + 1
             t  == [logger[l] EXCEPT !.last = id]
  <2>1. id \in Nat /\ Event(l) \in Events
    BY <1>1 DEF Event, Events, LoggerStates
  <2>2. logger' = [logger EXCEPT ![l] = t]
    BY <1>2
  <2> HIDE DEF id
  <2>3. /\ t \in LoggerStates /\ t.last = id /\ t.state = logger[l].state
        /\ t.queue = logger[l].queue /\ t.queued = logger[l].queued
    BY <1>1, <2>1 DEF LoggerStates
  <2> HIDE DEF t
  <2>4. LoggerNow(l, t)
    BY <1>1, <2>2, <2>3, LoggerBecomes
  <2>5. <<Event(l)>> \in Seq(Events) /\ trail' \in Seq(Events)
        /\ (Chain(trail) => trail' = trail \o <<Event(l)>>)
    <3>1. <<Event(l)>> \in Seq(Events)
      BY <2>1
    <3> QED
      BY <1>1, <1>2, <3>1, WrittenLines
  <2>6. Chain(trail) => trail' \o t.queue = Append(Whole(l), Event(l))
    <3>1. Whole(l) = trail /\ trail' \o t.queue = trail'
      BY <1>1, <2>3, <2>5, ConcatEmptySeq DEF Whole
    <3> QED
      BY <1>1, <2>1, <2>5, <3>1, AppendIsConcat
  <2> QED
    BY <1>1, <1>2, <2>3, <2>4, <2>5, <2>6, LiveStep DEF id
<1>3. CASE trail' = CutOff(trail) /\ faults' = faults \cup {"torn"} /\ UNCHANGED <<logger, logged>>
  <2>1. trail' \in Seq(Events)
    BY <1>1, <1>3, EmptySeq, WrittenLines
  <2> QED
    BY <1>1, <1>3, <2>1, BrokenStep DEF AuditInv, AuditTypeOK, QueueIsOfQueued, Breaks
<1> QED
  BY <1>2, <1>3 DEF LogNow

LEMMA LogQueuedStep == \A l \in Loggers : AuditInv /\ LogQueued(l) => AuditInv'
<1> SUFFICES ASSUME NEW l \in Loggers, AuditInv, LogQueued(l) PROVE AuditInv'
  OBVIOUS
<1>1. PICK w \in {logger[l].worker, "running"} :
         logger' = [logger EXCEPT ![l] =
             [logger[l] EXCEPT !.last = logged + 1, !.worker = w, !.queue = Append(@, Event(l))]]
  BY DEF LogQueued
<1> DEFINE id == logged + 1
           q  == Append(logger[l].queue, Event(l))
           t  == [logger[l] EXCEPT !.last = id, !.worker = w, !.queue = q]
<1>2. /\ logger[l].queued /\ UNCHANGED <<trail, crashes>> /\ logged' = id /\ id \in Nat
      /\ logger[l] \in LoggerStates /\ trail \in Seq(Events) /\ logged \in Nat
      /\ AuditTypeOK /\ Event(l) \in Events /\ logger[l].queue \in Seq(Events)
      /\ w \in {"none", "running", "done"}
  BY DEF AuditInv, LogQueued, AuditTypeOK, LoggerStates, Event, Events
<1>3. q \in Seq(Events)
  BY <1>2, AppendProperties
<1>4. logger' = [logger EXCEPT ![l] = t]
  <2>1. [logger[l] EXCEPT !.last = id, !.worker = w].queue = logger[l].queue
    BY <1>2 DEF LoggerStates
  <2> QED
    BY <1>1, <2>1
<1> HIDE DEF id, q
<1>5. t \in LoggerStates
  BY <1>2, <1>3 DEF LoggerStates
<1>6. /\ t.last = id /\ t.state = logger[l].state /\ t.queue = q /\ t.queued = logger[l].queued
  BY <1>2 DEF LoggerStates
<1> HIDE DEF t
<1>7. LoggerNow(l, t)
  BY <1>2, <1>4, <1>5, LoggerBecomes
<1>8. CASE logger[l].state = "closed"
  <2>1. faults' = faults \cup {"late"}
    BY <1>8 DEF LogQueued
  <2> QED
    BY <1>2, <1>5, <1>6, <1>7, <1>8, <2>1, ClosedStep
<1>9. CASE logger[l].state # "closed"
  <2>1. /\ l \in Live /\ faults' = faults /\ crashes' = crashes
        /\ t.state \in {"open", "closing"} /\ logged' = logged + 1 /\ t.last = logged + 1
    BY <1>2, <1>6, <1>9 DEF LogQueued, Live, id
  <2>2. trail' \o t.queue = Append(Whole(l), Event(l))
    <3>1. trail \o q = Append(trail \o logger[l].queue, Event(l))
      BY <1>2, AppendToSecond DEF q
    <3>2. trail' = trail /\ t.queue = q
      BY <1>2, <1>6
    <3> QED
      BY <3>1, <3>2, Zenon DEF Whole
  <2> QED
    <3>1. trail' \in Seq(Events) /\ AuditInv /\ t.queued = logger[l].queued
      BY <1>2, <1>6
    <3>2. UNCHANGED <<crashes, faults>>
      BY <2>1
    <3>3. t.state \in {"open", "closing"} \/ (t.state = "closed" /\ t.queue = <<>>)
      BY <2>1
    <3>4. ~t.queued => t.queue = <<>>
      BY <1>2, <3>1, Zenon
    <3>5. /\ t.last = logged + 1 /\ logged' = logged + 1 /\ t.state # "closed"
          /\ Chain(trail) => trail' \o t.queue = Append(Whole(l), Event(l))
      BY <2>1, <2>2
    <3> QED
      BY <1>5, <1>7, <2>1, <3>1, <3>2, <3>3, <3>4, <3>5, LiveStep
<1> QED
  BY <1>8, <1>9

\* A batch that is written moves from the queue to the file.
LEMMA FlushStep ==
  ASSUME AuditInv, NEW l \in Live, NEW batch \in Seq(Events), NEW rest \in Seq(Events),
         batch \o rest = logger[l].queue, NEW after \in LoggerStates,
         Flush(l, batch, rest, after), UNCHANGED <<logged, crashes>>,
         after.queued = logger[l].queued, after.last = logger[l].last,
         ~logger[l].queued => rest = <<>>,
         after.state \in {"open", "closing"} \/ (after.state = "closed" /\ rest = <<>>)
  PROVE  AuditInv'
<1>1. l \in Loggers /\ AuditTypeOK /\ trail \in Seq(Events)
  BY DEF Live, AuditInv, AuditTypeOK
<1>2. CASE /\ trail' = Written(trail, batch) /\ UNCHANGED faults
           /\ logger' = [logger EXCEPT ![l] = [after EXCEPT !.queue = rest]]
  <2> DEFINE t == [after EXCEPT !.queue = rest]
  <2>1. /\ t \in LoggerStates /\ t.queue = rest /\ t.last = logger[l].last
        /\ t.state = after.state /\ t.queued = logger[l].queued
    BY DEF LoggerStates
  <2> HIDE DEF t
  <2>2. LoggerNow(l, t)
    BY <1>1, <1>2, <2>1, LoggerBecomes DEF t
  <2>3. trail' \in Seq(Events) /\ (Chain(trail) => trail' = trail \o batch)
    BY <1>1, <1>2, WrittenLines
  <2>4. Chain(trail) => trail' \o t.queue = Whole(l)
    <3>1. (trail \o batch) \o rest = trail \o (batch \o rest)
      BY <1>1, Together, Zenon
    <3> QED
      BY <2>1, <2>3, <3>1 DEF Whole
  <2>5. /\ ~t.queued => t.queue = <<>>
        /\ t.state \in {"open", "closing"} \/ (t.state = "closed" /\ t.queue = <<>>)
    BY <2>1
  <2> QED
    BY <1>2, <2>1, <2>2, <2>3, <2>4, <2>5, LiveStep
<1>3. ASSUME NEW n \in 0 .. Len(batch) - 1, NEW partly \in BOOLEAN,
             trail' = LET some == Written(trail, SubSeq(batch, 1, n))
                      IN  IF partly THEN CutOff(some) ELSE some,
             logger' = [logger EXCEPT ![l] = [after EXCEPT !.queue = rest, !.worker = "done"]],
             faults' = faults \cup {"lost"} \cup IF partly THEN {"torn"} ELSE {}
      PROVE  AuditInv'
  <2> DEFINE t    == [after EXCEPT !.queue = rest, !.worker = "done"]
             some == Written(trail, SubSeq(batch, 1, n))
  <2>1. SubSeq(batch, 1, n) \in Seq(Events)
    BY <1>3, LenProperties, SubSeqProperties, ElementOfSeq
  <2>2. some \in Seq(Events) /\ CutOff(some) \in Seq(Events)
    BY <1>1, <2>1, WrittenLines
  <2>3. /\ t \in LoggerStates /\ t.queue = rest /\ t.state = after.state
        /\ t.queued = logger[l].queued
    BY DEF LoggerStates
  <2> HIDE DEF t, some
  <2>4. LoggerNow(l, t)
    BY <1>1, <1>3, <2>3, LoggerBecomes DEF t
  <2>5. trail' \in Seq(Events)
    BY <1>3, <2>2 DEF some
  <2>6. faults' \cap Breaks # {} /\ faults' \in SUBSET {"shared", "torn", "lost", "late"}
    BY <1>1, <1>3 DEF Breaks, AuditTypeOK
  <2>7. AuditTypeOK'
    BY <1>1, <2>4, <2>5, <2>6 DEF AuditTypeOK, LoggerNow
  <2>8. QueueIsOfQueued'
    BY <2>3, <2>4 DEF QueueIsOfQueued, LoggerNow, AuditInv
  <2> QED
    BY <2>6, <2>7, <2>8, BrokenStep
<1> QED
  BY <1>2, <1>3 DEF Flush

LEMMA WriteStep == \A l \in Loggers : AuditInv /\ WriteBatch(l) => AuditInv'
<1> SUFFICES ASSUME NEW l \in Loggers, AuditInv, WriteBatch(l) PROVE AuditInv'
  OBVIOUS
<1> DEFINE q == logger[l].queue
           n == Least(Len(q), MaxBatch)
           batch == SubSeq(q, 1, n)
           rest  == SubSeq(q, n + 1, Len(q))
<1>1. /\ l \in Live /\ q # <<>> /\ q \in Seq(Events) /\ logger[l] \in LoggerStates
      /\ Flush(l, batch, rest, logger[l]) /\ UNCHANGED <<logged, crashes>>
      /\ logger[l].state \in {"open", "closing"}
  BY DEF WriteBatch, AuditInv, AuditTypeOK, LoggerStates, Live
<1>2. logger[l].queued
  BY <1>1 DEF AuditInv, QueueIsOfQueued
<1>3. n \in 0 .. Len(q) /\ Len(q) \in Nat
  BY <1>1, LenProperties, AuditAssumption DEF Least
<1> HIDE DEF n
<1>4. batch \in Seq(Events) /\ rest \in Seq(Events)
  BY <1>1, <1>3, SplitAt
<1>5. batch \o rest = q
  BY <1>1, <1>3, SplitAt
<1> HIDE DEF batch, rest
<1> QED
  BY <1>1, <1>2, <1>4, <1>5, FlushStep

LEMMA DrainStep == \A l \in Loggers : AuditInv /\ Drain(l) => AuditInv'
<1> SUFFICES ASSUME NEW l \in Loggers, AuditInv, Drain(l) PROVE AuditInv'
  OBVIOUS
<1> DEFINE after == [logger[l] EXCEPT !.state = "closed"]
<1>1. /\ l \in Live /\ logger[l] \in LoggerStates /\ UNCHANGED <<logged, crashes>>
      /\ Flush(l, logger[l].queue, <<>>, after)
  BY DEF Drain, AuditInv, AuditTypeOK, Live
<1>2. /\ after \in LoggerStates /\ after.state = "closed" /\ after.queued = logger[l].queued
      /\ after.last = logger[l].last /\ logger[l].queue \in Seq(Events)
  BY <1>1 DEF LoggerStates
<1>3. <<>> \in Seq(Events) /\ logger[l].queue \o <<>> = logger[l].queue
  BY <1>2, EmptySeq, ConcatEmptySeq
<1> HIDE DEF after
<1> QED
  BY <1>1, <1>2, <1>3, FlushStep

\* The worker that returns and a shutdown that begins.
LEMMA RestStep == \A l \in Loggers : AuditInv /\ (WorkerReturns(l) \/ Shutdown(l)) => AuditInv'
<1> SUFFICES ASSUME NEW l \in Loggers, AuditInv, WorkerReturns(l) \/ Shutdown(l) PROVE AuditInv'
  OBVIOUS
<1>1. /\ UNCHANGED <<trail, logged, crashes, faults>> /\ AuditTypeOK
      /\ logger[l] \in LoggerStates /\ trail' \in Seq(Events) /\ logged' \in Nat
      /\ logger[l].queue \in Seq(Events) /\ (~logger[l].queued => logger[l].queue = <<>>)
  BY DEF WorkerReturns, Shutdown, AuditInv, AuditTypeOK, LoggerStates, QueueIsOfQueued
<1>2. CASE Shutdown(l)
  <2> DEFINE t == [logger[l] EXCEPT !.state = "closing"]
  <2>1. /\ t \in LoggerStates /\ t.state = "closing" /\ t.queued = logger[l].queued
        /\ t.last = logger[l].last /\ t.queue = logger[l].queue
    BY <1>1 DEF LoggerStates
  <2>2. LoggerNow(l, t) /\ l \in Live
    BY <1>1, <1>2, <2>1, LoggerBecomes DEF Shutdown, Live
  <2> HIDE DEF t
  <2>3. trail' \o t.queue = Whole(l)
    BY <1>1, <2>1 DEF Whole
  <2> QED
    BY <1>1, <2>1, <2>2, <2>3, LiveStep
<1>3. CASE WorkerReturns(l)
  <2> DEFINE t == [logger[l] EXCEPT !.worker = "done"]
  <2>1. /\ t \in LoggerStates /\ t.state = logger[l].state /\ t.queued = logger[l].queued
        /\ t.last = logger[l].last /\ t.queue = logger[l].queue
    BY <1>1 DEF LoggerStates
  <2>2. LoggerNow(l, t)
    BY <1>1, <1>3, <2>1, LoggerBecomes DEF WorkerReturns
  <2> HIDE DEF t
  <2>3. trail' \o t.queue = Whole(l)
    BY <1>1, <2>1 DEF Whole
  <2>4. CASE logger[l].state = "closed"
    BY <1>1, <2>1, <2>2, <2>4, ClosedStep
  <2>5. CASE logger[l].state = "closing"
    <3>1. l \in Live
      BY <2>5 DEF Live
    <3> QED
      BY <1>1, <2>1, <2>2, <2>3, <2>5, <3>1, LiveStep
  <2>6. CASE logger[l].state = "none"
    <3>1. /\ Live' = Live /\ l \notin Live /\ Live \subseteq Loggers
          /\ \A m \in Live : Whole(m)' = Whole(m) /\ logger'[m] = logger[m]
      BY <1>1, <2>1, <2>2, <2>6 DEF Live, LoggerNow, Whole
    <3> QED
      BY <1>1, <2>1, <2>2, <3>1 DEF AuditInv, AuditTypeOK, QueueIsOfQueued, LoggerNow,
                                    OneChain, AllEvents
  <2> QED
    BY <1>1, <1>3, <2>4, <2>5, <2>6 DEF WorkerReturns, LoggerStates
<1> QED
  BY <1>2, <1>3

\* A crash leaves a file that is a beginning of what it would have been, or a cut one.
LEMMA CrashStep == AuditInv /\ Crash => AuditInv'
<1> SUFFICES ASSUME AuditInv, Crash PROVE AuditInv'
  OBVIOUS
<1> USE DEF AuditInv
<1>1. logger' = [l \in Loggers |-> NoLogger] /\ crashes' = crashes + 1 /\ logged' = logged
      /\ crashes \in Nat /\ logged \in Nat /\ trail \in Seq(Events)
  BY DEF Crash, AuditTypeOK
<1>2. logger' \in [Loggers -> LoggerStates] /\ Live' = {} /\ QueueIsOfQueued' /\ crashes' # 0
  BY <1>1, EmptySeq DEF NoLogger, LoggerStates, Live, QueueIsOfQueued, Genesis
<1>3. AllEvents'
  BY <1>2 DEF AllEvents
<1>4. CASE UNCHANGED <<trail, faults>>
  BY <1>1, <1>2, <1>3, <1>4 DEF AuditTypeOK, OneChain
<1>5. ASSUME NEW l \in Live, NEW partly \in BOOLEAN, NEW n \in 0 .. Len(logger[l].queue),
             trail' = LET some == Written(trail, SubSeq(logger[l].queue, 1, n))
                      IN  IF partly THEN CutOff(some) ELSE some,
             faults' = faults \cup IF partly THEN {"torn"} ELSE {}
      PROVE  AuditInv'
  <2> DEFINE q    == logger[l].queue
             some == Written(trail, SubSeq(q, 1, n))
  <2>1. q \in Seq(Events) /\ Len(q) \in Nat
    BY LenProperties DEF Live, AuditTypeOK, LoggerStates
  <2>2. SubSeq(q, 1, n) \in Seq(Events) /\ SubSeq(q, n + 1, Len(q)) \in Seq(Events)
    BY <2>1, SplitAt
  <2>3. SubSeq(q, 1, n) \o SubSeq(q, n + 1, Len(q)) = q
    BY <2>1, SplitAt
  <2>4. /\ some \in Seq(Events) /\ CutOff(some) \in Seq(Events)
        /\ Chain(trail) => some = trail \o SubSeq(q, 1, n)
    BY <1>1, <2>2, WrittenLines
  <2>5. Chain(trail) /\ Chain(Whole(l)) => Chain(some)
    <3>1. trail \o SubSeq(q, 1, n) \in Seq(Events)
      BY <1>1, <2>2, ConcatProperties
    <3>2. (trail \o SubSeq(q, 1, n)) \o SubSeq(q, n + 1, Len(q)) = Whole(l)
      <4>1. (trail \o SubSeq(q, 1, n)) \o SubSeq(q, n + 1, Len(q))
                = trail \o (SubSeq(q, 1, n) \o SubSeq(q, n + 1, Len(q)))
        BY <1>1, <2>2, Together, Zenon
      <4> QED
        BY <2>3, <4>1, Zenon DEF Whole
    <3>3. Chain(Whole(l)) => Chain(trail \o SubSeq(q, 1, n))
      <4>1. Chain((trail \o SubSeq(q, 1, n)) \o SubSeq(q, n + 1, Len(q)))
                => Chain(trail \o SubSeq(q, 1, n))
        BY <2>2, <3>1, PrefixOfChain, Zenon
      <4> QED
        BY <3>2, <4>1, Zenon
    <3> QED
      BY <2>4, <3>3, Zenon
  <2> HIDE DEF some
  <2>6. trail' \in Seq(Events) /\ (~partly => trail' = some) /\ (partly => "torn" \in faults')
        /\ (~partly => faults' = faults) /\ faults' \in SUBSET {"shared", "torn", "lost", "late"}
    BY <1>5, <2>4 DEF some, AuditTypeOK
  <2>7. AuditTypeOK'
    BY <1>1, <1>2, <2>6 DEF AuditTypeOK
  <2>8. CASE partly
    BY <1>2, <2>6, <2>7, <2>8, BrokenStep DEF Breaks
  <2>9. CASE ~partly
    BY <1>2, <1>3, <2>5, <2>6, <2>7, <2>9 DEF OneChain
  <2> QED
    BY <2>8, <2>9
<1> QED
  BY <1>4, <1>5 DEF Crash

LEMMA AuditStep == AuditInv /\ [AuditNext]_auditVars => AuditInv'
<1> SUFFICES ASSUME AuditInv, [AuditNext]_auditVars PROVE AuditInv'
  OBVIOUS
<1>1. CASE UNCHANGED auditVars
  BY <1>1 DEF auditVars, AuditInv, AuditTypeOK, QueueIsOfQueued, OneChain, AllEvents, Live, Whole
<1>2. ASSUME NEW l \in Loggers,
             \/ OpenLogger(l) \/ LogNow(l) \/ LogQueued(l) \/ WriteBatch(l)
             \/ WorkerReturns(l) \/ Shutdown(l) \/ Drain(l)
      PROVE  AuditInv'
  BY <1>2, OpenStep, LogNowStep, LogQueuedStep, WriteStep, RestStep, DrainStep
<1> QED
  BY <1>1, <1>2, CrashStep DEF AuditNext

\* The events of a queue that continues the file are as many as it is long.
LEMMA QueueOfNumbers ==
  ASSUME NEW s \in Seq(Events), NEW q \in Seq(Events), Numbered(s \o q)
  PROVE  /\ \A n \in DOMAIN q : q[n].id = Len(s) + n
         /\ Cardinality(ToSet(q)) = Len(q)
<1>1. /\ Len(s) \in Nat /\ Len(q) \in Nat /\ DOMAIN q = 1 .. Len(q)
      /\ s \o q \in Seq(Events) /\ DOMAIN (s \o q) = 1 .. Len(s) + Len(q)
      /\ \A n \in 1 .. Len(s) + Len(q) :
            (s \o q)[n] = IF n <= Len(s) THEN s[n] ELSE q[n - Len(s)]
  BY LenProperties, ConcatProperties
<1>2. ASSUME NEW n \in DOMAIN q PROVE q[n].id = Len(s) + n
  <2>1. Len(s) + n \in 1 .. Len(s) + Len(q) /\ ~(Len(s) + n <= Len(s)) /\ Len(s) + n - Len(s) = n
    BY <1>1
  <2>2. (s \o q)[Len(s) + n] = q[n]
    BY <1>1, <2>1
  <2> QED
    BY <1>1, <2>1, <2>2 DEF Numbered
<1> DEFINE f == [n \in 1 .. Len(q) |-> q[n]]
<1>3. f \in Surjection(1 .. Len(q), ToSet(q))
  BY <1>1 DEF Surjection, ToSet
<1>4. \A m, n \in 1 .. Len(q) : f[m] = f[n] => m = n
  <2> TAKE m, n \in 1 .. Len(q)
  <2>1. q[m].id = Len(s) + m /\ q[n].id = Len(s) + n
    BY <1>1, <1>2
  <2> QED
    BY <1>1, <2>1
<1>5. f \in Injection(1 .. Len(q), ToSet(q))
  BY <1>3, <1>4 DEF Surjection, Injection, IsInjective
<1>6. IsFiniteSet(1 .. Len(q)) /\ Cardinality(1 .. Len(q)) = Len(q)
  <2>1. 1 \in Int /\ Len(q) \in Int
    BY <1>1
  <2>2. /\ IsFiniteSet(1 .. Len(q))
        /\ Cardinality(1 .. Len(q)) = IF 1 > Len(q) THEN 0 ELSE Len(q) - 1 + 1
    BY <2>1, FS_Interval
  <2> QED
    BY <1>1, <2>2
<1> QED
  BY <1>2, <1>3, <1>5, <1>6, FS_Surjection

LEMMA AuditInvSuffices == AuditInv => AuditIsSound
<1> SUFFICES ASSUME AuditInv PROVE AuditIsSound
  OBVIOUS
<1>1. TrailVerifies
  BY DEF AuditInv, OneChain, Chain, TrailVerifies
<1>2. TrailIsComplete
  <2> SUFFICES ASSUME faults = {}, crashes = 0
               PROVE  LET unwritten == UNION {ToSet(logger[l].queue) : l \in Live}
                      IN  /\ \A n \in DOMAIN trail : trail[n].id = n
                          /\ \A l \in Live : \A n \in DOMAIN logger[l].queue :
                                logger[l].queue[n].id = Len(trail) + n
                          /\ Len(trail) + Cardinality(unwritten) = logged
    BY DEF TrailIsComplete
  <2> DEFINE unwritten == UNION {ToSet(logger[l].queue) : l \in Live}
  <2>1. trail \in Seq(Events) /\ Len(trail) \in Nat
    BY LenProperties DEF AuditInv, AuditTypeOK
  <2>2. CASE Live = {}
    <3>1. unwritten = {} /\ Cardinality(unwritten) = 0
      BY <2>2, FS_EmptySet
    <3>2. Numbered(trail) /\ Len(trail) = logged
      BY <2>2 DEF AuditInv, AllEvents
    <3> QED
      BY <2>1, <2>2, <3>1, <3>2 DEF Numbered
  <2>3. ASSUME NEW l \in Live
        PROVE  /\ \A n \in DOMAIN trail : trail[n].id = n
               /\ \A m \in Live : \A n \in DOMAIN logger[m].queue :
                     logger[m].queue[n].id = Len(trail) + n
               /\ Len(trail) + Cardinality(unwritten) = logged
    <3>1. \A m \in Live : m = l
      BY DEF AuditInv, OneChain
    <3>2. logger[l].queue \in Seq(Events)
      BY DEF Live, AuditInv, AuditTypeOK, LoggerStates
    <3>3. Numbered(trail \o logger[l].queue) /\ Len(trail \o logger[l].queue) = logged
      BY DEF AuditInv, AllEvents, Whole
    <3>4. Numbered(trail) /\ Len(trail) + Len(logger[l].queue) = logged
      BY <2>1, <3>2, <3>3, PrefixOfChain, ConcatProperties
    <3>5. unwritten = ToSet(logger[l].queue)
      BY <3>1
    <3>6. /\ \A n \in DOMAIN logger[l].queue : logger[l].queue[n].id = Len(trail) + n
          /\ Cardinality(unwritten) = Len(logger[l].queue)
      BY <2>1, <3>2, <3>3, <3>5, QueueOfNumbers
    <3> QED
      BY <3>1, <3>4, <3>6 DEF Numbered
  <2> QED
    BY <2>2, <2>3
<1> QED
  BY <1>1, <1>2 DEF AuditIsSound

\* The audit file verifies as one chain and holds every event once, through batches of
\* any size, shutdowns, crashes and the stores that continue it, unless what the history
\* names has happened (FileAuditStore, QueuedFileAuditStore, AuditLogger).
THEOREM AuditCorrect == AuditSpec => []AuditIsSound
<1>1. AuditSpec => []AuditInv
  BY AuditInitial, AuditStep, PTL DEF AuditSpec
<1> QED
  BY <1>1, AuditInvSuffices, PTL

-----------------------------------------------------------------------------
(***************************************************************************)
(* The items of a scope.                                                   *)
(***************************************************************************)
IsCall(r) == r = [pc |-> r.pc, item |-> r.item, op |-> r.op, target |-> r.target,
                  lines |-> r.lines]

\* A rewrite that is under way puts into the file what its call makes of the items.
RewriteIsCurrent(w) ==
    /\ backend = "jsonl" /\ lock = w
    /\ writer[w].lines = Edited(items, writer[w].op, writer[w].target)
    /\ \/ writer[w].op = "clear"
       \/ writer[w].op \in {"update", "delete"} /\ writer[w].target \in Ids(items)

CollectionInv ==
    /\ writer = [w \in Writers |-> writer[w]] /\ \A w \in Writers : IsCall(writer[w])
    /\ cut \in BOOLEAN
    /\ \A w \in Writers : writer[w].pc = "waiting" => /\ backend = "jsonl"
                                                     /\ writer[w].op \in {"update", "delete", "clear"}
    /\ ~cut => \A w \in Writers : /\ writer[w].pc \notin {"adrift", "orphaned"}
                                  /\ writer[w].pc = "rewriting" => RewriteIsCurrent(w)

\* What a step makes of the call of writer w.
CallNow(w, pc, op, target, lines) ==
    /\ writer' = [v \in Writers |-> writer'[v]] /\ \A v \in Writers \ {w} : writer'[v] = writer[v]
    /\ IsCall(writer'[w]) /\ writer'[w].pc = pc /\ writer'[w].op = op
    /\ writer'[w].target = target /\ writer'[w].lines = lines

LEMMA CallBecomes ==
  ASSUME CollectionInv, NEW w \in Writers, NEW r, IsCall(r), Become(w, r)
  PROVE  CallNow(w, r.pc, r.op, r.target, r.lines)
BY DEF CollectionInv, Become, CallNow

LEMMA CallMoves ==
  ASSUME CollectionInv, NEW w \in Writers, NEW pc
  PROVE  LET r == [writer[w] EXCEPT !.pc = pc]
         IN  IsCall(r) /\ r.pc = pc /\ r.op = writer[w].op /\ r.target = writer[w].target
                       /\ r.lines = writer[w].lines
<1>1. IsCall(writer[w])
  BY DEF CollectionInv
<1> QED
  BY <1>1 DEF IsCall

LEMMA IdleIsCall == IsCall(Idle) /\ Idle.pc = "idle"
BY DEF IsCall, Idle

LEMMA CollectionInitial == CollectionInit => CollectionInv
BY IdleIsCall DEF CollectionInit, CollectionInv

\* Steps that touch the items of no rewrite: one of writer w, or of none.
LEMMA CalmStep ==
  ASSUME CollectionInv, NEW w \in Writers, UNCHANGED <<backend, cut>>,
         NEW pc, NEW op, NEW target, NEW lines, CallNow(w, pc, op, target, lines),
         pc = "waiting" => backend = "jsonl" /\ op \in {"update", "delete", "clear"},
         ~cut => pc \notin {"adrift", "orphaned", "rewriting"},
         ~cut => \A v \in Writers \ {w} : writer[v].pc = "rewriting" =>
                    UNCHANGED <<items, lock>>
  PROVE  CollectionInv'
<1>1. \A v \in Writers \ {w} : writer'[v] = writer[v]
  BY DEF CallNow
<1>2. ASSUME ~cut, NEW v \in Writers \ {w}, writer[v].pc = "rewriting"
      PROVE  RewriteIsCurrent(v)'
  BY <1>1, <1>2 DEF CollectionInv, RewriteIsCurrent
<1>3. cut' \in BOOLEAN /\ (cut' <=> cut)
  BY DEF CollectionInv
<1> QED
  BY <1>1, <1>2, <1>3 DEF CollectionInv, CallNow

LEMMA CutStep ==
  ASSUME CollectionInv, NEW w \in Writers, backend' = backend, cut' = TRUE,
         NEW pc, NEW op, NEW target, NEW lines, CallNow(w, pc, op, target, lines), pc # "waiting"
  PROVE  CollectionInv'
BY DEF CollectionInv, CallNow

LEMMA StillStep ==
  ASSUME CollectionInv, UNCHANGED <<backend, cut, writer>>,
         backend = "jsonl" => UNCHANGED <<items, lock>>
  PROVE  CollectionInv'
BY DEF CollectionInv, RewriteIsCurrent

LEMMA WriterStep ==
  ASSUME CollectionInv, NEW w \in Writers,
         \/ BeginAppend(w) \/ StoreItem(w) \/ CancelAppend(w)
         \/ ReadLocked(w) \/ Replace(w) \/ CancelEdit(w) \/ OrphanFails(w)
  PROVE  CollectionInv' /\ WholeChange
<1>1. CASE BeginAppend(w)
  <2>1. PICK item : Become(w, [Idle EXCEPT !.pc = "appending", !.item = item])
    BY <1>1 DEF BeginAppend
  <2> DEFINE r1 == [Idle EXCEPT !.pc = "appending"]
             r == [r1 EXCEPT !.item = item]
  <2>2. IsCall(r1) /\ r1.pc = "appending"
    BY DEF Idle, IsCall
  <2>3. r = [Idle EXCEPT !.pc = "appending", !.item = item]
    BY DEF Idle
  <2> HIDE DEF r1
  <2>4. IsCall(r) /\ r.pc = "appending"
    BY <2>2 DEF IsCall
  <2> HIDE DEF r
  <2>5. CallNow(w, "appending", r.op, r.target, r.lines)
    BY <2>1, <2>4, <2>3, CallBecomes
  <2>6. CollectionInv'
    BY <1>1, <2>5, CalmStep DEF BeginAppend
  <2> QED
    BY <1>1, <2>6 DEF BeginAppend, WholeChange
<1>2. CASE StoreItem(w)
  <2>1. CallNow(w, "idle", Idle.op, Idle.target, Idle.lines)
    BY <1>2, IdleIsCall, CallBecomes DEF StoreItem
  <2>2. ~cut => /\ writer[w].pc = "appending"
                /\ \A v \in Writers : writer[v].pc # "rewriting"
    BY <1>2, CollectionAssumption DEF StoreItem, CollectionInv, RewriteIsCurrent
  <2>3. CollectionInv'
    BY <1>2, <2>1, <2>2, CalmStep DEF StoreItem
  <2>4. items' = Append(items, writer[w].item)
    BY <1>2 DEF StoreItem, Change
  <2> QED
    BY <2>3, <2>4 DEF WholeChange
<1>3. CASE CancelAppend(w)
  <2> DEFINE r == [writer[w] EXCEPT !.pc = "adrift"]
  <2>1. /\ IsCall(r) /\ r.pc = "adrift" /\ r.op = writer[w].op /\ r.target = writer[w].target
        /\ r.lines = writer[w].lines /\ Become(w, r)
    BY <1>3, CallMoves DEF CancelAppend
  <2> HIDE DEF r
  <2>2. CallNow(w, "adrift", writer[w].op, writer[w].target, writer[w].lines)
    BY <2>1, CallBecomes
  <2>3. CollectionInv'
    BY <1>3, <2>2, CutStep DEF CancelAppend
  <2> QED
    BY <1>3, <2>3 DEF CancelAppend, WholeChange
<1>4. CASE ReadLocked(w)
  <2>1. /\ lock = NoCall /\ writer[w].pc = "waiting" /\ UNCHANGED <<backend, items, cut>>
        /\ backend = "jsonl" /\ writer[w].op \in {"update", "delete", "clear"}
        /\ \A v \in Writers : ~cut => writer[v].pc # "rewriting"
    BY <1>4, CollectionAssumption DEF ReadLocked, CollectionInv, RewriteIsCurrent
  <2>2. CASE Become(w, Idle)
    <3>1. CallNow(w, "idle", Idle.op, Idle.target, Idle.lines)
      BY <2>2, IdleIsCall, CallBecomes
    <3> QED
      BY <2>1, <3>1, CalmStep DEF WholeChange
  <2>3. ASSUME writer[w].op = "clear" \/ writer[w].target \in Ids(items), lock' = w,
               Become(w, [writer[w] EXCEPT !.pc = "rewriting",
                              !.lines = Edited(items, writer[w].op, writer[w].target)])
        PROVE  CollectionInv' /\ WholeChange
    <3> DEFINE lines == Edited(items, writer[w].op, writer[w].target)
               r == [writer[w] EXCEPT !.pc = "rewriting", !.lines = lines]
    <3>1. IsCall(writer[w])
      BY DEF CollectionInv
    <3> HIDE DEF lines
    <3> DEFINE r1 == [writer[w] EXCEPT !.pc = "rewriting"]
    <3>2. /\ IsCall(r1) /\ r1.pc = "rewriting" /\ r1.op = writer[w].op
          /\ r1.target = writer[w].target
      BY CallMoves
    <3>3. r = [r1 EXCEPT !.lines = lines]
      BY <3>1 DEF IsCall
    <3> HIDE DEF r1, r
    <3>4. /\ IsCall(r) /\ r.pc = "rewriting" /\ r.op = writer[w].op
          /\ r.target = writer[w].target /\ r.lines = lines
      BY <3>2, <3>3 DEF IsCall
    <3> HIDE DEF r
    <3>5. CallNow(w, "rewriting", writer[w].op, writer[w].target, lines)
      BY <2>3, <3>4, CallBecomes DEF r, lines
    <3>6. RewriteIsCurrent(w)'
      BY <2>1, <2>3, <3>5 DEF CallNow, RewriteIsCurrent, lines
    <3>7. CollectionInv'
      BY <2>1, <3>5, <3>6 DEF CollectionInv, CallNow
    <3> QED
      BY <2>1, <3>7 DEF WholeChange
  <2> QED
    BY <1>4, <2>2, <2>3 DEF ReadLocked
<1>5. CASE Replace(w)
  <2>1. CallNow(w, "idle", Idle.op, Idle.target, Idle.lines)
    BY <1>5, IdleIsCall, CallBecomes DEF Replace
  <2>2. ~cut => /\ writer[w].pc = "rewriting" /\ RewriteIsCurrent(w)
                /\ \A v \in Writers \ {w} : writer[v].pc # "rewriting"
    BY <1>5 DEF Replace, CollectionInv, RewriteIsCurrent
  <2>3. CollectionInv'
    BY <1>5, <2>1, <2>2, CalmStep DEF Replace
  <2>4. items' = writer[w].lines /\ cut' = cut
    BY <1>5 DEF Replace, Change
  <2>5. writer[w].op = "clear" => Edited(items, writer[w].op, writer[w].target) = <<>>
    BY DEF Edited
  <2> QED
    BY <2>2, <2>3, <2>4, <2>5 DEF WholeChange, RewriteIsCurrent
<1>6. CASE CancelEdit(w)
  <2> DEFINE r == [writer[w] EXCEPT !.pc = "orphaned"]
  <2>1. /\ IsCall(r) /\ r.pc = "orphaned" /\ r.op = writer[w].op /\ r.target = writer[w].target
        /\ r.lines = writer[w].lines /\ Become(w, r)
    BY <1>6, CallMoves DEF CancelEdit
  <2> HIDE DEF r
  <2>2. CallNow(w, "orphaned", writer[w].op, writer[w].target, writer[w].lines)
    BY <2>1, CallBecomes
  <2>3. CollectionInv'
    BY <1>6, <2>2, CutStep DEF CancelEdit
  <2> QED
    BY <1>6, <2>3 DEF CancelEdit, WholeChange
<1>7. CASE OrphanFails(w)
  <2>1. CallNow(w, "idle", Idle.op, Idle.target, Idle.lines)
    BY <1>7, IdleIsCall, CallBecomes DEF OrphanFails
  <2>2. CollectionInv'
    BY <1>7, <2>1, CalmStep DEF OrphanFails
  <2> QED
    BY <1>7, <2>2 DEF OrphanFails, WholeChange
<1> QED
  BY <1>1, <1>2, <1>3, <1>4, <1>5, <1>6, <1>7

LEMMA EditStep ==
  ASSUME CollectionInv, NEW id \in Ids(items) \cup {0}, NEW op \in {"update", "delete", "clear"},
         op = "clear" <=> id = 0,
         EditInPlace(op, id) \/ \E w \in Writers : BeginEdit(w, op, id)
  PROVE  CollectionInv' /\ WholeChange
<1>1. CASE EditInPlace(op, id)
  <2>1. CollectionInv'
    BY <1>1, StillStep DEF EditInPlace
  <2>2. items' = Edited(items, op, id) /\ (op = "clear" => items' = <<>>)
    BY <1>1 DEF EditInPlace, Change, Edited
  <2> QED
    BY <2>1, <2>2 DEF WholeChange
<1>2. ASSUME NEW w \in Writers, BeginEdit(w, op, id) PROVE CollectionInv' /\ WholeChange
  <2>1. PICK r : IsCall(r) /\ r.pc = "waiting" /\ r.op = op /\ Become(w, r)
    <3> DEFINE r == [Idle EXCEPT !.pc = "waiting", !.op = op, !.target = id]
               r1 == [Idle EXCEPT !.pc = "waiting"]
               r2 == [r1 EXCEPT !.op = op]
    <3>1. IsCall(r1) /\ r1.pc = "waiting"
      BY DEF Idle, IsCall
    <3>2. r = [r2 EXCEPT !.target = id]
      BY DEF Idle
    <3> HIDE DEF r, r1
    <3>3. IsCall(r2) /\ r2.pc = "waiting" /\ r2.op = op
      BY <3>1 DEF IsCall
    <3> HIDE DEF r2
    <3>4. IsCall(r) /\ r.pc = "waiting" /\ r.op = op
      BY <3>3, <3>2 DEF IsCall
    <3> QED
      BY <1>2, <3>4 DEF BeginEdit, r
  <2>2. CollectionInv'
    BY <1>2, <2>1, CallBecomes, CalmStep DEF BeginEdit
  <2> QED
    BY <1>2, <2>2 DEF BeginEdit, WholeChange
<1> QED
  BY <1>1, <1>2

LEMMA CollectionStep ==
  CollectionInv /\ [CollectionNext]_collectionVars => CollectionInv' /\ [WholeChange]_collectionVars
<1> SUFFICES ASSUME CollectionInv, [CollectionNext]_collectionVars
             PROVE  CollectionInv' /\ [WholeChange]_collectionVars
  OBVIOUS
<1>1. CASE UNCHANGED collectionVars
  BY <1>1, StillStep DEF collectionVars
<1>2. CASE Tick \/ Poll
  BY <1>2, StillStep DEF Tick, Poll, WholeChange
<1> QED
  BY <1>1, <1>2, WriterStep, EditStep DEF CollectionNext

\* Every change of a scope is the one of one call, until one is cancelled: for any
\* number of writers and readers, calls and items, in each of the four stores
\* (JsonlCollectionStore and its lock, the others' single statements).
THEOREM ChangesCorrect == CollectionSpec => ChangesAreWhole
<1>1. CollectionSpec => []CollectionInv
  BY CollectionInitial, CollectionStep, PTL DEF CollectionSpec
<1> QED
  BY <1>1, CollectionStep, PTL DEF CollectionSpec, ChangesAreWhole

(***************************************************************************)
(* What a reader of the items has got.                                     *)
(***************************************************************************)
ItemRecords == [id : Nat \ {0}, at : Nat, text : Int]

\* Items have ids of their own, those still to be stored too, which nobody has read yet.
ItemsAreSingle ==
    /\ items \in Seq(ItemRecords) /\ calls \in Nat /\ now \in Nat
    /\ \A n \in DOMAIN items : items[n].id <= calls /\ items[n].at <= now
    /\ \A m, n \in DOMAIN items : items[m].id = items[n].id => m = n

Unread(w) ==
    /\ writer[w].item \in ItemRecords /\ writer[w].item.id <= calls /\ writer[w].item.at <= now
    /\ writer[w].item.id \notin Ids(items) /\ writer[w].item.id \notin ToSet(reader.seen)

Appending == {w \in Writers : writer[w].pc = "appending"}

NewAreUnread ==
    /\ \A w \in Appending : Unread(w)
    /\ \A v, w \in Appending : writer[v].item.id = writer[w].item.id => v = w

\* In a database the times tell the order, also of what is still to be stored.
TimesTell ==
    /\ \A m, n \in DOMAIN items : m < n => items[m].at < items[n].at
    /\ \A w \in Appending : \A n \in DOMAIN items : items[n].at < writer[w].item.at
    /\ \A v, w \in Appending : v = w

\* The reader has each item up to the one that is its cursor, and once.
ReadUpTo(k) ==
    /\ items[k].id = reader.cursor
    /\ \A n \in DOMAIN items : items[n].id \in ToSet(reader.seen) <=> n <= k

ReadInOrder ==
    /\ IsInjective(reader.seen)
    /\ \/ reader.cursor = 0 /\ reader.seen = <<>>
       \/ \E k \in DOMAIN items : ReadUpTo(k)

Reading ==
    /\ ItemsAreSingle /\ NewAreUnread
    /\ reader \in [seen : Seq(Nat), cursor : Nat]
    /\ \A id \in ToSet(reader.seen) : id <= calls
    /\ lostPlace \in BOOLEAN /\ overlapped \in BOOLEAN
    /\ backend \in SQL /\ ~overlapped => TimesTell
    /\ ~lostPlace /\ (backend \in SQL => ~overlapped) => ReadInOrder

ReaderInv == CollectionInv /\ (~cut => Reading)

\* A sequence without the element at place k.
LEMMA RemovedAt ==
    ASSUME NEW S, NEW s \in Seq(S), NEW k \in DOMAIN s
    PROVE  /\ RemoveAt(s, k) \in Seq(S) /\ Len(RemoveAt(s, k)) = Len(s) - 1
           /\ \A n \in DOMAIN RemoveAt(s, k) :
                 RemoveAt(s, k)[n] = s[IF n < k THEN n ELSE n + 1]
<1>1. /\ SubSeq(s, 1, k - 1) \in Seq(S) /\ Len(SubSeq(s, 1, k - 1)) = k - 1
      /\ \A n \in 1 .. k - 1 : SubSeq(s, 1, k - 1)[n] = s[n]
  BY SubSeqProperties
<1>2. /\ SubSeq(s, k + 1, Len(s)) \in Seq(S) /\ Len(SubSeq(s, k + 1, Len(s))) = Len(s) - k
      /\ \A n \in 1 .. Len(s) - k : SubSeq(s, k + 1, Len(s))[n] = s[k + n]
  BY SubSeqProperties
<1>3. PICK a, b : a = SubSeq(s, 1, k - 1) /\ b = SubSeq(s, k + 1, Len(s))
  OBVIOUS
<1>4. RemoveAt(s, k) = a \o b /\ a \in Seq(S) /\ b \in Seq(S)
  BY <1>1, <1>2, <1>3 DEF RemoveAt
<1>5. /\ a \o b \in Seq(S) /\ Len(a \o b) = Len(a) + Len(b)
      /\ \A n \in 1 .. Len(a) + Len(b) :
            (a \o b)[n] = IF n <= Len(a) THEN a[n] ELSE b[n - Len(a)]
  BY <1>4, ConcatProperties
<1>6. Len(a) = k - 1 /\ Len(b) = Len(s) - k /\ k \in 1 .. Len(s) /\ Len(s) \in Nat
  BY <1>1, <1>2, <1>3
<1>7. \A n \in 1 .. Len(s) - 1 : (a \o b)[n] = s[IF n < k THEN n ELSE n + 1]
  <2> TAKE n \in 1 .. Len(s) - 1
  <2>1. CASE n < k
    BY <1>1, <1>3, <1>5, <1>6, <2>1, SMTT(30)
  <2>2. CASE n >= k
    <3>1. n - (k - 1) \in 1 .. Len(s) - k /\ k + (n - (k - 1)) = n + 1
      BY <1>6, <2>2
    <3>2. n \in 1 .. Len(a) + Len(b) /\ ~(n <= Len(a))
      BY <1>6, <2>2
    <3>3. (a \o b)[n] = b[n - Len(a)]
      BY <1>5, <3>2
    <3>4. b[n - (k - 1)] = s[n + 1]
      BY <1>2, <1>3, <3>1
    <3>5. ~(n < k)
      BY <1>6, <2>2
    <3>6. QED  BY <1>6, <3>3, <3>4, <3>5
  <2>3. n < k \/ n >= k
    BY <1>6
  <2>4. QED  BY <2>1, <2>2, <2>3, Zenon
<1>8. /\ a \o b \in Seq(S) /\ Len(a \o b) = Len(s) - 1
      /\ DOMAIN (a \o b) = 1 .. Len(s) - 1
  BY <1>5, <1>6
<1>9. QED  BY <1>4, <1>7, <1>8, Zenon

LEMMA PlaceIsIt ==
    ASSUME ItemsAreSingle, NEW k \in DOMAIN items
    PROVE  Place(items, items[k].id) = k
<1>1. \E n \in DOMAIN items : items[n].id = items[k].id
  OBVIOUS
<1>2. LET n == Place(items, items[k].id) IN n \in DOMAIN items /\ items[n].id = items[k].id
  BY <1>1, Zenon DEF Place
<1>3. QED  BY <1>2 DEF ItemsAreSingle

LEMMA PlaceOfId ==
    ASSUME ItemsAreSingle, NEW id \in Ids(items)
    PROVE  Place(items, id) \in DOMAIN items /\ items[Place(items, id)].id = id
<1>1. PICK k \in DOMAIN items : items[k].id = id
  BY DEF Ids
<1>2. QED  BY <1>1, PlaceIsIt

\* The items of s are some of those there are, in the same order.
Thins(s) ==
    /\ s \in Seq(ItemRecords)
    /\ \E from \in [DOMAIN s -> DOMAIN items] :
          /\ \A m, n \in DOMAIN s : m < n => from[m] < from[n]
          /\ \A n \in DOMAIN s : s[n].id = items[from[n]].id /\ s[n].at = items[from[n]].at

LEMMA ItemsThin ==
    ASSUME items \in Seq(ItemRecords)
    PROVE  Thins(items)
<1>1. [n \in DOMAIN items |-> n] \in [DOMAIN items -> DOMAIN items]
  OBVIOUS
<1>2. QED  BY <1>1 DEF Thins

LEMMA EditThins ==
    ASSUME ItemsAreSingle, NEW op \in {"update", "delete", "clear"}, NEW id
    PROVE  Thins(Edited(items, op, id))
<1>1. items \in Seq(ItemRecords)
  BY DEF ItemsAreSingle
<1>2. CASE op = "clear"
  <2>1. Edited(items, op, id) = <<>>
    BY <1>2 DEF Edited
  <2>2. <<>> \in Seq(ItemRecords) /\ DOMAIN <<>> = {}
    OBVIOUS
  <2>3. [n \in {} |-> n] \in [{} -> DOMAIN items]
    OBVIOUS
  <2>4. QED  BY <2>1, <2>2, <2>3 DEF Thins
<1>3. CASE op # "clear" /\ id \notin Ids(items)
  <2>1. Edited(items, op, id) = items
    BY <1>3 DEF Edited
  <2>2. QED  BY <1>1, <2>1, ItemsThin
<1>4. ASSUME id \in Ids(items), op = "update" PROVE Thins(Edited(items, op, id))
  <2> DEFINE k == Place(items, id)
             s == [items EXCEPT ![k] = [items[k] EXCEPT !.text = 1 - items[k].text]]
  <2>1. k \in DOMAIN items
    BY <1>4, PlaceOfId
  <2>2. Edited(items, op, id) = s
    BY <1>4 DEF Edited
  <2> HIDE DEF k
  <2>3. items[k] \in ItemRecords
    BY <1>1, <2>1
  <2>4. PICK i : i = [items[k] EXCEPT !.text = 1 - items[k].text]
    OBVIOUS
  <2>5. i \in ItemRecords /\ i.id = items[k].id /\ i.at = items[k].at
    BY <2>3, <2>4 DEF ItemRecords
  <2>6. s = [items EXCEPT ![k] = i]
    BY <2>4
  <2> HIDE DEF s
  <2>7. s \in Seq(ItemRecords) /\ DOMAIN s = DOMAIN items
    BY <1>1, <2>1, <2>5, <2>6
  <2>8. \A n \in DOMAIN s : s[n].id = items[n].id /\ s[n].at = items[n].at
    BY <1>1, <2>1, <2>5, <2>6
  <2>9. [n \in DOMAIN s |-> n] \in [DOMAIN s -> DOMAIN items]
    BY <2>7
  <2>10. QED  BY <2>2, <2>7, <2>8, <2>9 DEF Thins
<1>5. ASSUME id \in Ids(items), op = "delete" PROVE Thins(Edited(items, op, id))
  <2> DEFINE k == Place(items, id)
             s == RemoveAt(items, k)
             from == [n \in DOMAIN s |-> IF n < k THEN n ELSE n + 1]
  <2>1. k \in DOMAIN items
    BY <1>5, PlaceOfId
  <2>2. Edited(items, op, id) = s
    BY <1>5 DEF Edited
  <2> HIDE DEF k
  <2>3. /\ s \in Seq(ItemRecords) /\ Len(s) = Len(items) - 1
        /\ \A n \in DOMAIN s : s[n] = items[IF n < k THEN n ELSE n + 1]
    BY <1>1, <2>1, RemovedAt
  <2> HIDE DEF s
  <2>4. from \in [DOMAIN s -> DOMAIN items]
    BY <1>1, <2>1, <2>3
  <2>5. \A m, n \in DOMAIN s : m < n => from[m] < from[n]
    BY <1>1, <2>1, <2>3
  <2>6. \A n \in DOMAIN s : s[n].id = items[from[n]].id /\ s[n].at = items[from[n]].at
    BY <2>3
  <2> HIDE DEF from
  <2>7. QED  BY <2>2, <2>3, <2>4, <2>5, <2>6 DEF Thins
<1>6. QED  BY <1>2, <1>3, <1>4, <1>5

\* Items go or are changed, and calls that store nothing go on.
LEMMA ThinnedItems ==
    ASSUME Reading, Thins(items'), UNCHANGED <<backend, reader>>,
           overlapped' \in BOOLEAN, backend \in SQL /\ ~overlapped' => ~overlapped,
           lostPlace' \in BOOLEAN,
           ~lostPlace' => ~lostPlace /\ reader.cursor \notin Ids(items) \ Ids(items'),
           calls' \in Nat, calls' >= calls, now' \in Nat, now' >= now,
           \A w \in Writers : writer'[w].pc = "appending" =>
               writer[w].pc = "appending" /\ writer'[w].item = writer[w].item
    PROVE  Reading'
<1>1. PICK from \in [DOMAIN items' -> DOMAIN items] :
          /\ \A m, n \in DOMAIN items' : m < n => from[m] < from[n]
          /\ \A n \in DOMAIN items' : /\ items'[n].id = items[from[n]].id
                                      /\ items'[n].at = items[from[n]].at
  BY DEF Thins
<1>2. items \in Seq(ItemRecords) /\ items' \in Seq(ItemRecords)
  BY DEF Thins, Reading, ItemsAreSingle
<1>3. DOMAIN items \subseteq Nat /\ DOMAIN items' \subseteq Nat
  BY <1>2
<1>4. \A m, n \in DOMAIN items' : from[m] = from[n] => m = n
  BY <1>1, <1>3
<1>5. ItemsAreSingle'
  <2>1. \A n \in DOMAIN items : /\ items[n].id \in Nat /\ items[n].at \in Nat
                               /\ items[n].id <= calls /\ items[n].at <= now
    <3>1. \A n \in DOMAIN items : items[n] \in ItemRecords
      BY <1>2
    <3>2. QED  BY <3>1 DEF Reading, ItemsAreSingle, ItemRecords
  <2>2. calls \in Nat /\ now \in Nat
    BY DEF Reading, ItemsAreSingle
  <2>3. \A n \in DOMAIN items' : items'[n].id <= calls' /\ items'[n].at <= now'
    BY <1>1, <2>1, <2>2
  <2>4. \A m, n \in DOMAIN items' : items'[m].id = items'[n].id => m = n
    BY <1>1, <1>4 DEF Reading, ItemsAreSingle
  <2>5. QED  BY <1>2, <2>3, <2>4 DEF ItemsAreSingle
<1>6. Ids(items') \subseteq Ids(items)
  BY <1>1 DEF Ids
<1>7. \A w \in Appending' : w \in Appending /\ writer'[w].item = writer[w].item
  BY DEF Appending
<1>8. NewAreUnread'
  <2>1. calls \in Nat /\ now \in Nat
    BY DEF Reading, ItemsAreSingle
  <2>2. ASSUME NEW w \in Appending' PROVE Unread(w)'
    <3>1. Unread(w)
      BY <1>7, <2>2 DEF Reading, NewAreUnread
    <3>2. writer[w].item.id \in Nat /\ writer[w].item.at \in Nat
      BY <3>1 DEF Unread, ItemRecords
    <3>3. QED  BY <1>6, <1>7, <2>1, <2>2, <3>1, <3>2 DEF Unread
  <2>3. \A v, w \in Appending' : writer'[v].item.id = writer'[w].item.id => v = w
    BY <1>7 DEF Reading, NewAreUnread
  <2>4. QED  BY <2>2, <2>3 DEF NewAreUnread
<1>9. backend' \in SQL /\ ~overlapped' => TimesTell'
  BY <1>1, <1>7 DEF Reading, TimesTell
<1>10. ASSUME ~lostPlace', backend' \in SQL => ~overlapped' PROVE ReadInOrder'
  <2>1. ReadInOrder
    BY <1>10 DEF Reading
  <2>2. CASE reader.cursor = 0 /\ reader.seen = <<>>
    BY <2>1, <2>2 DEF ReadInOrder
  <2>3. ASSUME NEW k \in DOMAIN items, ReadUpTo(k) PROVE \E j \in DOMAIN items' : ReadUpTo(j)'
    <3>1. reader.cursor \in Ids(items')
      BY <1>10, <2>3 DEF ReadUpTo, Ids
    <3>2. PICK j \in DOMAIN items' : items'[j].id = reader.cursor
      BY <3>1 DEF Ids
    <3>3. from[j] = k
      BY <1>1, <2>3, <3>2 DEF ReadUpTo, Reading, ItemsAreSingle
    <3>4. \A n \in DOMAIN items' : n <= j <=> from[n] <= k
      BY <1>1, <1>3, <3>3
    <3>5. QED  BY <1>1, <2>3, <3>2, <3>4 DEF ReadUpTo
  <2>4. QED  BY <2>1, <2>2, <2>3 DEF ReadInOrder
<1>11. reader' \in [seen : Seq(Nat), cursor : Nat] /\ \A id \in ToSet(reader'.seen) : id <= calls'
  <2>1. \A id \in ToSet(reader.seen) : id \in Nat /\ id <= calls
    BY DEF Reading, ToSet
  <2>2. QED  BY <2>1 DEF Reading, ItemsAreSingle
<1>12. QED  BY <1>5, <1>8, <1>9, <1>10, <1>11 DEF Reading

\* A line is written, or a row inserted.
LEMMA StoredItem ==
    ASSUME Reading, NEW w \in Appending, items' = Append(items, writer[w].item),
           UNCHANGED <<backend, calls, now, reader, overlapped>>, lostPlace' \in BOOLEAN,
           ~lostPlace' => ~lostPlace,
           \A v \in Writers : writer'[v].pc = "appending" => v # w /\ writer'[v] = writer[v]
    PROVE  Reading'
<1> DEFINE it == writer[w].item
           last == Len(items) + 1
<1>1. Unread(w) /\ it \in ItemRecords
  BY DEF Reading, NewAreUnread, Unread
<1>2. items \in Seq(ItemRecords)
  BY DEF Reading, ItemsAreSingle
<1>3. /\ items' \in Seq(ItemRecords) /\ DOMAIN items' = 1 .. last /\ items'[last] = it
      /\ \A n \in DOMAIN items : items'[n] = items[n]
  BY <1>1, <1>2
<1>4. DOMAIN items = 1 .. Len(items) /\ Len(items) \in Nat
  BY <1>2
<1> HIDE DEF it, last
<1>5. \A n \in DOMAIN items' : (n = last /\ items'[n] = it) \/ (n \in DOMAIN items /\ items'[n] = items[n])
  <2>1. \A n \in 1 .. last : n = last \/ n \in DOMAIN items
    BY <1>4 DEF last
  <2>2. ASSUME NEW n \in DOMAIN items'
        PROVE  (n = last /\ items'[n] = it) \/ (n \in DOMAIN items /\ items'[n] = items[n])
    <3>1. n \in 1 .. last
      BY <1>3
    <3>2. CASE n = last
      BY <1>3, <3>2
    <3>3. CASE n \in DOMAIN items
      BY <1>3, <3>3
    <3>4. QED  BY <2>1, <3>1, <3>2, <3>3
  <2>3. QED  BY <2>2
<1>6. \A n \in DOMAIN items : items[n].id # it.id
  BY <1>1 DEF Unread, Ids, it
<1>7. Ids(items') = Ids(items) \cup {it.id}
  BY <1>3, <1>4, <1>5 DEF Ids, last
<1>8. \A v \in Appending' : v \in Appending /\ v # w /\ writer'[v] = writer[v]
  BY DEF Appending
<1>9. ItemsAreSingle'
  <2>1. it.id <= calls /\ it.at <= now
    BY <1>1 DEF Unread, it
  <2>2. QED  BY <1>3, <1>5, <1>6, <2>1, SMTT(30) DEF Reading, ItemsAreSingle
<1>10. NewAreUnread'
  <2>1. \A v \in Appending' : Unread(v) /\ writer[v].item.id # it.id
    BY <1>8 DEF Reading, NewAreUnread, it
  <2>2. QED  BY <1>7, <1>8, <2>1 DEF Reading, NewAreUnread, Unread
<1>11. backend' \in SQL /\ ~overlapped' => TimesTell'
  BY <1>3, <1>4, <1>5, <1>8 DEF Reading, TimesTell, it, last
<1>12. ASSUME ~lostPlace', backend' \in SQL => ~overlapped' PROVE ReadInOrder'
  <2>1. ReadInOrder
    BY <1>12 DEF Reading
  <2>2. CASE reader.cursor = 0 /\ reader.seen = <<>>
    BY <2>1, <2>2 DEF ReadInOrder
  <2>3. ASSUME NEW k \in DOMAIN items, ReadUpTo(k) PROVE k \in DOMAIN items' /\ ReadUpTo(k)'
    <3>1. it.id \notin ToSet(reader.seen) /\ ~(last <= k)
      BY <1>1, <1>4, <2>3 DEF Unread, it, last
    <3>2. QED  BY <1>3, <1>4, <1>5, <2>3, <3>1 DEF ReadUpTo, last
  <2>4. QED  BY <2>1, <2>2, <2>3 DEF ReadInOrder
<1>13. QED  BY <1>9, <1>10, <1>11, <1>12 DEF Reading

\* An append begins: its id is new, and its time is when it began.
LEMMA BegunItem ==
    ASSUME Reading, NEW w \in Writers, UNCHANGED <<backend, items, now, reader, lostPlace>>,
           calls' = calls + 1, writer'[w].item = [id |-> calls + 1, at |-> now, text |-> 0],
           \A v \in Writers \ {w} : writer'[v] = writer[v],
           overlapped' = \/ overlapped
                         \/ \E v \in Writers : writer[v].pc = "appending"
                         \/ \E n \in DOMAIN items : items[n].at = now
    PROVE  Reading'
<1>1. /\ calls \in Nat /\ now \in Nat /\ items \in Seq(ItemRecords)
      /\ \A n \in DOMAIN items : items[n].id <= calls /\ items[n].at <= now
  BY DEF Reading, ItemsAreSingle
<1>2. \A n \in DOMAIN items : items[n].id \in Nat /\ items[n].at \in Nat
  <2>1. \A n \in DOMAIN items : items[n] \in ItemRecords
    BY <1>1
  <2>2. QED  BY <2>1 DEF ItemRecords
<1>3. \A id \in ToSet(reader.seen) : id \in Nat /\ id <= calls
  BY DEF Reading, ToSet
<1>4. ItemsAreSingle'
  BY <1>1, <1>2 DEF Reading, ItemsAreSingle
<1>5. Unread(w)'
  <2>1. writer'[w].item \in ItemRecords /\ writer'[w].item.id = calls + 1 /\ writer'[w].item.at = now
    BY <1>1 DEF ItemRecords
  <2>2. calls + 1 \notin Ids(items) /\ calls + 1 \notin ToSet(reader.seen)
    BY <1>1, <1>2, <1>3 DEF Ids
  <2>3. QED  BY <1>1, <2>1, <2>2 DEF Unread
<1>6. \A v \in Appending' \ {w} : /\ v \in Appending /\ writer'[v] = writer[v] /\ Unread(v)
                                  /\ writer[v].item.id \in Nat /\ writer[v].item.id <= calls
                                  /\ writer[v].item.at \in Nat
  <2>1. \A v \in Appending' \ {w} : v \in Appending /\ writer'[v] = writer[v]
    BY DEF Appending
  <2>2. QED  BY <2>1 DEF Reading, NewAreUnread, Unread, ItemRecords
<1>7. NewAreUnread'
  <2>1. \A v \in Appending' \ {w} : Unread(v)'
    BY <1>1, <1>6 DEF Unread
  <2>2. \A u, v \in Appending' : writer'[u].item.id = writer'[v].item.id => u = v
    BY <1>1, <1>6 DEF Reading, NewAreUnread
  <2>3. QED  BY <1>5, <2>1, <2>2 DEF NewAreUnread
<1>8. backend' \in SQL /\ ~overlapped' => TimesTell'
  <2> SUFFICES ASSUME backend \in SQL, ~overlapped' PROVE TimesTell'
    OBVIOUS
  <2>1. ~overlapped /\ Appending = {} /\ \A n \in DOMAIN items : items[n].at # now
    BY DEF Appending
  <2>2. \A n \in DOMAIN items : items[n].at < now
    BY <1>1, <1>2, <2>1
  <2>3. QED  BY <1>6, <2>1, <2>2 DEF Reading, TimesTell
<1>9. \A id \in ToSet(reader'.seen) : id <= calls'
  BY <1>1, <1>3
<1>10. ReadInOrder => ReadInOrder'
  BY DEF ReadInOrder, ReadUpTo
<1>11. overlapped' \in BOOLEAN
  BY DEF Reading
<1>12. QED  BY <1>4, <1>7, <1>8, <1>9, <1>10, <1>11 DEF Reading

\* A page is what follows the cursor, in order: none of it is left out before its end.
Follows(s, k) ==
    /\ s \in Seq(ItemRecords)
    /\ \E place \in [DOMAIN s -> (k + 1) .. Len(items)] :
          /\ \A m \in DOMAIN s : s[m] = items[place[m]]
          /\ \A m, n \in DOMAIN s : m < n => place[m] < place[n]
          /\ \A n \in (k + 1) .. Len(items) : \E m \in DOMAIN s : place[m] = n

LEMMA PageRead ==
    ASSUME Reading, NEW k \in 0 .. Len(items), NEW found, Follows(found, k),
           \/ k = 0 /\ reader.cursor = 0 /\ reader.seen = <<>>
           \/ k > 0 /\ ReadUpTo(k),
           IsInjective(reader.seen),
           NEW size \in 1 .. Len(found), NEW page1, page1 = SubSeq(found, 1, size),
           reader' = [seen |-> reader.seen \o [n \in DOMAIN page1 |-> page1[n].id],
                      cursor |-> Last(page1).id],
           items' = items
    PROVE  ReadInOrder'
<1> DEFINE new == [n \in DOMAIN page1 |-> page1[n].id]
           old == reader.seen
<1>1. items \in Seq(ItemRecords) /\ found \in Seq(ItemRecords) /\ old \in Seq(Nat)
  BY DEF Reading, ItemsAreSingle, Follows
<1>2. /\ page1 \in Seq(ItemRecords) /\ DOMAIN page1 = 1 .. size /\ Len(page1) = size
      /\ \A n \in 1 .. size : page1[n] = found[n]
  BY <1>1, SubSeqProperties
<1>3. \A n \in DOMAIN items : items[n].id \in Nat
  <2>1. \A n \in DOMAIN items : items[n] \in ItemRecords
    BY <1>1
  <2>2. QED  BY <2>1 DEF ItemRecords
<1>4. PICK place \in [DOMAIN found -> (k + 1) .. Len(items)] :
          /\ \A m \in DOMAIN found : found[m] = items[place[m]]
          /\ \A m, n \in DOMAIN found : m < n => place[m] < place[n]
          /\ \A n \in (k + 1) .. Len(items) : \E m \in DOMAIN found : place[m] = n
  BY DEF Follows
<1>5. /\ DOMAIN items = 1 .. Len(items) /\ Len(items) \in Nat
      /\ DOMAIN found = 1 .. Len(found) /\ Len(found) \in Nat /\ size \in Nat /\ k \in Nat
  BY <1>1
<1>6. \A m \in 1 .. size : /\ m \in DOMAIN found /\ place[m] \in DOMAIN items /\ place[m] > k
                           /\ new[m] = items[place[m]].id
  <2>1. \A m \in 1 .. size : m \in DOMAIN found
    BY <1>5
  <2>2. \A m \in DOMAIN found : place[m] \in DOMAIN items /\ place[m] > k
    BY <1>4, <1>5
  <2>3. QED  BY <1>2, <1>4, <2>1, <2>2
<1>7. new \in Seq(Nat) /\ Len(new) = size /\ DOMAIN new = 1 .. size
  <2>1. DOMAIN new = 1 .. size
    BY <1>2
  <2>2. \A m \in 1 .. size : new[m] \in Nat
    BY <1>3, <1>6
  <2>3. new \in [1 .. size -> Nat]
    BY <2>1, <2>2
  <2>4. new \in Seq(Nat)
    BY <1>5, <2>3, SeqDef
  <2>5. QED  BY <1>5, <2>1, <2>4, LenProperties
<1> HIDE DEF new, old
<1>8. /\ reader'.seen = old \o new /\ reader'.cursor = items[place[size]].id
      /\ old \o new \in Seq(Nat) /\ Len(old \o new) = Len(old) + size
      /\ DOMAIN (old \o new) = 1 .. Len(old) + size
      /\ \A n \in 1 .. Len(old) + size :
            (old \o new)[n] = IF n <= Len(old) THEN old[n] ELSE new[n - Len(old)]
  <2>1. reader'.seen = old \o new
    BY DEF old, new
  <2>2. reader'.cursor = items[place[size]].id
    <3>1. reader'.cursor = page1[size].id
      BY <1>2 DEF Last
    <3>2. size \in 1 .. size /\ size \in DOMAIN found
      BY <1>5
    <3>3. QED  BY <1>2, <1>4, <3>1, <3>2
  <2>3. /\ old \o new \in Seq(Nat) /\ Len(old \o new) = Len(old) + Len(new)
        /\ \A n \in 1 .. Len(old) + Len(new) :
              (old \o new)[n] = IF n <= Len(old) THEN old[n] ELSE new[n - Len(old)]
    BY <1>1, <1>7, ConcatProperties
  <2>4. DOMAIN (old \o new) = 1 .. Len(old) + size
    BY <1>7, <2>3, LenProperties
  <2>5. QED  BY <1>7, <2>1, <2>2, <2>3, <2>4
<1>9. ToSet(old \o new) = ToSet(old) \cup {new[m] : m \in 1 .. size}
  <2>1. Len(old) \in Nat /\ DOMAIN old = 1 .. Len(old)
    BY <1>1
  <2>2. \A n \in 1 .. Len(old) : n \in 1 .. Len(old) + size /\ (old \o new)[n] = old[n]
    BY <1>5, <1>8, <2>1
  <2>3. \A m \in 1 .. size : m + Len(old) \in 1 .. Len(old) + size
                             /\ (old \o new)[m + Len(old)] = new[m]
    BY <1>5, <1>8, <2>1, SMTT(30)
  <2>4. \A n \in 1 .. Len(old) + size : n \in 1 .. Len(old) \/ n - Len(old) \in 1 .. size
    BY <1>5, <2>1
  <2>5. ToSet(old) = {old[n] : n \in 1 .. Len(old)}
    BY <2>1 DEF ToSet
  <2>6. ToSet(old \o new) = {(old \o new)[n] : n \in 1 .. Len(old) + size}
    BY <1>8 DEF ToSet
  <2>7. \A n \in 1 .. Len(old) + size :
           (old \o new)[n] \in {old[i] : i \in 1 .. Len(old)} \cup {new[m] : m \in 1 .. size}
    <3> TAKE n \in 1 .. Len(old) + size
    <3>1. (old \o new)[n] = IF n <= Len(old) THEN old[n] ELSE new[n - Len(old)]
      BY <1>8
    <3>2. CASE n <= Len(old)
      <4>1. n \in 1 .. Len(old) /\ (old \o new)[n] = old[n]
        BY <2>1, <3>1, <3>2
      <4>2. QED  BY <4>1
    <3>3. CASE ~(n <= Len(old))
      <4>1. n - Len(old) \in 1 .. size /\ (old \o new)[n] = new[n - Len(old)]
        BY <2>1, <2>4, <3>1, <3>3
      <4>2. QED  BY <4>1
    <3>4. QED  BY <3>2, <3>3
  <2>8. QED  BY <2>2, <2>3, <2>5, <2>6, <2>7
<1>10. \A n \in DOMAIN items : items[n].id \in ToSet(old) <=> n <= k
  BY <1>5 DEF ReadUpTo, ToSet, old
<1>11. \A m, n \in DOMAIN items : items[m].id = items[n].id => m = n
  BY DEF Reading, ItemsAreSingle
<1>12. \A m \in 1 .. size : new[m] \notin ToSet(old)
  <2> TAKE m \in 1 .. size
  <2>1. place[m] \in DOMAIN items /\ ~(place[m] <= k) /\ new[m] = items[place[m]].id
    BY <1>5, <1>6
  <2>2. QED  BY <1>10, <2>1
<1>13. \A m, n \in 1 .. size : new[m] = new[n] => m = n
  <2> SUFFICES ASSUME NEW m \in 1 .. size, NEW n \in 1 .. size, new[m] = new[n] PROVE m = n
    OBVIOUS
  <2>1. place[m] = place[n]
    <3>1. /\ place[m] \in DOMAIN items /\ place[n] \in DOMAIN items
          /\ items[place[m]].id = items[place[n]].id
      BY <1>6
    <3>2. QED  BY <1>11, <3>1
  <2>2. place[m] \in Nat /\ place[n] \in Nat
    BY <1>5, <1>6
  <2>3. ~(m < n) /\ ~(n < m)
    BY <1>4, <1>6, <2>1, <2>2, SMTT(30)
  <2>4. QED  BY <2>3
<1>14. ASSUME NEW m \in 1 .. Len(old) + size, NEW n \in 1 .. Len(old) + size,
              (old \o new)[m] = (old \o new)[n]
       PROVE  m = n
  <2>1. Len(old) \in Nat /\ DOMAIN old = 1 .. Len(old)
    BY <1>1
  <2>2. \A i \in 1 .. Len(old) : old[i] \in ToSet(old)
    BY <2>1 DEF ToSet
  <2>3. \A i \in 1 .. Len(old) + size :
            \/ i \in 1 .. Len(old) /\ (old \o new)[i] = old[i]
            \/ i - Len(old) \in 1 .. size /\ (old \o new)[i] = new[i - Len(old)]
    BY <1>5, <1>8, <2>1
  <2>4. CASE m \in 1 .. Len(old) /\ n \in 1 .. Len(old) /\ old[m] = old[n]
    BY <2>1, <2>4 DEF IsInjective, old
  <2>5. CASE m - Len(old) \in 1 .. size /\ n - Len(old) \in 1 .. size
                /\ new[m - Len(old)] = new[n - Len(old)]
    <3>1. m - Len(old) = n - Len(old)
      BY <1>13, <2>5
    <3>2. QED  BY <2>1, <3>1
  <2>6. QED  BY <1>12, <1>14, <2>2, <2>3, <2>4, <2>5
<1>15. IsInjective(reader'.seen)
  <2>1. \A m, n \in 1 .. Len(old) + size : (old \o new)[m] = (old \o new)[n] => m = n
    BY <1>14
  <2>2. IsInjective(old \o new)
    BY <1>8, <2>1, Zenon DEF IsInjective
  <2>3. QED  BY <1>8, <2>2
<1>16. \A n \in DOMAIN items : items[n].id \in ToSet(old \o new) <=> n <= place[size]
  <2> SUFFICES ASSUME NEW n \in DOMAIN items
               PROVE  items[n].id \in ToSet(old \o new) <=> n <= place[size]
    OBVIOUS
  <2>1. size \in 1 .. size /\ place[size] \in Nat /\ place[size] > k /\ n \in Nat
    BY <1>5, <1>6
  <2>2. CASE n <= k
    <3>1. items[n].id \in ToSet(old \o new)
      BY <1>9, <1>10, <2>2
    <3>2. n <= place[size]
      BY <1>5, <2>1, <2>2
    <3>3. QED  BY <3>1, <3>2
  <2>3. CASE n > k
    <3>1. PICK m \in DOMAIN found : place[m] = n
      BY <1>4, <1>5, <2>1, <2>3
    <3>2. m <= size <=> n <= place[size]
      <4>1. m < size => n < place[size]
        BY <1>4, <1>6, <2>1, <3>1
      <4>2. size < m => place[size] < n
        BY <1>4, <1>6, <2>1, <3>1
      <4>3. m = size => n = place[size]
        BY <3>1
      <4>4. QED  BY <1>5, <2>1, <3>1, <4>1, <4>2, <4>3
    <3>3. m <= size => items[n].id \in ToSet(old \o new)
      <4>1. m <= size => m \in 1 .. size
        BY <1>5, <3>1
      <4>2. QED  BY <1>6, <1>9, <3>1, <4>1
    <3>4. items[n].id \in ToSet(old \o new) => m <= size
      <4>1. items[n].id \notin ToSet(old)
        BY <1>5, <1>10, <2>1, <2>3
      <4>2. ASSUME NEW j \in 1 .. size, items[n].id = new[j] PROVE m <= size
        <5>1. place[j] = place[m]
          BY <1>6, <1>11, <3>1, <4>2
        <5>2. ~(j < m)
          BY <1>4, <1>6, <3>1, <5>1, <2>1
        <5>3. QED  BY <1>5, <3>1, <4>2, <5>2
      <4>3. QED  BY <1>9, <4>1, <4>2
    <3>5. QED  BY <3>2, <3>3, <3>4
  <2>4. QED  BY <1>5, <2>1, <2>2, <2>3
<1>17. place[size] \in DOMAIN items' /\ ReadUpTo(place[size])'
  <2>1. size \in 1 .. size
    BY <1>5
  <2>2. place[size] \in DOMAIN items'
    BY <1>6, <2>1
  <2>3. QED  BY <1>8, <1>16, <2>2 DEF ReadUpTo
<1>18. QED  BY <1>15, <1>17 DEF ReadInOrder

\* memory, jsonl: the rest of the file is a page that follows.
LEMMA RestFollows ==
    ASSUME ItemsAreSingle, NEW k \in 0 .. Len(items)
    PROVE  Follows(SubSeq(items, k + 1, Len(items)), k)
<1> DEFINE s == SubSeq(items, k + 1, Len(items))
           place == [n \in DOMAIN s |-> k + n]
<1>1. items \in Seq(ItemRecords) /\ Len(items) \in Nat /\ k \in Nat
  BY DEF ItemsAreSingle
<1>2. /\ s \in Seq(ItemRecords) /\ DOMAIN s = 1 .. Len(items) - k
      /\ \A n \in 1 .. Len(items) - k : s[n] = items[k + n]
  BY <1>1, SubSeqProperties
<1> HIDE DEF s
<1>3. place \in [DOMAIN s -> (k + 1) .. Len(items)]
  BY <1>1, <1>2
<1>4. /\ \A m \in DOMAIN s : s[m] = items[place[m]]
      /\ \A m, n \in DOMAIN s : m < n => place[m] < place[n]
  BY <1>1, <1>2
<1>5. ASSUME NEW n \in (k + 1) .. Len(items) PROVE \E m \in DOMAIN s : place[m] = n
  <2>1. n - k \in DOMAIN s /\ place[n - k] = n
    BY <1>1, <1>2, <1>5
  <2>2. QED  BY <2>1
<1> HIDE DEF place
<1>6. QED  BY <1>2, <1>3, <1>4, <1>5 DEF Follows, s

\* A sequence that SetToSeqs makes of a finite set has each element at one place.
LEMMA SequenceOfSet ==
    ASSUME NEW S, IsFiniteSet(S), NEW s \in SetToSeqs(S)
    PROVE  /\ s \in Seq(S)
           /\ \A m, n \in DOMAIN s : s[m] = s[n] => m = n
           /\ \A x \in S : \E n \in DOMAIN s : s[n] = x
<1> DEFINE size == Cardinality(S)
<1>1. size \in Nat
  BY FS_CardinalityType
<1> HIDE DEF size
<1>2. s \in [1 .. size -> S] /\ \A m, n \in 1 .. size : m # n => s[m] # s[n]
  BY DEF SetToSeqs, size
<1>3. s \in Seq(S)
  BY <1>1, <1>2, SeqDef
<1> DEFINE D == 1 .. size
           R == {s[n] : n \in D}
<1>4. IsFiniteSet(D) /\ Cardinality(D) = size
  BY <1>1, FS_Interval
<1>5. [n \in D |-> s[n]] \in Injection(D, R) /\ [n \in D |-> s[n]] \in Surjection(D, R)
  BY <1>2 DEF Injection, Surjection, IsInjective
<1>6. IsFiniteSet(R) /\ Cardinality(R) = size
  <2>1. IsFiniteSet(R) /\ (Cardinality(R) = Cardinality(D) <=> [n \in D |-> s[n]] \in Injection(D, R))
    BY <1>4, <1>5, FS_Surjection
  <2>2. QED  BY <1>4, <1>5, <2>1
<1>7. R \in SUBSET S
  BY <1>2
<1>8. S = R
  BY <1>6, <1>7, FS_Subset DEF size
<1>9. QED  BY <1>2, <1>3, <1>8

\* sqlite, postgres: while the times tell the order, so does a page.
LEMMA LaterFollows ==
    ASSUME ItemsAreSingle, TimesTell, NEW k \in 0 .. Len(items),
           NEW id, \/ k = 0 /\ id = 0
                   \/ k > 0 /\ items[k].id = id,
           NEW s \in AfterTime(id)
    PROVE  Follows(s, k)
<1>1. /\ items \in Seq(ItemRecords) /\ Len(items) \in Nat /\ k \in Nat
      /\ DOMAIN items = 1 .. Len(items)
  BY DEF ItemsAreSingle
<1>2. \A n \in DOMAIN items : items[n] \in ItemRecords /\ items[n].id # 0 /\ items[n].at \in Nat
  <2>1. \A n \in DOMAIN items : items[n] \in ItemRecords
    BY <1>1
  <2>2. QED  BY <2>1 DEF ItemRecords
<1> DEFINE later == {items[n] : n \in (k + 1) .. Len(items)}
<1>3. /\ s \in SetToSeqs(later)
      /\ \A m, n \in DOMAIN s : m < n => s[m].at <= s[n].at
  <2>1. CASE k = 0 /\ id = 0
    <3>1. later = ToSet(items)
      BY <1>1, <2>1 DEF ToSet
    <3>2. QED  BY <2>1, <3>1 DEF AfterTime
  <2>2. CASE k > 0 /\ items[k].id = id
    <3>1. k \in DOMAIN items /\ id # 0
      BY <1>1, <1>2, <2>2
    <3>2. \A a \in ToSet(items) : a.id = id <=> a = items[k]
      BY <2>2, <3>1 DEF ToSet, ItemsAreSingle
    <3>3. items[k] \in ToSet(items)
      BY <3>1 DEF ToSet
    <3>4. \A n \in DOMAIN items : items[n].at > items[k].at <=> n \in (k + 1) .. Len(items)
      <4> TAKE n \in DOMAIN items
      <4>1. n \in Nat /\ items[n].at \in Nat /\ items[k].at \in Nat
        BY <1>1, <1>2, <3>1
      <4>2. CASE n < k
        <5>1. items[n].at < items[k].at
          BY <3>1, <4>2 DEF TimesTell
        <5>2. QED  BY <1>1, <4>1, <4>2, <5>1
      <4>3. CASE n = k
        BY <1>1, <4>1, <4>3
      <4>4. CASE k < n
        <5>1. items[k].at < items[n].at
          BY <3>1, <4>4 DEF TimesTell
        <5>2. QED  BY <1>1, <4>1, <4>4, <5>1
      <4>5. QED  BY <1>1, <4>1, <4>2, <4>3, <4>4
    <3>5. later = {i \in ToSet(items) : \E a \in ToSet(items) : a.id = id /\ i.at > a.at}
      <4>1. \A i : (\E a \in ToSet(items) : a.id = id /\ i.at > a.at) <=> i.at > items[k].at
        BY <3>2, <3>3
      <4>2. \A i : i \in later <=> i \in ToSet(items) /\ i.at > items[k].at
        BY <1>1, <3>4 DEF ToSet
      <4>3. QED  BY <4>1, <4>2
    <3>6. QED  BY <3>1, <3>5 DEF AfterTime
  <2>3. QED  BY <2>1, <2>2
<1>4. IsFiniteSet(later)
  <2>1. IsFiniteSet((k + 1) .. Len(items))
    <3>1. k + 1 \in Int /\ Len(items) \in Int
      BY <1>1
    <3>2. QED  BY <3>1, FS_Interval
  <2>2. [n \in (k + 1) .. Len(items) |-> items[n]] \in Surjection((k + 1) .. Len(items), later)
    BY DEF Surjection
  <2>3. QED  BY <2>1, <2>2, FS_Surjection
<1> HIDE DEF later
<1>5. /\ s \in Seq(later)
      /\ \A m, n \in DOMAIN s : s[m] = s[n] => m = n
      /\ \A x \in later : \E n \in DOMAIN s : s[n] = x
  BY <1>3, <1>4, SequenceOfSet
<1>6. \A m \in DOMAIN s : \E n \in (k + 1) .. Len(items) : s[m] = items[n]
  BY <1>5 DEF later
<1> DEFINE place == [m \in DOMAIN s |-> CHOOSE n \in (k + 1) .. Len(items) : s[m] = items[n]]
<1>7. /\ place \in [DOMAIN s -> (k + 1) .. Len(items)]
      /\ \A m \in DOMAIN s : s[m] = items[place[m]]
  BY <1>6
<1> HIDE DEF place
<1>8. s \in Seq(ItemRecords)
  <2>1. later \subseteq ItemRecords
    BY <1>1, <1>2 DEF later
  <2>2. QED  BY <1>5, <2>1
<1>9. DOMAIN s \subseteq Nat
  BY <1>8
<1>10. \A m \in DOMAIN s : place[m] \in DOMAIN items /\ place[m] \in Nat
  BY <1>1, <1>7
<1>11. ASSUME NEW m \in DOMAIN s, NEW n \in DOMAIN s, m < n PROVE place[m] < place[n]
  <2>1. s[m].at <= s[n].at /\ s[m] # s[n]
    BY <1>3, <1>5, <1>9, <1>11
  <2>2. place[m] # place[n]
    BY <1>7, <2>1
  <2>3. ~(place[n] < place[m])
    <3>1. s[m].at \in Nat /\ s[n].at \in Nat
      BY <1>2, <1>7, <1>10
    <3>2. place[n] < place[m] => s[n].at < s[m].at
      BY <1>7, <1>10 DEF TimesTell
    <3>3. QED  BY <2>1, <3>1, <3>2
  <2>4. QED  BY <1>10, <2>2, <2>3
<1>12. ASSUME NEW n \in (k + 1) .. Len(items) PROVE \E m \in DOMAIN s : place[m] = n
  <2>1. items[n] \in later /\ n \in DOMAIN items
    BY <1>1 DEF later
  <2>2. PICK m \in DOMAIN s : s[m] = items[n]
    BY <1>5, <2>1
  <2>3. items[place[m]].id = items[n].id
    BY <1>7, <2>2
  <2>4. QED  BY <1>10, <2>1, <2>3 DEF ItemsAreSingle
<1>13. QED  BY <1>7, <1>8, <1>11, <1>12 DEF Follows

LEMMA PollStep ==
    ASSUME CollectionAssumption, Reading, Poll
    PROVE  Reading'
<1>1. /\ UNCHANGED <<backend, items, writer, calls, now, overlapped, lostPlace>>
      /\ items \in Seq(ItemRecords) /\ calls \in Nat
  BY DEF Poll, Reading, ItemsAreSingle
<1>2. PICK found \in IF backend \in SQL THEN AfterTime(reader.cursor)
                     ELSE {AfterPlace(reader.cursor)} :
         LET page1 == SubSeq(found, 1, IF Len(found) < PageSize THEN Len(found) ELSE PageSize)
         IN  /\ page1 # <<>>
             /\ reader' = [seen   |-> reader.seen \o [n \in DOMAIN page1 |-> page1[n].id],
                           cursor |-> Last(page1).id]
  BY DEF Poll
<1>3. PICK size : size = IF Len(found) < PageSize THEN Len(found) ELSE PageSize
  OBVIOUS
<1>4. PICK page1 : page1 = SubSeq(found, 1, size)
  OBVIOUS
<1>5. /\ page1 # <<>>
      /\ reader' = [seen   |-> reader.seen \o [n \in DOMAIN page1 |-> page1[n].id],
                    cursor |-> Last(page1).id]
  BY <1>2, <1>3, <1>4
<1>6. found \in Seq(ToSet(items))
  <2>1. items \in Seq(ToSet(items)) /\ Len(items) \in Nat
    <3>1. items \in [1 .. Len(items) -> ToSet(items)] /\ Len(items) \in Nat
      BY <1>1 DEF ToSet
    <3>2. QED  BY <3>1, SeqDef
  <2>2. CASE backend \notin SQL
    <3>1. found = AfterPlace(reader.cursor)
      BY <1>2, <2>2
    <3>2. CASE reader.cursor \in Ids(items)
      <4>1. Place(items, reader.cursor) \in 1 .. Len(items)
        BY <1>1, <3>2, PlaceOfId DEF Reading
      <4>2. found = SubSeq(items, 1 + Place(items, reader.cursor), Len(items))
        BY <3>1, <3>2 DEF AfterPlace
      <4>3. QED  BY <2>1, <4>1, <4>2, SubSeqProperties
    <3>3. CASE reader.cursor \notin Ids(items)
      BY <2>1, <3>1, <3>3 DEF AfterPlace
    <3>4. QED  BY <3>2, <3>3
  <2>3. CASE backend \in SQL
    <3>1. PICK S \in SUBSET ToSet(items) : found \in SetToSeqs(S)
      <4>1. found \in AfterTime(reader.cursor)
        BY <1>2, <2>3
      <4>2. QED  BY <4>1 DEF AfterTime
    <3>2. IsFiniteSet(ToSet(items))
      <4>1. IsFiniteSet(1 .. Len(items))
        BY <2>1, FS_Interval
      <4>2. items \in Surjection(1 .. Len(items), ToSet(items))
        BY <1>1 DEF Surjection, ToSet
      <4>3. QED  BY <4>1, <4>2, FS_Surjection
    <3>3. IsFiniteSet(S)
      BY <3>2, FS_Subset
    <3>4. found \in Seq(S)
      BY <3>1, <3>3, SequenceOfSet
    <3>5. QED  BY <3>1, <3>4
  <2>4. QED  BY <2>2, <2>3
<1>7. Len(found) \in Nat /\ size \in Nat /\ size <= Len(found)
  BY <1>3, <1>6, CollectionAssumption
<1>8. /\ page1 \in Seq(ToSet(items)) /\ DOMAIN page1 = 1 .. size /\ Len(page1) = size
      /\ \A n \in 1 .. size : page1[n] = found[n]
  BY <1>4, <1>6, <1>7, SubSeqProperties
<1>9. size \in 1 .. Len(found)
  <2>1. size # 0
    BY <1>5, <1>8
  <2>2. QED  BY <1>7, <2>1
<1>10. \A i \in ToSet(items) : i.id \in Ids(items) /\ i.id \in Nat /\ i.id <= calls
  <2>1. \A n \in DOMAIN items : items[n] \in ItemRecords
    BY <1>1
  <2>2. QED  BY <2>1 DEF Reading, ItemsAreSingle, ToSet, Ids, ItemRecords
<1>11. PICK new : new = [n \in DOMAIN page1 |-> page1[n].id]
  OBVIOUS
<1>12. new \in Seq(Ids(items)) /\ new \in Seq(Nat)
  <2>1. \A n \in 1 .. size : page1[n].id \in Ids(items) /\ page1[n].id \in Nat
    BY <1>8, <1>10
  <2>2. new \in [1 .. size -> Ids(items)] /\ new \in [1 .. size -> Nat]
    BY <1>8, <1>11, <2>1
  <2>3. QED  BY <1>7, <2>2, SeqDef
<1>13. /\ reader' \in [seen : Seq(Nat), cursor : Nat]
       /\ ToSet(reader'.seen) \subseteq ToSet(reader.seen) \cup Ids(items)
  <2>1. reader'.seen = reader.seen \o new /\ reader.seen \in Seq(Nat)
    BY <1>5, <1>11 DEF Reading
  <2>2. reader.seen \o new \in Seq(Nat)
    BY <1>12, <2>1, ConcatProperties
  <2>3. Last(page1).id \in Nat
    <3>1. size \in 1 .. size
      BY <1>7, <1>9
    <3>2. page1[size] \in ToSet(items)
      BY <1>8, <3>1
    <3>3. QED  BY <1>8, <1>10, <3>2 DEF Last
  <2>4. \A n \in DOMAIN (reader.seen \o new) :
           (reader.seen \o new)[n] \in ToSet(reader.seen) \cup Ids(items)
    BY <1>12, <2>1 DEF ToSet
  <2>5. QED  BY <1>5, <1>11, <2>1, <2>2, <2>3, <2>4 DEF ToSet
<1>14. NewAreUnread'
  BY <1>1, <1>13 DEF Reading, NewAreUnread, Unread, Appending
<1>15. ItemsAreSingle' /\ (TimesTell => TimesTell')
  BY <1>1 DEF Reading, ItemsAreSingle, TimesTell, Appending
<1>16. \A id \in ToSet(reader'.seen) : id <= calls'
  <2>1. \A id \in Ids(items) : id <= calls
    BY DEF Reading, ItemsAreSingle, Ids
  <2>2. QED  BY <1>1, <1>13, <2>1 DEF Reading
<1>17. ASSUME ~lostPlace, backend \in SQL => ~overlapped PROVE ReadInOrder'
  <2>1. ReadInOrder /\ ItemsAreSingle /\ (backend \in SQL => TimesTell)
    BY <1>17 DEF Reading
  <2>2. PICK k \in 0 .. Len(items) :
            \/ k = 0 /\ reader.cursor = 0 /\ reader.seen = <<>>
            \/ k > 0 /\ ReadUpTo(k)
    <3>1. \A k \in DOMAIN items : k \in 0 .. Len(items) /\ k > 0
      BY <1>1
    <3>2. 0 \in 0 .. Len(items)
      BY <1>1
    <3>3. QED  BY <2>1, <3>1, <3>2 DEF ReadInOrder
  <2>3. \/ k = 0 /\ reader.cursor = 0 /\ 0 \notin Ids(items)
        \/ k > 0 /\ k \in DOMAIN items /\ items[k].id = reader.cursor
    <3>1. \A n \in DOMAIN items : items[n] \in ItemRecords
      BY <1>1
    <3>2. 0 \notin Ids(items)
      BY <3>1 DEF Ids, ItemRecords
    <3>3. k > 0 => k \in DOMAIN items
      BY <1>1
    <3>4. QED  BY <2>2, <3>2, <3>3 DEF ReadUpTo
  <2>4. Follows(found, k)
    <3>1. CASE backend \in SQL
      <4>1. found \in AfterTime(reader.cursor)
        BY <1>2, <3>1
      <4>2. QED  BY <2>1, <2>3, <3>1, <4>1, LaterFollows
    <3>2. CASE backend \notin SQL
      <4>1. found = AfterPlace(reader.cursor)
        BY <1>2, <3>2
      <4>2. CASE k = 0
        <5>1. found = items
          BY <2>3, <4>1, <4>2 DEF AfterPlace
        <5>2. SubSeq(items, k + 1, Len(items)) = items
          BY <1>1, <4>2, SubSeqFull
        <5>3. QED  BY <2>1, <5>1, <5>2, RestFollows
      <4>3. CASE k > 0
        <5>1. reader.cursor \in Ids(items) /\ Place(items, reader.cursor) = k
          BY <2>1, <2>3, <4>3, PlaceIsIt DEF Ids
        <5>2. found = SubSeq(items, 1 + k, Len(items)) /\ 1 + k = k + 1
          BY <4>1, <5>1 DEF AfterPlace
        <5>3. QED  BY <2>1, <5>2, RestFollows
      <4>4. QED  BY <2>2, <4>2, <4>3
    <3>3. QED  BY <3>1, <3>2
  <2>5. QED  BY <1>1, <1>4, <1>5, <1>9, <2>1, <2>2, <2>4, PageRead DEF ReadInOrder
<1>18. QED  BY <1>1, <1>13, <1>14, <1>15, <1>16, <1>17 DEF Reading

\* Steps that touch neither the items nor the reader, and begin no append.
LEMMA StillReading ==
    ASSUME Reading, UNCHANGED <<backend, items, calls, reader, overlapped, lostPlace>>,
           now' \in Nat, now' >= now,
           \A w \in Writers : writer'[w].pc = "appending" =>
               writer[w].pc = "appending" /\ writer'[w].item = writer[w].item
    PROVE  Reading'
<1>1. items' \in Seq(ItemRecords) /\ calls \in Nat
  BY DEF Reading, ItemsAreSingle
<1>2. \E from \in [DOMAIN items' -> DOMAIN items] :
          /\ \A m, n \in DOMAIN items' : m < n => from[m] < from[n]
          /\ \A n \in DOMAIN items' : /\ items'[n].id = items[from[n]].id
                                      /\ items'[n].at = items[from[n]].at
  <2>1. [n \in DOMAIN items |-> n] \in [DOMAIN items' -> DOMAIN items]
    OBVIOUS
  <2>2. QED  BY <2>1
<1>3. Thins(items')
  BY <1>1, <1>2 DEF Thins
<1>4. QED  BY <1>1, <1>3, ThinnedItems DEF Reading

LEMMA ReadingWriter ==
  ASSUME CollectionInv, Reading, ~cut', NEW w \in Writers,
         \/ BeginAppend(w) \/ StoreItem(w) \/ CancelAppend(w)
         \/ ReadLocked(w) \/ Replace(w) \/ CancelEdit(w) \/ OrphanFails(w)
  PROVE  Reading'
<1>1. ~cut /\ writer = [v \in Writers |-> writer[v]] /\ Idle.pc = "idle" /\ now \in Nat /\ calls \in Nat
  <2>1. cut' = cut \/ cut' = TRUE
    BY DEF BeginAppend, StoreItem, CancelAppend, ReadLocked, Replace, CancelEdit, OrphanFails
  <2>2. QED  BY <2>1 DEF CollectionInv, Idle, Reading, ItemsAreSingle
<1>2. writer[w].pc \notin {"adrift", "orphaned"}
  BY <1>1 DEF CollectionInv
<1>3. ASSUME Become(w, Idle)
      PROVE  \A v \in Writers : writer'[v].pc = "appending" => v # w /\ writer'[v] = writer[v]
  BY <1>1, <1>3 DEF Become
<1>4. CASE BeginAppend(w)
  <2>1. PICK item : item = [id |-> calls + 1, at |-> now, text |-> 0]
    OBVIOUS
  <2>2. Become(w, [Idle EXCEPT !.pc = "appending", !.item = item])
    BY <1>4, <2>1 DEF BeginAppend
  <2>3. writer'[w].item = item /\ \A v \in Writers \ {w} : writer'[v] = writer[v]
    BY <1>1, <2>2 DEF Become, Idle
  <2>4. QED  BY <1>4, <2>1, <2>3, BegunItem DEF BeginAppend
<1>5. CASE StoreItem(w)
  <2>1. w \in Appending /\ items' = Append(items, writer[w].item)
    BY <1>2, <1>5 DEF StoreItem, Appending, Change
  <2>2. lostPlace' \in BOOLEAN /\ (~lostPlace' => ~lostPlace)
    BY <1>5 DEF StoreItem, Change, Reading
  <2>3. \A v \in Writers : writer'[v].pc = "appending" => v # w /\ writer'[v] = writer[v]
    BY <1>3, <1>5 DEF StoreItem
  <2>4. QED  BY <1>5, <2>1, <2>2, <2>3, StoredItem DEF StoreItem
<1>6. CASE CancelAppend(w) \/ CancelEdit(w)
  BY <1>6 DEF CancelAppend, CancelEdit
<1>7. CASE ReadLocked(w)
  <2>1. \A v \in Writers : writer'[v].pc = "appending" =>
            writer[v].pc = "appending" /\ writer'[v].item = writer[v].item
    <3>1. ASSUME NEW r, r.pc # "appending", Become(w, r)
          PROVE  \A v \in Writers : writer'[v].pc = "appending" =>
                     writer[v].pc = "appending" /\ writer'[v].item = writer[v].item
      BY <1>1, <3>1 DEF Become
    <3>2. IsCall(writer[w])
      BY DEF CollectionInv
    <3>3. PICK lines : lines = Edited(items, writer[w].op, writer[w].target)
      OBVIOUS
    <3>4. [writer[w] EXCEPT !.pc = "rewriting", !.lines = lines].pc = "rewriting"
      BY <3>2 DEF IsCall
    <3>5. Become(w, Idle) \/ Become(w, [writer[w] EXCEPT !.pc = "rewriting", !.lines = lines])
      BY <1>7, <3>3 DEF ReadLocked
    <3>6. QED  BY <1>1, <3>1, <3>4, <3>5
  <2>2. QED  BY <1>1, <1>7, <2>1, StillReading DEF ReadLocked
<1>8. CASE Replace(w)
  <2>1. /\ writer[w].lines = Edited(items, writer[w].op, writer[w].target)
        /\ writer[w].op \in {"update", "delete", "clear"}
    BY <1>1, <1>2, <1>8 DEF Replace, CollectionInv, RewriteIsCurrent
  <2>2. Thins(items')
    BY <1>8, <2>1, EditThins DEF Replace, Change, Reading
  <2>3. /\ lostPlace' \in BOOLEAN
        /\ ~lostPlace' => ~lostPlace /\ reader.cursor \notin Ids(items) \ Ids(items')
    BY <1>8 DEF Replace, Change, Reading
  <2>4. \A v \in Writers : writer'[v].pc = "appending" => v # w /\ writer'[v] = writer[v]
    BY <1>3, <1>8 DEF Replace
  <2>5. QED  BY <1>1, <1>8, <2>2, <2>3, <2>4, ThinnedItems DEF Replace, Reading
<1>9. CASE OrphanFails(w)
  BY <1>2, <1>9 DEF OrphanFails
<1>10. QED  BY <1>4, <1>5, <1>6, <1>7, <1>8, <1>9

LEMMA ReadingEdit ==
  ASSUME CollectionInv, Reading, NEW id, NEW op \in {"update", "delete", "clear"},
         EditInPlace(op, id) \/ \E w \in Writers : BeginEdit(w, op, id)
  PROVE  Reading'
<1>1. calls \in Nat /\ now \in Nat
  BY DEF Reading, ItemsAreSingle
<1>2. CASE EditInPlace(op, id)
  <2>1. Thins(items') /\ writer' = writer
    BY <1>2, EditThins DEF EditInPlace, Change, Reading
  <2>2. /\ lostPlace' \in BOOLEAN
        /\ ~lostPlace' => ~lostPlace /\ reader.cursor \notin Ids(items) \ Ids(items')
    BY <1>2 DEF EditInPlace, Change, Reading
  <2>3. QED  BY <1>1, <1>2, <2>1, <2>2, ThinnedItems DEF EditInPlace, Reading
<1>3. ASSUME NEW w \in Writers, BeginEdit(w, op, id) PROVE Reading'
  <2>1. Thins(items')
    BY <1>3, ItemsThin DEF BeginEdit, Reading, ItemsAreSingle, Thins
  <2>2. [Idle EXCEPT !.pc = "waiting", !.op = op, !.target = id].pc = "waiting"
    BY DEF Idle
  <2>3. \A v \in Writers : writer'[v].pc = "appending" =>
            writer[v].pc = "appending" /\ writer'[v].item = writer[v].item
    BY <1>3, <2>2 DEF BeginEdit, Become, CollectionInv
  <2>4. QED  BY <1>1, <1>3, <2>1, <2>3, ThinnedItems DEF BeginEdit, Reading
<1>4. QED  BY <1>2, <1>3

LEMMA ReaderStep ==
    ASSUME CollectionAssumption, ReaderInv, [CollectionNext]_collectionVars
    PROVE  ReaderInv'
<1>1. CollectionInv'
  BY CollectionStep DEF ReaderInv
<1> SUFFICES ASSUME ~cut' PROVE Reading'
  BY <1>1 DEF ReaderInv
<1>2. ~cut
  <2>1. cut' = cut \/ cut' = TRUE
    BY DEF CollectionNext, collectionVars, Tick, Poll, EditInPlace, BeginEdit,
           BeginAppend, StoreItem, CancelAppend, ReadLocked, Replace, CancelEdit, OrphanFails
  <2>2. QED  BY <2>1
<1>3. CollectionInv /\ Reading /\ now \in Nat
  BY <1>2 DEF ReaderInv, Reading, ItemsAreSingle
<1>4. CASE UNCHANGED collectionVars
  BY <1>3, <1>4, StillReading DEF collectionVars
<1>5. CASE Tick
  BY <1>3, <1>5, StillReading DEF Tick
<1>6. CASE Poll
  BY <1>3, <1>6, PollStep
<1>7. CASE \E w \in Writers : \/ BeginAppend(w) \/ StoreItem(w) \/ CancelAppend(w)
                              \/ ReadLocked(w) \/ Replace(w) \/ CancelEdit(w) \/ OrphanFails(w)
  BY <1>3, <1>7, ReadingWriter
<1>8. CASE \E id \in Ids(items) \union {0}, op \in {"update", "delete", "clear"} :
             /\ op = "clear" <=> id = 0
             /\ EditInPlace(op, id) \/ \E w \in Writers : BeginEdit(w, op, id)
  BY <1>3, <1>8, ReadingEdit
<1>9. QED  BY <1>4, <1>5, <1>6, <1>7, <1>8 DEF CollectionNext

LEMMA ReaderInitial == CollectionInit => ReaderInv
<1> SUFFICES ASSUME CollectionInit PROVE ReaderInv
  OBVIOUS
<1>1. /\ items = <<>> /\ calls = 0 /\ now = 0 /\ reader = [seen |-> <<>>, cursor |-> 0]
      /\ lostPlace = FALSE /\ overlapped = FALSE /\ writer = [w \in Writers |-> Idle]
  BY DEF CollectionInit
<1>2. <<>> \in Seq(ItemRecords) /\ <<>> \in Seq(Nat) /\ DOMAIN <<>> = {}
  OBVIOUS
<1>3. Appending = {}
  BY <1>1 DEF Appending, Idle
<1>4. ItemsAreSingle /\ NewAreUnread /\ TimesTell
  BY <1>1, <1>2, <1>3 DEF ItemsAreSingle, NewAreUnread, TimesTell
<1>5. ToSet(reader.seen) = {} /\ ReadInOrder /\ reader \in [seen : Seq(Nat), cursor : Nat]
  BY <1>1, <1>2 DEF ToSet, ReadInOrder, IsInjective
<1>6. Reading
  BY <1>1, <1>4, <1>5 DEF Reading
<1>7. QED  BY <1>6, CollectionInitial DEF ReaderInv

LEMMA ReadingSuffices == ReaderInv => ReaderMissesNothing
<1> SUFFICES ASSUME ReaderInv, ~lostPlace, ~cut, backend \in SQL => ~overlapped
             PROVE  /\ IsInjective(reader.seen)
                    /\ \A i, p \in ToSet(items) :
                          p.id = reader.cursor /\ ReadOrder(i) <= ReadOrder(p) =>
                              i.id \in ToSet(reader.seen)
  BY DEF ReaderMissesNothing
<1>1. ItemsAreSingle /\ ReadInOrder /\ (backend \in SQL => TimesTell)
  BY DEF ReaderInv, Reading
<1>2. items \in Seq(ItemRecords) /\ DOMAIN items \subseteq Nat
  BY <1>1 DEF ItemsAreSingle
<1>3. ASSUME NEW n \in DOMAIN items, NEW k \in DOMAIN items, items[k].id = reader.cursor,
             ReadOrder(items[n]) <= ReadOrder(items[k])
      PROVE  items[n].id \in ToSet(reader.seen)
  <2>1. ReadUpTo(k)
    <3>1. items[k] \in ItemRecords
      BY <1>2
    <3>2. items[k].id # 0
      BY <3>1 DEF ItemRecords
    <3>3. PICK j \in DOMAIN items : ReadUpTo(j)
      BY <1>1, <1>3, <3>2 DEF ReadInOrder
    <3>4. j = k
      BY <1>1, <1>3, <3>3 DEF ReadUpTo, ItemsAreSingle
    <3>5. QED  BY <3>3, <3>4
  <2>2. n <= k
    <3>1. CASE backend \in SQL
      <4>1. items[n] \in ItemRecords /\ items[k] \in ItemRecords
        BY <1>2
      <4>2. items[n].at \in Nat /\ items[k].at \in Nat
        BY <4>1 DEF ItemRecords
      <4>3. k < n => items[k].at < items[n].at
        BY <1>1, <3>1 DEF TimesTell
      <4>4. items[n].at <= items[k].at
        BY <1>3, <3>1 DEF ReadOrder
      <4>5. QED  BY <1>2, <4>2, <4>3, <4>4
    <3>2. CASE backend \notin SQL
      <4>1. \A m \in DOMAIN items : ReadOrder(items[m]) = m
        <5> TAKE m \in DOMAIN items
        <5>1. ReadOrder(items[m]) \in DOMAIN items /\ items[ReadOrder(items[m])] = items[m]
          <6>1. ReadOrder(items[m]) = CHOOSE j \in DOMAIN items : items[j] = items[m]
            BY <3>2 DEF ReadOrder
          <6>2. QED  BY <6>1, Zenon
        <5>2. QED  BY <1>1, <5>1 DEF ItemsAreSingle
      <4>2. QED  BY <1>3, <4>1
    <3>3. QED  BY <3>1, <3>2
  <2>3. QED  BY <2>1, <2>2 DEF ReadUpTo
<1>4. \A i \in ToSet(items) : \E n \in DOMAIN items : i = items[n]
  BY DEF ToSet
<1>5. QED  BY <1>1, <1>3, <1>4 DEF ReadInOrder

\* A reader that pages through a scope misses nothing and gets nothing twice, for any
\* number of writers and calls, any clock and every size of a page (list with since_id
\* of the four collection stores).
THEOREM ReadingCorrect == CollectionSpec => []ReaderMissesNothing
<1>1. CollectionInit => ReaderInv
  BY ReaderInitial
<1>2. ReaderInv /\ [CollectionNext]_collectionVars => ReaderInv'
  BY CollectionAssumption, ReaderStep
<1>3. ReaderInv => ReaderMissesNothing
  BY ReadingSuffices
<1>4. QED  BY <1>1, <1>2, <1>3, PTL DEF CollectionSpec

(***************************************************************************)
(* The fixture and its review file: of what one writer has begun.          *)
(***************************************************************************)
Showings == [cells : Matrix, items : ItemStates]
ReviewPages == [shown : Showings \cup {None}, local : [Cells -> Actions], conflict : BOOLEAN]

ReviewTypeOK ==
    /\ fixture \in Matrix \cup {None} /\ review \in ItemStates \cup {None}
    /\ torn \in BOOLEAN
    /\ req = [q \in Slots |-> req[q]] /\ page \in [Pages -> ReviewPages]

IsRequest(r) ==
    /\ r = [op |-> r.op, at |-> r.at, from |-> r.from, cells |-> r.cells,
            sure |-> r.sure, clean |-> r.clean, seen |-> r.seen]
    /\ r.clean \in BOOLEAN

\* What each request carries, at each place it can be at.
Carries(r) ==
    /\ IsRequest(r)
    /\ r.op = "generate" => r.at \in {"start", "review"} /\ r.cells \in Matrix
    /\ r.op = "update" => /\ r.at \in {"start", "fixture", "items", "review"}
                          /\ r.cells \in [Cells -> Actions]
                          /\ r.at = "fixture" => r.seen \in Matrix
                          /\ r.at = "review" => r.seen \in ItemStates
    /\ r.op = "delete" => r.at \in {"start", "review"}

\* A promotion that counts as clean was pressed where nothing was open.
Cleared(r) ==
    r.op = "promote" /\ r.clean =>
        /\ r.at = "start" => /\ r.seen # None
                             /\ \A c \in Low(r.seen.cells) : r.seen.items[c] \notin {"none", "open"}
        /\ r.at # "start" => Low(r.cells) = {}

\* The files agree, but for the cells that a review has settled in one of them.
AgreeBut(actions) ==
    \A c \in Cells : fixture[c] = "low" <=>
        review # None /\ review[c] = "open" /\ actions[c] = "none"

\* What a writer that meets nobody has done so far.
HalfDone(r) ==
    /\ r.op = "generate" => fixture = r.cells
    /\ r.op = "delete" => fixture = None
    /\ r.op = "update" => /\ fixture # None
                          /\ r.at = "fixture" => fixture = r.seen /\ AgreeBut(NoActions)
                          /\ r.at # "fixture" => AgreeBut(r.cells)
                          /\ r.at = "review" => review = r.seen

OneWriter ==
    ~torn => \A q \in Slots : Begun(q) =>
                 HalfDone(req[q]) /\ \A o \in Slots : Begun(o) => o = q

ReviewInv ==
    /\ ReviewTypeOK /\ OneWriter
    /\ \A q \in Slots : Carries(req[q]) /\ Cleared(req[q])
    /\ ReviewIsKept

\* A review file is written with an open item for each cell that is low.
LEMMA FreshItems ==
    ASSUME EvalStudioAssumption, NEW cells \in Matrix
    PROVE  /\ NeedsReview(cells) \in ItemStates \cup {None}
           /\ \A c \in Cells : cells[c] = "low" <=>
                 NeedsReview(cells) # None /\ NeedsReview(cells)[c] = "open"
<1> DEFINE given == [c \in Cells |-> IF c \in Low(cells) THEN "open" ELSE "none"]
<1>1. given \in ItemStates
  BY DEF ItemStates, Actions
<1>2. CASE Low(cells) = {}
  BY <1>2 DEF NeedsReview, Low
<1>3. CASE Low(cells) # {}
  <2>1. NeedsReview(cells) = given
    BY <1>3 DEF NeedsReview
  <2>2. given # None
    BY <1>1 DEF EvalStudioAssumption
  <2>3. \A c \in Cells : cells[c] = "low" <=> given[c] = "open"
    BY DEF Low
  <2>4. QED  BY <1>1, <2>1, <2>2, <2>3
<1>4. QED  BY <1>2, <1>3

\* A request goes on, with what it has read.
LEMMA GoesOn ==
    ASSUME ReviewTypeOK, NEW q \in Slots, Carries(req[q]), NEW at, NEW seen, Goes(q, at, seen)
    PROVE  /\ req' = [o \in Slots |-> req'[o]]
           /\ \A o \in Slots \ {q} : req'[o] = req[o]
           /\ IsRequest(req'[q])
           /\ req'[q].op = req[q].op /\ req'[q].at = at /\ req'[q].cells = req[q].cells
           /\ req'[q].clean = req[q].clean /\ req'[q].seen = seen
<1> DEFINE r == req[q]
<1>1. req' = [req EXCEPT ![q] = [@ EXCEPT !.at = at, !.seen = seen]]
  BY DEF Goes
<1>2. req = [o \in Slots |-> req[o]]
  BY DEF ReviewTypeOK
<1>3. /\ req' = [o \in Slots |-> req'[o]]
      /\ \A o \in Slots \ {q} : req'[o] = req[o]
      /\ req'[q] = [r EXCEPT !.at = at, !.seen = seen]
  BY <1>1, <1>2
<1>4. r = [op |-> r.op, at |-> r.at, from |-> r.from, cells |-> r.cells,
           sure |-> r.sure, clean |-> r.clean, seen |-> r.seen]
  BY DEF Carries, IsRequest
<1>5. req'[q] = [op |-> r.op, at |-> at, from |-> r.from, cells |-> r.cells,
                sure |-> r.sure, clean |-> r.clean, seen |-> seen]
  BY <1>3, <1>4
<1>6. r.clean \in BOOLEAN
  BY DEF Carries, IsRequest
<1>7. QED  BY <1>3, <1>5, <1>6 DEF IsRequest

\* A request is answered.
LEMMA Answered ==
    ASSUME ReviewTypeOK, NEW q \in Slots, Ends(q)
    PROVE  /\ req' = [o \in Slots |-> req'[o]]
           /\ \A o \in Slots \ {q} : req'[o] = req[o]
           /\ req'[q] = NoRequest
BY DEF ReviewTypeOK, Ends

LEMMA NothingAsked == Carries(NoRequest) /\ Cleared(NoRequest)
BY DEF Carries, Cleared, NoRequest, Request, IsRequest

\* A step that writes neither file, of pages and of requests that have begun no writing.
LEMMA SilentStep ==
    ASSUME ReviewInv, UNCHANGED oracle,
           req' = [o \in Slots |-> req'[o]], page' \in [Pages -> ReviewPages],
           \A o \in Slots :
               \/ req'[o] = req[o]
               \/ Carries(req'[o]) /\ Cleared(req'[o]) /\ ~Begun(o) /\ ~Begun(o)',
           PromotedIsReviewed'
    PROVE  ReviewInv'
<1>1. fixture' = fixture /\ review' = review /\ torn' = torn
  BY DEF oracle
<1>2. ReviewTypeOK'
  BY <1>1 DEF ReviewInv, ReviewTypeOK
<1>3. \A o \in Slots : Begun(o)' <=> Begun(o)
  BY DEF Begun
<1>4. \A o \in Slots : Begun(o) => req'[o] = req[o]
  BY <1>3
<1>5. \A o \in Slots : Begun(o) => (HalfDone(req[o])' <=> HalfDone(req[o]))
  BY <1>1, <1>4 DEF HalfDone, AgreeBut
<1>6. OneWriter'
  <2> SUFFICES ASSUME ~torn', NEW o \in Slots, Begun(o)'
               PROVE  HalfDone(req[o])' /\ \A u \in Slots : Begun(u)' => u = o
    BY DEF OneWriter
  <2>1. Begun(o) /\ ~torn
    BY <1>1, <1>3
  <2>2. HalfDone(req[o]) /\ \A u \in Slots : Begun(u) => u = o
    BY <2>1 DEF ReviewInv, OneWriter
  <2>3. QED  BY <2>1, <2>2, <1>3, <1>4, <1>5
<1>7. \A o \in Slots : Carries(req'[o]) /\ Cleared(req'[o])
  BY DEF ReviewInv
<1>8. ReviewAgrees'
  BY <1>1, <1>3 DEF ReviewInv, ReviewIsKept, ReviewAgrees
<1>9. QED  BY <1>2, <1>6, <1>7, <1>8 DEF ReviewInv, ReviewIsKept

\* A step of a writer: where it still meets nobody, what it has done so far is right.
LEMMA StudioWriterStep ==
    ASSUME ReviewInv, NEW q \in Slots, UNCHANGED catalogue,
           fixture' \in Matrix \cup {None}, review' \in ItemStates \cup {None},
           torn' \in BOOLEAN, page' \in [Pages -> ReviewPages],
           req' = [o \in Slots |-> req'[o]], \A o \in Slots \ {q} : req'[o] = req[o],
           Carries(req'[q]), Cleared(req'[q]),
           ~torn' => /\ ~MeetsAnother(q)
                     /\ Begun(q)' => HalfDone(req[q])'
                     /\ ~Begun(q)' => IF fixture' = None THEN review' = None
                                      ELSE AgreeBut(NoActions)'
    PROVE  ReviewInv'
<1>1. ReviewTypeOK'
  BY DEF ReviewTypeOK
<1>2. ~torn' => \A o \in Slots \ {q} : ~Begun(o)'
  BY DEF MeetsAnother, Begun
<1>3. OneWriter'
  <2> SUFFICES ASSUME ~torn', NEW o \in Slots, Begun(o)'
               PROVE  HalfDone(req[o])' /\ \A u \in Slots : Begun(u)' => u = o
    BY DEF OneWriter
  <2>1. o = q
    BY <1>2
  <2>2. QED  BY <1>2, <2>1
<1>4. \A o \in Slots : Carries(req'[o]) /\ Cleared(req'[o])
  BY DEF ReviewInv
<1>5. ReviewAgrees'
  <2>1. AgreeBut(NoActions)' <=> \A c \in Cells : fixture'[c] = "low" <=> review' # None /\ review'[c] = "open"
    BY DEF AgreeBut, NoActions
  <2>2. QED  BY <2>1 DEF ReviewAgrees
<1>6. PromotedIsReviewed'
  BY DEF ReviewInv, ReviewIsKept, PromotedIsReviewed, catalogue
<1>7. QED  BY <1>1, <1>3, <1>4, <1>5, <1>6 DEF ReviewInv, ReviewIsKept

-----------------------------------------------------------------------------
\* What a request carries that is sent, and a promotion from where nothing is open.
LEMMA SentCarries ==
    ASSUME NEW op, NEW from, NEW cells, NEW sure, NEW clean \in BOOLEAN, NEW seen,
           op = "generate" => cells \in Matrix, op = "update" => cells \in [Cells -> Actions]
    PROVE  LET r == Request(op, from, cells, sure, clean, seen) IN
           /\ Carries(r) /\ r.at = "start"
           /\ op # "promote" \/ ~clean => Cleared(r)
BY DEF Request, Carries, Cleared, IsRequest

\* A page sends a request.
LEMMA SendStep ==
    ASSUME ReviewInv, NEW q \in Slots, NEW r, Send(q, r), Carries(r), Cleared(r),
           r.at = "start", page' \in [Pages -> ReviewPages]
    PROVE  ReviewInv'
<1>1. /\ req[q].op = "none" /\ req' = [req EXCEPT ![q] = r]
      /\ UNCHANGED oracle /\ UNCHANGED catalogue
  BY DEF Send
<1>2. req = [o \in Slots |-> req[o]]
  BY DEF ReviewInv, ReviewTypeOK
<1>3. /\ req' = [o \in Slots |-> req'[o]] /\ req'[q] = r
      /\ \A o \in Slots : o # q => req'[o] = req[o]
  BY <1>1, <1>2
<1>4. ~Begun(q) /\ ~Begun(q)'
  BY <1>1, <1>3 DEF Begun, FixtureOps
<1>5. PromotedIsReviewed'
  BY <1>1 DEF ReviewInv, ReviewIsKept, PromotedIsReviewed, catalogue
<1>6. QED  BY <1>1, <1>3, <1>4, <1>5, SilentStep

\* A page looks, or its user acts on a cell.
LEMMA LookStep ==
    ASSUME ReviewInv, UNCHANGED <<oracle, catalogue, req>>, page' \in [Pages -> ReviewPages]
    PROVE  ReviewInv'
<1>1. /\ req' = [o \in Slots |-> req'[o]] /\ \A o \in Slots : req'[o] = req[o]
      /\ UNCHANGED oracle
  BY DEF ReviewInv, ReviewTypeOK
<1>2. PromotedIsReviewed'
  BY DEF ReviewInv, ReviewIsKept, PromotedIsReviewed, catalogue
<1>3. QED  BY <1>1, <1>2, SilentStep

LEMMA LooksSteps ==
    ASSUME EvalStudioAssumption, ReviewInv, NEW p \in Pages,
           Fetch(p) \/ Reopen(p) \/ ApproveAll(p)
           \/ \E c \in Cells, a \in Actions \ {"none"} : Act(p, c, a)
    PROVE  ReviewInv'
<1>1. page \in [Pages -> ReviewPages]
  BY DEF ReviewInv, ReviewTypeOK
<1>2. CASE Fetch(p)
  <2> DEFINE shown == [cells |-> fixture, items |-> IF review = None THEN NoActions ELSE review]
  <2>1. NoActions \in ItemStates
    BY DEF NoActions, ItemStates, Actions
  <2>2. fixture \in Matrix /\ (review # None => review \in ItemStates)
    BY <1>2 DEF Fetch, ReviewInv, ReviewTypeOK
  <2>3. shown \in Showings
    BY <2>1, <2>2 DEF Showings
  <2> HIDE DEF shown
  <2>4. page' = [page EXCEPT ![p].shown = shown]
    BY <1>2 DEF Fetch, shown
  <2>5. page' \in [Pages -> ReviewPages]
    BY <1>1, <2>3, <2>4 DEF ReviewPages
  <2>6. QED  BY <1>2, <2>5, LookStep DEF Fetch
<1>3. CASE Reopen(p)
  <2>1. page' \in [Pages -> ReviewPages]
    BY <1>1, <1>3 DEF Reopen, ReviewPages, NoActions, Actions
  <2>2. QED  BY <1>3, <2>1, LookStep DEF Reopen
<1>4. CASE ApproveAll(p)
  <2>1. page' = [page EXCEPT ![p].local =
            [c \in Cells |-> IF c \in Pending(page[p]) THEN "approve" ELSE page[p].local[c]]]
    BY <1>4 DEF ApproveAll
  <2>2. [c \in Cells |-> IF c \in Pending(page[p]) THEN "approve" ELSE page[p].local[c]]
            \in [Cells -> Actions]
    BY <1>1 DEF ReviewPages, Actions
  <2>3. page' \in [Pages -> ReviewPages]
    BY <1>1, <2>1, <2>2 DEF ReviewPages
  <2>4. QED  BY <1>4, <2>3, LookStep DEF ApproveAll
<1>5. CASE \E c \in Cells, a \in Actions \ {"none"} : Act(p, c, a)
  <2>1. PICK c \in Cells, a \in Actions \ {"none"} : Act(p, c, a)
    BY <1>5
  <2>2. page' \in [Pages -> ReviewPages]
    BY <1>1, <2>1 DEF Act, ReviewPages
  <2>3. QED  BY <2>1, <2>2, LookStep DEF Act
<1>6. QED  BY <1>2, <1>3, <1>4, <1>5

LEMMA SendSteps ==
    ASSUME ReviewInv, NEW p \in Pages, NEW q \in Slots,
           \/ SaveReview(p, q) \/ SavePrompt(p, q) \/ Generate(p, q)
           \/ Delete(p, q) \/ Promote(p, q) \/ PromoteAgain(p, q)
    PROVE  ReviewInv'
<1>1. page \in [Pages -> ReviewPages] /\ page[p] \in ReviewPages
  BY DEF ReviewInv, ReviewTypeOK
<1> DEFINE Asks(op, cells) == From(p, op, cells)
<1>2. \A cells \in Matrix : LET r == Asks("generate", cells) IN
          Carries(r) /\ Cleared(r) /\ r.at = "start"
  BY SentCarries DEF From
<1>3. CASE SaveReview(p, q)
  <2>1. Send(q, Asks("update", page[p].local)) /\ page' = page
    BY <1>3 DEF SaveReview
  <2>2. page[p].local \in [Cells -> Actions]
    BY <1>1 DEF ReviewPages
  <2>3. LET r == Asks("update", page[p].local) IN Carries(r) /\ Cleared(r) /\ r.at = "start"
    BY <2>2, SentCarries DEF From
  <2>4. QED  BY <1>1, <2>1, <2>3, SendStep
<1>4. CASE SavePrompt(p, q)
  <2>1. Send(q, Asks("generate", page[p].shown.cells)) /\ page' = page
    BY <1>4 DEF SavePrompt
  <2>2. page[p].shown.cells \in Matrix
    BY <1>1, <1>4 DEF SavePrompt, ReviewPages, Showings
  <2>3. QED  BY <1>1, <1>2, <2>1, <2>2, SendStep
<1>5. CASE Generate(p, q)
  <2>1. PICK cells \in Matrix : Send(q, Asks("generate", cells))
    BY <1>5 DEF Generate
  <2>2. page' = page
    BY <1>5 DEF Generate
  <2>3. QED  BY <1>1, <1>2, <2>1, <2>2, SendStep
<1>6. CASE Delete(p, q)
  <2>1. Send(q, Asks("delete", NoActions)) /\ page' = page
    BY <1>6 DEF Delete
  <2>2. LET r == Asks("delete", NoActions) IN Carries(r) /\ Cleared(r) /\ r.at = "start"
    BY SentCarries DEF From
  <2>3. QED  BY <1>1, <2>1, <2>2, SendStep
<1>7. CASE Promote(p, q)
  <2> DEFINE clean == page[p].local = NoActions
             r == Request("promote", p, NoActions, FALSE, clean, page[p].shown)
  <2>1. Send(q, r) /\ page' = page
    BY <1>7 DEF Promote
  <2>2. Carries(r) /\ r.at = "start"
    BY DEF Request, Carries, IsRequest
  <2>3. Cleared(r)
    <3> SUFFICES ASSUME clean, NEW c \in Low(page[p].shown.cells)
                 PROVE  page[p].shown.items[c] \notin {"none", "open"}
      BY <1>7 DEF Cleared, Promote, Request
    <3>1. c \in Cells /\ page[p].local[c] = "none"
      BY DEF Low, NoActions
    <3>2. c \notin Pending(page[p])
      BY <1>7 DEF Promote
    <3>3. QED  BY <3>1, <3>2 DEF Pending
  <2>4. QED  BY <1>1, <2>1, <2>2, <2>3, SendStep
<1>8. CASE PromoteAgain(p, q)
  <2> DEFINE r == Request("promote", p, NoActions, TRUE, FALSE, None)
  <2>1. Send(q, r) /\ page' = [page EXCEPT ![p].conflict = FALSE]
    BY <1>8 DEF PromoteAgain
  <2>2. Carries(r) /\ Cleared(r) /\ r.at = "start"
    BY SentCarries
  <2>3. page' \in [Pages -> ReviewPages]
    BY <1>1, <2>1 DEF ReviewPages
  <2>4. QED  BY <2>1, <2>2, <2>3, SendStep
<1>9. QED  BY <1>3, <1>4, <1>5, <1>6, <1>7, <1>8

LEMMA AskStep ==
    ASSUME ReviewInv, NEW q \in Slots, Ask(q)
    PROVE  ReviewInv'
<1>1. PICK op \in CaseOps, sure \in BOOLEAN :
          Send(q, Request(op, None, NoActions, sure, FALSE, None))
  BY DEF Ask
<1> DEFINE r == Request(op, None, NoActions, sure, FALSE, None)
<1>2. Carries(r) /\ Cleared(r) /\ r.at = "start"
  BY SentCarries DEF CaseOps
<1>3. page' \in [Pages -> ReviewPages]
  BY DEF Ask, ReviewInv, ReviewTypeOK
<1>4. QED  BY <1>1, <1>2, <1>3, SendStep

-----------------------------------------------------------------------------
\* A writer of the two files, at its first step and afterwards.
LEMMA WriterKnows ==
    ASSUME ReviewInv, NEW q \in Slots
    PROVE  /\ ReviewTypeOK /\ Carries(req[q]) /\ page \in [Pages -> ReviewPages]
           /\ fixture \in Matrix \cup {None} /\ review \in ItemStates \cup {None}
           /\ torn \in BOOLEAN
           /\ Begun(q) /\ ~torn => HalfDone(req[q]) /\ ~MeetsAnother(q)
           /\ ~Begun(q) /\ ~torn /\ ~MeetsAnother(q) =>
                 IF fixture = None THEN review = None ELSE AgreeBut(NoActions)
<1>1. ReviewTypeOK /\ OneWriter /\ Carries(req[q]) /\ ReviewAgrees
  BY DEF ReviewInv, ReviewIsKept
<1>2. Begun(q) /\ ~torn => HalfDone(req[q]) /\ ~MeetsAnother(q)
  BY <1>1 DEF OneWriter, MeetsAnother
<1>3. ~Begun(q) /\ ~MeetsAnother(q) => \A o \in Slots : ~Begun(o)
  BY DEF MeetsAnother
<1>4. AgreeBut(NoActions) <=>
          \A c \in Cells : fixture[c] = "low" <=> review # None /\ review[c] = "open"
  BY DEF AgreeBut, NoActions
<1>5. QED  BY <1>1, <1>2, <1>3, <1>4 DEF ReviewAgrees, ReviewTypeOK

LEMMA GenerateStep ==
    ASSUME EvalStudioAssumption, ReviewInv, NEW q \in Slots, UNCHANGED catalogue,
           WriteFixture(q) \/ WriteReview(q)
    PROVE  ReviewInv'
<1>1. CASE WriteFixture(q)
  <2>1. /\ req[q].op = "generate" /\ req[q].at = "start" /\ req[q].cells \in Matrix
        /\ fixture' = req[q].cells /\ review' = review /\ page' = page
        /\ torn' = MeetsAnother(q) /\ Goes(q, "review", None)
    BY <1>1, WriterKnows DEF WriteFixture, Carries
  <2>2. /\ req' = [o \in Slots |-> req'[o]] /\ \A o \in Slots \ {q} : req'[o] = req[o]
        /\ req'[q].op = "generate" /\ req'[q].at = "review" /\ req'[q].cells = fixture'
    BY <2>1, GoesOn, WriterKnows
  <2>3. Begun(q)' /\ HalfDone(req[q])' /\ Carries(req'[q]) /\ Cleared(req'[q])
    <3>1. Carries(req'[q])
      BY <2>1, GoesOn, WriterKnows DEF Carries
    <3>2. QED  BY <2>2, <3>1 DEF Begun, FixtureOps, HalfDone, Cleared
  <2>4. torn' \in BOOLEAN /\ (~torn' => ~MeetsAnother(q))
    BY <2>1 DEF MeetsAnother
  <2>5. QED  BY <2>1, <2>2, <2>3, <2>4, WriterKnows, StudioWriterStep
<1>2. CASE WriteReview(q)
  <2>1. /\ req[q].op = "generate" /\ req[q].at = "review" /\ req[q].cells \in Matrix
        /\ review' = NeedsReview(req[q].cells) /\ fixture' = fixture /\ page' = page
        /\ torn' = (torn \/ MeetsAnother(q)) /\ Ends(q)
    BY <1>2, WriterKnows DEF WriteReview, Carries
  <2>2. /\ req' = [o \in Slots |-> req'[o]] /\ \A o \in Slots \ {q} : req'[o] = req[o]
        /\ req'[q] = NoRequest /\ Carries(req'[q]) /\ Cleared(req'[q])
    BY <2>1, Answered, NothingAsked, WriterKnows
  <2>3. Begun(q) /\ ~Begun(q)'
    BY <2>1, <2>2 DEF Begun, FixtureOps, NoRequest, Request
  <2>4. ~torn' => /\ ~torn /\ ~MeetsAnother(q) /\ fixture' = req[q].cells
                  /\ fixture' # None /\ AgreeBut(NoActions)'
    <3> SUFFICES ASSUME ~torn'
                 PROVE  /\ ~torn /\ ~MeetsAnother(q) /\ fixture' = req[q].cells
                        /\ fixture' # None /\ AgreeBut(NoActions)'
      OBVIOUS
    <3>1. ~torn /\ ~MeetsAnother(q) /\ fixture' = req[q].cells
      BY <2>1, <2>3, WriterKnows DEF HalfDone
    <3>2. fixture' # None
      BY <2>1, <3>1 DEF EvalStudioAssumption
    <3>3. \A c \in Cells : fixture'[c] = "low" <=> review' # None /\ review'[c] = "open"
      BY <2>1, <3>1, FreshItems
    <3>4. QED  BY <3>1, <3>2, <3>3 DEF AgreeBut, NoActions
  <2>5. review' \in ItemStates \cup {None} /\ torn' \in BOOLEAN
    BY <2>1, FreshItems DEF MeetsAnother
  <2>6. QED  BY <2>1, <2>2, <2>3, <2>4, <2>5, WriterKnows, StudioWriterStep
<1>3. QED  BY <1>1, <1>2

LEMMA UnlinkStep ==
    ASSUME ReviewInv, NEW q \in Slots, UNCHANGED catalogue,
           UnlinkFixture(q) \/ UnlinkReview(q)
    PROVE  ReviewInv'
<1>1. CASE UnlinkFixture(q) /\ fixture = None
  <2>1. /\ UNCHANGED oracle /\ page' = page /\ req[q].op = "delete" /\ req[q].at = "start"
        /\ Ends(q)
    BY <1>1 DEF UnlinkFixture, oracle, Goes
  <2>2. /\ req' = [o \in Slots |-> req'[o]] /\ \A o \in Slots \ {q} : req'[o] = req[o]
        /\ req'[q] = NoRequest /\ Carries(req'[q]) /\ Cleared(req'[q])
    BY <2>1, Answered, NothingAsked, WriterKnows
  <2>3. ~Begun(q) /\ ~Begun(q)'
    BY <2>1, <2>2 DEF Begun, FixtureOps, NoRequest, Request
  <2>4. PromotedIsReviewed'
    BY DEF ReviewInv, ReviewIsKept, PromotedIsReviewed, catalogue
  <2>5. QED  BY <2>1, <2>2, <2>3, <2>4, WriterKnows, SilentStep
<1>2. CASE UnlinkFixture(q) /\ fixture # None
  <2>1. /\ req[q].op = "delete" /\ req[q].at = "start"
        /\ fixture' = None /\ review' = review /\ page' = page
        /\ torn' = MeetsAnother(q) /\ Goes(q, "review", None)
    BY <1>2 DEF UnlinkFixture
  <2>2. /\ req' = [o \in Slots |-> req'[o]] /\ \A o \in Slots \ {q} : req'[o] = req[o]
        /\ req'[q].op = "delete" /\ req'[q].at = "review"
        /\ Carries(req'[q]) /\ Cleared(req'[q])
    BY <2>1, GoesOn, WriterKnows DEF Carries, Cleared
  <2>3. Begun(q)' /\ HalfDone(req[q])'
    BY <2>1, <2>2 DEF Begun, FixtureOps, HalfDone
  <2>4. torn' \in BOOLEAN /\ (~torn' => ~MeetsAnother(q))
    BY <2>1 DEF MeetsAnother
  <2>5. QED  BY <2>1, <2>2, <2>3, <2>4, WriterKnows, StudioWriterStep
<1>3. CASE UnlinkReview(q)
  <2>1. /\ req[q].op = "delete" /\ req[q].at = "review"
        /\ fixture' = fixture /\ review' = None /\ page' = page
        /\ torn' = (torn \/ MeetsAnother(q)) /\ Ends(q)
    BY <1>3 DEF UnlinkReview
  <2>2. /\ req' = [o \in Slots |-> req'[o]] /\ \A o \in Slots \ {q} : req'[o] = req[o]
        /\ req'[q] = NoRequest /\ Carries(req'[q]) /\ Cleared(req'[q])
    BY <2>1, Answered, NothingAsked, WriterKnows
  <2>3. Begun(q) /\ ~Begun(q)'
    BY <2>1, <2>2 DEF Begun, FixtureOps, NoRequest, Request
  <2>4. ~torn' => ~MeetsAnother(q) /\ fixture' = None
    BY <2>1, <2>3, WriterKnows DEF HalfDone
  <2>5. torn' \in BOOLEAN
    BY <2>1 DEF MeetsAnother
  <2>6. QED  BY <2>1, <2>2, <2>3, <2>4, <2>5, WriterKnows, StudioWriterStep
<1>4. QED  BY <1>1, <1>2, <1>3 DEF UnlinkFixture

\* A review of the cells leaves those low that are neither acted on nor settled.
LEMMA ReviewedCells ==
    ASSUME NEW cells \in Matrix, NEW actions \in [Cells -> Actions]
    PROVE  /\ Reviewed(cells, actions) \in Matrix
           /\ \A c \in Cells : Reviewed(cells, actions)[c] = "low" <=>
                 cells[c] = "low" /\ actions[c] = "none"
<1>1. \A c \in Cells : cells[c] \in Confidence /\ actions[c] \in Actions
  BY DEF Matrix
<1>2. \A c \in Cells : /\ Reviewed(cells, actions)[c] \in Confidence
                       /\ Reviewed(cells, actions)[c] = "low" <=>
                             cells[c] = "low" /\ actions[c] = "none"
  BY <1>1 DEF Reviewed, Confidence, Actions
<1>3. QED  BY <1>2 DEF Reviewed, Matrix

LEMMA ReadFixtureStep ==
    ASSUME EvalStudioAssumption, ReviewInv, NEW q \in Slots, UNCHANGED catalogue, ReadFixture(q)
    PROVE  ReviewInv'
<1>1. /\ req[q].op = "update" /\ req[q].at = "start" /\ ~Begun(q)
      /\ fixture' = fixture /\ review' = review /\ page' = page
  BY DEF ReadFixture, Begun
<1>2. CASE fixture = None
  <2>1. UNCHANGED oracle /\ Ends(q)
    BY <1>1, <1>2 DEF ReadFixture, oracle
  <2>2. /\ req' = [o \in Slots |-> req'[o]] /\ \A o \in Slots \ {q} : req'[o] = req[o]
        /\ req'[q] = NoRequest /\ Carries(req'[q]) /\ Cleared(req'[q])
    BY <2>1, Answered, NothingAsked, WriterKnows
  <2>3. ~Begun(q)'
    BY <2>2 DEF Begun, FixtureOps, NoRequest, Request
  <2>4. PromotedIsReviewed'
    BY DEF ReviewInv, ReviewIsKept, PromotedIsReviewed, catalogue
  <2>5. QED  BY <1>1, <2>1, <2>2, <2>3, <2>4, WriterKnows, SilentStep
<1>3. CASE fixture # None
  <2>1. torn' = (torn \/ MeetsAnother(q)) /\ Goes(q, "fixture", fixture) /\ fixture \in Matrix
    BY <1>3, WriterKnows DEF ReadFixture
  <2>2. /\ req' = [o \in Slots |-> req'[o]] /\ \A o \in Slots \ {q} : req'[o] = req[o]
        /\ req'[q].op = "update" /\ req'[q].at = "fixture" /\ req'[q].seen = fixture
    BY <1>1, <2>1, GoesOn, WriterKnows
  <2>3. Carries(req'[q])
    BY <1>1, <2>1, GoesOn, WriterKnows DEF Carries
  <2>4. Begun(q)' /\ Cleared(req'[q])
    BY <2>2 DEF Begun, FixtureOps, Cleared
  <2>5. ~torn' => ~MeetsAnother(q) /\ HalfDone(req[q])'
    <3> SUFFICES ASSUME ~torn' PROVE ~MeetsAnother(q) /\ HalfDone(req[q])'
      OBVIOUS
    <3>1. ~torn /\ ~MeetsAnother(q) /\ AgreeBut(NoActions)
      BY <1>1, <1>3, <2>1, WriterKnows
    <3>2. AgreeBut(NoActions)'
      BY <1>1, <3>1 DEF AgreeBut
    <3>3. QED  BY <1>1, <1>3, <2>2, <3>1, <3>2 DEF HalfDone
  <2>6. torn' \in BOOLEAN
    BY <2>1 DEF MeetsAnother
  <2>7. QED  BY <1>1, <2>2, <2>3, <2>4, <2>5, <2>6, WriterKnows, StudioWriterStep
<1>4. QED  BY <1>2, <1>3

LEMMA ApplyReviewStep ==
    ASSUME EvalStudioAssumption, ReviewInv, NEW q \in Slots, UNCHANGED catalogue, ApplyReview(q)
    PROVE  ReviewInv'
<1>1. /\ req[q].op = "update" /\ req[q].at = "fixture" /\ Begun(q)
      /\ review' = review /\ page' = page /\ torn' = (torn \/ MeetsAnother(q))
      /\ fixture' = Reviewed(req[q].seen, req[q].cells) /\ Goes(q, "items", None)
  BY DEF ApplyReview, Begun, FixtureOps
<1>2. req[q].seen \in Matrix /\ req[q].cells \in [Cells -> Actions]
  BY <1>1, WriterKnows DEF Carries
<1>3. fixture' \in Matrix /\ fixture' # None
  BY <1>1, <1>2, ReviewedCells DEF EvalStudioAssumption
<1>4. /\ req' = [o \in Slots |-> req'[o]] /\ \A o \in Slots \ {q} : req'[o] = req[o]
      /\ req'[q].op = "update" /\ req'[q].at = "items" /\ req'[q].cells = req[q].cells
  BY <1>1, GoesOn, WriterKnows
<1>5. Carries(req'[q])
  BY <1>1, GoesOn, WriterKnows DEF Carries
<1>6. Begun(q)' /\ Cleared(req'[q])
  BY <1>4 DEF Begun, FixtureOps, Cleared
<1>7. ~torn' => ~MeetsAnother(q) /\ HalfDone(req[q])'
  <2> SUFFICES ASSUME ~torn' PROVE ~MeetsAnother(q) /\ HalfDone(req[q])'
    OBVIOUS
  <2>1. ~torn /\ ~MeetsAnother(q) /\ fixture = req[q].seen /\ AgreeBut(NoActions)
    BY <1>1, WriterKnows DEF HalfDone
  <2>2. \A c \in Cells : req[q].seen[c] = "low" <=> review # None /\ review[c] = "open"
    BY <2>1 DEF AgreeBut, NoActions
  <2>3. AgreeBut(req[q].cells)'
    <3>1. \A c \in Cells : fixture'[c] = "low" <=>
              review' # None /\ review'[c] = "open" /\ req'[q].cells[c] = "none"
      BY <1>1, <1>2, <1>4, <2>2, ReviewedCells
    <3>2. QED  BY <3>1 DEF AgreeBut
  <2>4. QED  BY <1>3, <1>4, <2>1, <2>3 DEF HalfDone
<1>8. torn' \in BOOLEAN
  BY <1>1, WriterKnows DEF MeetsAnother
<1>9. QED  BY <1>1, <1>3, <1>4, <1>5, <1>6, <1>7, <1>8, WriterKnows, StudioWriterStep

LEMMA SavedPage ==
    ASSUME ReviewInv, NEW q \in Slots, Saved(q)
    PROVE  page' \in [Pages -> ReviewPages]
<1>1. page \in [Pages -> ReviewPages] /\ NoActions \in [Cells -> Actions]
  BY DEF ReviewInv, ReviewTypeOK, NoActions, Actions
<1>2. QED  BY <1>1 DEF Saved, ReviewPages

LEMMA ReadItemsStep ==
    ASSUME EvalStudioAssumption, ReviewInv, NEW q \in Slots, UNCHANGED catalogue, ReadItems(q)
    PROVE  ReviewInv'
<1>1. /\ req[q].op = "update" /\ req[q].at = "items" /\ Begun(q)
      /\ fixture' = fixture /\ review' = review /\ torn' = (torn \/ MeetsAnother(q))
  BY DEF ReadItems, Begun, FixtureOps
<1>2. req[q].cells \in [Cells -> Actions]
  BY <1>1, WriterKnows DEF Carries
<1>3. torn' \in BOOLEAN
  BY <1>1, WriterKnows DEF MeetsAnother
<1>4. ~torn' => ~torn /\ ~MeetsAnother(q) /\ fixture # None /\ AgreeBut(req[q].cells)
  BY <1>1, WriterKnows DEF HalfDone
<1>5. CASE review = None
  <2>1. Ends(q) /\ Saved(q)
    BY <1>5 DEF ReadItems
  <2>2. /\ req' = [o \in Slots |-> req'[o]] /\ \A o \in Slots \ {q} : req'[o] = req[o]
        /\ req'[q] = NoRequest /\ Carries(req'[q]) /\ Cleared(req'[q])
    BY <2>1, Answered, NothingAsked, WriterKnows
  <2>3. ~Begun(q)'
    BY <2>2 DEF Begun, FixtureOps, NoRequest, Request
  <2>4. ~torn' => AgreeBut(NoActions)'
    BY <1>1, <1>4, <1>5 DEF AgreeBut
  <2>5. QED  BY <1>1, <1>3, <1>4, <2>1, <2>2, <2>3, <2>4, SavedPage, WriterKnows, StudioWriterStep
<1>6. CASE review # None
  <2>1. Goes(q, "review", review) /\ page' = page /\ review \in ItemStates
    BY <1>6, WriterKnows DEF ReadItems
  <2>2. /\ req' = [o \in Slots |-> req'[o]] /\ \A o \in Slots \ {q} : req'[o] = req[o]
        /\ req'[q].op = "update" /\ req'[q].at = "review" /\ req'[q].cells = req[q].cells
        /\ req'[q].seen = review
    BY <1>1, <2>1, GoesOn, WriterKnows
  <2>3. Carries(req'[q])
    BY <1>1, <2>1, GoesOn, WriterKnows DEF Carries
  <2>4. Begun(q)' /\ Cleared(req'[q])
    BY <2>2 DEF Begun, FixtureOps, Cleared
  <2>5. ~torn' => HalfDone(req[q])'
    BY <1>1, <1>4, <2>2 DEF HalfDone, AgreeBut
  <2>6. QED  BY <1>1, <1>3, <1>4, <2>1, <2>2, <2>3, <2>4, <2>5, WriterKnows, StudioWriterStep
<1>7. QED  BY <1>5, <1>6

LEMMA MarkItemsStep ==
    ASSUME EvalStudioAssumption, ReviewInv, NEW q \in Slots, UNCHANGED catalogue, MarkItems(q)
    PROVE  ReviewInv'
<1> DEFINE given == [c \in Cells |-> IF req[q].seen[c] # "none" /\ req[q].cells[c] # "none"
                                     THEN req[q].cells[c] ELSE req[q].seen[c]]
<1>1. /\ req[q].op = "update" /\ req[q].at = "review" /\ Begun(q)
      /\ fixture' = fixture /\ review' = given /\ torn' = (torn \/ MeetsAnother(q))
      /\ Ends(q) /\ Saved(q)
  BY DEF MarkItems, Begun, FixtureOps
<1>2. req[q].cells \in [Cells -> Actions] /\ req[q].seen \in ItemStates
  BY <1>1, WriterKnows DEF Carries
<1>3. torn' \in BOOLEAN
  BY <1>1, WriterKnows DEF MeetsAnother
<1>4. given \in ItemStates
  BY <1>2 DEF ItemStates
<1>5. /\ req' = [o \in Slots |-> req'[o]] /\ \A o \in Slots \ {q} : req'[o] = req[o]
      /\ req'[q] = NoRequest /\ Carries(req'[q]) /\ Cleared(req'[q])
  BY <1>1, Answered, NothingAsked, WriterKnows
<1>6. ~Begun(q)'
  BY <1>5 DEF Begun, FixtureOps, NoRequest, Request
<1>7. ~torn' => ~MeetsAnother(q) /\ fixture' # None /\ AgreeBut(NoActions)'
  <2> SUFFICES ASSUME ~torn' PROVE ~MeetsAnother(q) /\ fixture' # None /\ AgreeBut(NoActions)'
    OBVIOUS
  <2>1. /\ ~MeetsAnother(q) /\ fixture # None /\ AgreeBut(req[q].cells) /\ review = req[q].seen
    BY <1>1, WriterKnows DEF HalfDone
  <2>2. given # None /\ review # None
    BY <1>2, <1>4, <2>1 DEF EvalStudioAssumption
  <2>3. \A c \in Cells : given[c] = "open" <=> review[c] = "open" /\ req[q].cells[c] = "none"
    BY <1>2, <2>1 DEF Actions
  <2>4. \A c \in Cells : fixture'[c] = "low" <=> review' # None /\ review'[c] = "open"
    <3> HIDE DEF given
    <3>1. QED  BY <1>1, <2>1, <2>2, <2>3 DEF AgreeBut
  <2>5. QED  BY <1>1, <2>1, <2>4 DEF AgreeBut, NoActions
<1> HIDE DEF given
<1>8. QED  BY <1>1, <1>3, <1>4, <1>5, <1>6, <1>7, SavedPage, WriterKnows, StudioWriterStep

-----------------------------------------------------------------------------
\* A step of a request that writes no fixture: it ends or goes on.
LEMMA OtherStep ==
    ASSUME ReviewInv, NEW q \in Slots, UNCHANGED oracle, ~Begun(q), ~Begun(q)',
           page' \in [Pages -> ReviewPages], req' = [o \in Slots |-> req'[o]],
           \A o \in Slots \ {q} : req'[o] = req[o],
           Carries(req'[q]), Cleared(req'[q]), PromotedIsReviewed'
    PROVE  ReviewInv'
BY SilentStep

LEMMA OtherEnds ==
    ASSUME ReviewInv, NEW q \in Slots, UNCHANGED oracle, ~Begun(q), Ends(q),
           page' \in [Pages -> ReviewPages], PromotedIsReviewed'
    PROVE  ReviewInv'
<1>1. /\ req' = [o \in Slots |-> req'[o]] /\ \A o \in Slots \ {q} : req'[o] = req[o]
      /\ req'[q] = NoRequest /\ Carries(req'[q]) /\ Cleared(req'[q])
  BY Answered, NothingAsked, WriterKnows
<1>2. ~Begun(q)'
  BY <1>1 DEF Begun, FixtureOps, NoRequest, Request
<1>3. QED  BY <1>1, <1>2, OtherStep

LEMMA PagesAsTheyWere ==
    ASSUME ReviewInv, NEW q \in Slots, Refused(q) \/ UNCHANGED page
    PROVE  page' \in [Pages -> ReviewPages]
<1>1. page \in [Pages -> ReviewPages]
  BY DEF ReviewInv, ReviewTypeOK
<1>2. QED  BY <1>1, ZenonT(40) DEF Refused, ReviewPages

LEMMA CasesAsTheyWere ==
    ASSUME ReviewInv, UNCHANGED catalogue
    PROVE  PromotedIsReviewed'
BY DEF ReviewInv, ReviewIsKept, PromotedIsReviewed, catalogue

\* A promotion goes on from one store to the next.
LEMMA PromotionGoesOn ==
    ASSUME ReviewInv, NEW q \in Slots, UNCHANGED <<oracle, page>>, PromotedIsReviewed',
           req[q].op \in {"promote", "create", "sync"},
           req[q].op = "promote" => req[q].at # "start",
           NEW at \in {"get", "save", "write"}, Goes(q, at, None)
    PROVE  ReviewInv'
<1>1. ~Begun(q) /\ Carries(req[q]) /\ Cleared(req[q])
  BY DEF Begun, FixtureOps, ReviewInv
<1>2. /\ req' = [o \in Slots |-> req'[o]] /\ \A o \in Slots \ {q} : req'[o] = req[o]
      /\ req'[q].op = req[q].op /\ req'[q].at = at /\ req'[q].cells = req[q].cells
      /\ req'[q].clean = req[q].clean /\ IsRequest(req'[q])
  BY <1>1, GoesOn, WriterKnows
<1>3. ~Begun(q)' /\ Carries(req'[q])
  BY <1>2 DEF Begun, FixtureOps, Carries
<1>4. Cleared(req'[q])
  BY <1>1, <1>2 DEF Cleared
<1>5. QED  BY <1>1, <1>2, <1>3, <1>4, OtherStep, WriterKnows

\* The fixture is read when nobody writes it, and is what the page showed: what the page
\* showed as pending is pending in it.
LEMMA ReadPromotedStep ==
    ASSUME EvalStudioAssumption, ReviewInv, NEW q \in Slots, ReadPromoted(q)
    PROVE  ReviewInv'
<1>1. /\ UNCHANGED oracle /\ page' = page /\ req[q].op = "promote" /\ req[q].at = "start"
      /\ ~Begun(q) /\ PromotedIsReviewed'
  BY CasesAsTheyWere DEF ReadPromoted, Begun
<1>2. page' \in [Pages -> ReviewPages]
  BY <1>1 DEF ReviewInv, ReviewTypeOK
<1>3. CASE Ends(q)
  BY <1>1, <1>2, <1>3, OtherEnds
<1>4. CASE ~Ends(q)
  <2> DEFINE at    == IF db THEN "suite" ELSE "save"
             clean == req[q].clean /\ ~torn /\ req[q].seen # None
                        /\ Shown(req[q].seen) /\ ~MeetsAnother(q)
             r     == req[q]
  <2>1. /\ fixture \in Matrix /\ Carries(r) /\ r.clean \in BOOLEAN
        /\ r = [op |-> r.op, at |-> r.at, from |-> r.from, cells |-> r.cells,
                sure |-> r.sure, clean |-> r.clean, seen |-> r.seen]
    BY <1>4, WriterKnows DEF ReadPromoted, Carries, IsRequest
  <2>2. req' = [req EXCEPT ![q] =
            [@ EXCEPT !.at = at, !.cells = fixture, !.seen = None, !.clean = clean]]
    BY <1>4 DEF ReadPromoted
  <2>3. clean \in BOOLEAN
    BY <2>1
  <2>4. clean => Low(fixture) = {}
    <3> SUFFICES ASSUME clean, NEW c \in Low(fixture) PROVE FALSE
      BY DEF Low
    <3>1. /\ Cleared(r) /\ r.clean /\ r.seen # None /\ Shown(r.seen) /\ ~torn
          /\ ~MeetsAnother(q)
      BY DEF ReviewInv
    <3>2. fixture = r.seen.cells /\ r.seen.items[c] \notin {"none", "open"}
      BY <1>1, <3>1 DEF Cleared, Shown
    <3>3. c \in Cells /\ fixture[c] = "low" /\ fixture # None
      BY <2>1 DEF Low, EvalStudioAssumption
    <3>4. review # None /\ review[c] = "open"
      BY <1>1, <3>1, <3>3, WriterKnows DEF AgreeBut
    <3>5. QED  BY <3>1, <3>2, <3>4 DEF Shown
  <2> HIDE DEF at, clean
  <2>5. req = [o \in Slots |-> req[o]]
    BY DEF ReviewInv, ReviewTypeOK
  <2>6. /\ req' = [o \in Slots |-> req'[o]] /\ \A o \in Slots \ {q} : req'[o] = req[o]
        /\ req'[q] = [r EXCEPT !.at = at, !.cells = fixture, !.seen = None, !.clean = clean]
    BY <2>2, <2>5
  <2>7. /\ IsRequest(req'[q]) /\ req'[q].op = "promote" /\ req'[q].at = at
        /\ req'[q].clean = clean /\ req'[q].cells = fixture
    BY <1>1, <2>1, <2>3, <2>6 DEF IsRequest
  <2>8. at # "start"
    BY DEF at
  <2>9. ~Begun(q)' /\ Carries(req'[q]) /\ Cleared(req'[q])
    BY <2>3, <2>4, <2>7, <2>8 DEF Begun, FixtureOps, Carries, Cleared
  <2>10. QED  BY <1>1, <1>2, <2>6, <2>9, OtherStep
<1>5. QED  BY <1>3, <1>4

\* A case is saved as it was when it was promoted.
LEMMA NewCaseIsReviewed ==
    ASSUME ReviewInv, NEW q \in Slots, req[q].op = "promote" => req[q].at # "start"
    PROVE  LET e == NewCase(q) IN e.by = "promote" /\ e.clean => Low(e.cells) = {}
<1>1. CASE req[q].op = "promote"
  <2>1. NewCase(q).cells = req[q].cells /\ NewCase(q).clean = req[q].clean
    BY <1>1 DEF NewCase
  <2>2. req[q].clean => Low(req[q].cells) = {}
    BY <1>1 DEF ReviewInv, Cleared
  <2>3. QED  BY <2>1, <2>2
<1>2. CASE req[q].op # "promote"
  <2>1. NewCase(q) \in {Case("remote"), Case("ui")}
    BY <1>2 DEF NewCase
  <2>2. QED  BY <2>1 DEF Case
<1>3. QED  BY <1>1, <1>2

LEMMA SaveSteps ==
    ASSUME ReviewInv, NEW q \in Slots,
           EnsureSuite(q) \/ GetCase(q) \/ SaveRow(q) \/ LookAtFile(q) \/ SaveFile(q)
    PROVE  ReviewInv'
<1>1. PromotedIsReviewed
  BY DEF ReviewInv, ReviewIsKept
<1>2. page \in [Pages -> ReviewPages]
  BY DEF ReviewInv, ReviewTypeOK
<1>3. CASE EnsureSuite(q)
  <2>1. PromotedIsReviewed'
    BY <1>1, <1>3 DEF EnsureSuite, PromotedIsReviewed
  <2>2. QED  BY <1>3, <2>1, PromotionGoesOn DEF EnsureSuite
<1>4. CASE GetCase(q)
  <2>1. /\ PromotedIsReviewed' /\ UNCHANGED oracle /\ req[q].op \in {"promote", "create"}
        /\ ~Begun(q) /\ (req[q].op = "promote" => req[q].at # "start")
    BY <1>4, CasesAsTheyWere DEF GetCase, Begun, FixtureOps
  <2>2. CASE Refused(q)
    <3>1. Ends(q) /\ page' \in [Pages -> ReviewPages]
      BY <2>2, PagesAsTheyWere DEF Refused
    <3>2. QED  BY <2>1, <3>1, OtherEnds
  <2>3. CASE Goes(q, "save", None) /\ UNCHANGED page
    BY <2>1, <2>3, PromotionGoesOn
  <2>4. QED  BY <1>4, <2>2, <2>3 DEF GetCase
<1>5. CASE SaveRow(q)
  <2>1. /\ row' \in {row, NewCase(q)} /\ files' = files /\ Ends(q) /\ page' = page
        /\ UNCHANGED oracle /\ ~Begun(q) /\ (req[q].op = "promote" => req[q].at # "start")
    BY <1>5 DEF SaveRow, Begun, FixtureOps
  <2>2. PromotedIsReviewed'
    BY <1>1, <2>1, NewCaseIsReviewed DEF PromotedIsReviewed
  <2>3. QED  BY <1>2, <2>1, <2>2, OtherEnds
<1>6. CASE LookAtFile(q)
  <2>1. /\ PromotedIsReviewed' /\ UNCHANGED oracle /\ req[q].op \in {"promote", "create", "sync"}
        /\ ~Begun(q) /\ (req[q].op = "promote" => req[q].at # "start")
    BY <1>6, CasesAsTheyWere DEF LookAtFile, LooksForFile, Begun, FixtureOps
  <2>2. CASE Refused(q)
    <3>1. Ends(q) /\ page' \in [Pages -> ReviewPages]
      BY <2>2, PagesAsTheyWere DEF Refused
    <3>2. QED  BY <2>1, <3>1, OtherEnds
  <2>3. CASE Goes(q, "write", None) /\ UNCHANGED page
    BY <2>1, <2>3, PromotionGoesOn
  <2>4. QED  BY <1>6, <2>2, <2>3 DEF LookAtFile
<1>7. CASE SaveFile(q)
  <2>1. /\ files' = NewCase(q) /\ row' = row /\ Ends(q) /\ page' = page
        /\ UNCHANGED oracle /\ req[q].at = "write"
    BY <1>7 DEF SaveFile
  <2>2. ~Begun(q)
    BY <2>1 DEF ReviewInv, Carries, Begun, FixtureOps
  <2>3. PromotedIsReviewed'
    BY <1>1, <2>1, NewCaseIsReviewed DEF PromotedIsReviewed
  <2>4. QED  BY <1>2, <2>1, <2>2, <2>3, OtherEnds
<1>8. QED  BY <1>3, <1>4, <1>5, <1>6, <1>7

LEMMA CatalogueSteps ==
    ASSUME ReviewInv, NEW q \in Slots, CatalogueStep(q)
    PROVE  ReviewInv'
<1>1. /\ Ends(q) /\ UNCHANGED oracle /\ page' = page /\ ~Begun(q)
  BY DEF CatalogueStep, Begun, FixtureOps, PutFile, DropCase, FromTemplate, WriteFile,
         SyncNothing, CreateSuite, DropSuite
<1>2. page' \in [Pages -> ReviewPages]
  BY <1>1 DEF ReviewInv, ReviewTypeOK
<1>3. /\ files' \in {files, None} \cup {Case(by) : by \in {"ui", "file"}}
      /\ row' \in {row, None}
  BY DEF CatalogueStep, PutFile, DropCase, FromTemplate, WriteFile, SyncNothing, CreateSuite,
         DropSuite
<1>4. \A by \in {"ui", "file"} : Case(by).by # "promote"
  BY DEF Case
<1>5. PromotedIsReviewed'
  BY <1>3, <1>4 DEF ReviewInv, ReviewIsKept, PromotedIsReviewed
<1>6. QED  BY <1>1, <1>2, <1>5, OtherEnds

LEMMA RestartedStudio ==
    ASSUME ReviewInv, Restart
    PROVE  ReviewInv'
<1>1. /\ torn' = (torn \/ \E q \in Slots : Begun(q)) /\ req' = [q \in Slots |-> NoRequest]
      /\ fixture' = fixture /\ review' = review /\ page' = page /\ UNCHANGED catalogue
  BY DEF Restart
<1>2. PromotedIsReviewed'
  BY <1>1, CasesAsTheyWere
<1>3. \A q \in Slots : req'[q] = NoRequest /\ Carries(req'[q]) /\ Cleared(req'[q])
  BY <1>1, NothingAsked
<1>4. \A q \in Slots : ~Begun(q)'
  BY <1>3 DEF Begun, FixtureOps, NoRequest, Request
<1>5. ReviewTypeOK'
  BY <1>1 DEF ReviewInv, ReviewTypeOK
<1>6. ReviewAgrees'
  BY <1>1 DEF ReviewInv, ReviewIsKept, ReviewAgrees
<1>7. QED  BY <1>2, <1>3, <1>4, <1>5, <1>6 DEF ReviewInv, ReviewIsKept, OneWriter

LEMMA StudioInit_Inv ==
    ASSUME EvalStudioAssumption, Init
    PROVE  ReviewInv
<1>1. /\ fixture \in Matrix \cup {None} /\ torn = FALSE
      /\ review = IF fixture = None THEN None ELSE NeedsReview(fixture)
      /\ \A q \in Slots : req[q] = NoRequest
  BY DEF Init
<1>2. NewPage \in ReviewPages
  BY DEF NewPage, ReviewPages, NoActions, Actions
<1>3. ReviewTypeOK
  BY <1>1, <1>2, FreshItems DEF Init, ReviewTypeOK
<1>4. \A q \in Slots : ~Begun(q) /\ Carries(req[q]) /\ Cleared(req[q])
  BY <1>1, NothingAsked DEF Begun, FixtureOps, NoRequest, Request
<1>5. ReviewAgrees
  BY <1>1, FreshItems DEF ReviewAgrees
<1>6. PromotedIsReviewed
  BY DEF Init, PromotedIsReviewed, Case
<1>7. QED  BY <1>3, <1>4, <1>5, <1>6 DEF ReviewInv, ReviewIsKept, OneWriter

LEMMA StudioStep ==
    ASSUME EvalStudioAssumption, ReviewInv, [Next]_vars
    PROVE  ReviewInv'
<1>1. CASE UNCHANGED vars
  <2>1. UNCHANGED <<oracle, catalogue, req>> /\ page' = page
    BY <1>1 DEF vars
  <2>2. QED  BY <2>1, LookStep DEF ReviewInv, ReviewTypeOK
<1>2. CASE PageStep
  BY <1>2, LooksSteps, SendSteps, AskStep DEF PageStep
<1>3. CASE ServerStep
  <2>1. PICK q \in Slots :
            \/ OracleStep(q) \/ CatalogueStep(q) \/ ReadPromoted(q) \/ EnsureSuite(q)
            \/ GetCase(q) \/ SaveRow(q) \/ LookAtFile(q) \/ SaveFile(q)
    BY <1>3 DEF ServerStep
  <2>2. CASE OracleStep(q)
    BY <2>2, GenerateStep, ReadFixtureStep, ApplyReviewStep, ReadItemsStep, MarkItemsStep,
       UnlinkStep DEF OracleStep
  <2>3. QED  BY <2>1, <2>2, CatalogueSteps, ReadPromotedStep, SaveSteps
<1>4. CASE Restart
  BY <1>4, RestartedStudio
<1>5. QED  BY <1>1, <1>2, <1>3, <1>4 DEF Next

\* What needs a human is asked of one, and before the suite is scored by it, for any
\* number of pages, requests at a time, cells and restarts (the oracle endpoints of
\* ryuu_eval/http/router.py, OracleReviewPage.tsx).
THEOREM ReviewCorrect == Spec => []ReviewIsKept
<1>1. Init => ReviewInv
  BY EvalStudioAssumption, StudioInit_Inv
<1>2. ReviewInv /\ [Next]_vars => ReviewInv'
  BY EvalStudioAssumption, StudioStep
<1>3. ReviewInv => ReviewIsKept
  BY DEF ReviewInv
<1>4. QED  BY <1>1, <1>2, <1>3, PTL DEF Spec

\* Whoever is about to write a case file keeps the event loop, and if it had not said
\* overwrite there is no file, or one that a thread has written since.
LookedFirst ==
    \A q \in Slots : req[q].at = "write" =>
        /\ req[q].op \in {"create", "promote", "sync"}
        /\ req[q].sure \/ files \in {None, Case("file")}

CatalogueInv == ReviewInv /\ LookedFirst

\* A request that neither looks for a case file nor promotes ends, or goes on elsewhere.
LEMMA ElsewhereSteps ==
    ASSUME NEW q \in Slots,
           OracleStep(q) \/ CatalogueStep(q) \/ EnsureSuite(q) \/ GetCase(q) \/ SaveRow(q)
             \/ SaveFile(q)
    PROVE  Ends(q) \/ \E at \in {"review", "fixture", "items", "get", "save"} : \E seen :
                          Goes(q, at, seen)
<1>1. CASE OracleStep(q)
  BY <1>1 DEF OracleStep, WriteFixture, WriteReview, ReadFixture, ApplyReview, ReadItems,
              MarkItems, UnlinkFixture, UnlinkReview
<1>2. CASE CatalogueStep(q) \/ SaveRow(q) \/ SaveFile(q)
  BY <1>2 DEF CatalogueStep, SaveRow, SaveFile
<1>3. CASE EnsureSuite(q) \/ GetCase(q)
  BY <1>3 DEF EnsureSuite, GetCase, Refused
<1>4. QED  BY <1>1, <1>2, <1>3

\* Who writes a case file after a step of q, and the other requests.
LEMMA WritersAfter ==
    ASSUME ReviewInv, NEW q \in Slots,
           \/ OracleStep(q) \/ CatalogueStep(q) \/ ReadPromoted(q) \/ EnsureSuite(q)
           \/ GetCase(q) \/ SaveRow(q) \/ LookAtFile(q) \/ SaveFile(q)
    PROVE  /\ \A o \in Slots \ {q} : req'[o] = req[o]
           /\ req'[q].at = "write" =>
                /\ LookAtFile(q) /\ req'[q].op = req[q].op /\ req'[q].sure = req[q].sure
                /\ files' = files /\ (files = None \/ req[q].sure)
<1>1. req = [o \in Slots |-> req[o]] /\ ReviewTypeOK /\ Carries(req[q])
  BY DEF ReviewInv, ReviewTypeOK
<1>2. CASE Ends(q)
  BY <1>1, <1>2, Answered DEF NoRequest, Request
<1>3. CASE \E at \in {"review", "fixture", "items", "get", "save"} : \E seen : Goes(q, at, seen)
  BY <1>1, <1>3, GoesOn
<1>4. CASE ReadPromoted(q)
  <2>1. CASE ~Ends(q)
    <3>1. \E clean : req' = [req EXCEPT ![q].at = IF db THEN "suite" ELSE "save",
                                        ![q].cells = fixture, ![q].seen = None, ![q].clean = clean]
      BY <1>4, <2>1 DEF ReadPromoted
    <3>2. /\ \A o \in Slots \ {q} : req'[o] = req[o]
          /\ req[q] = [op |-> req[q].op, at |-> req[q].at, from |-> req[q].from,
                       cells |-> req[q].cells, sure |-> req[q].sure, clean |-> req[q].clean,
                       seen |-> req[q].seen]
      BY <1>1, <3>1 DEF Carries, IsRequest
    <3>3. req'[q].at # "write"
      BY <1>1, <3>1, <3>2
    <3>4. QED  BY <3>2, <3>3
  <2>2. QED  BY <1>2, <2>1
<1>5. CASE LookAtFile(q)
  <2>1. CASE Refused(q)
    BY <1>2, <2>1 DEF Refused
  <2>2. CASE (files = None \/ req[q].sure) /\ Goes(q, "write", None)
    <3>1. /\ \A o \in Slots \ {q} : req'[o] = req[o]
          /\ req'[q].op = req[q].op
      BY <1>1, <2>2, GoesOn
    <3>2. req'[q].sure = req[q].sure
      <4>1. req' = [req EXCEPT ![q] = [@ EXCEPT !.at = "write", !.seen = None]]
        BY <2>2 DEF Goes
      <4>2. req[q] = [op |-> req[q].op, at |-> req[q].at, from |-> req[q].from,
                      cells |-> req[q].cells, sure |-> req[q].sure, clean |-> req[q].clean,
                      seen |-> req[q].seen]
        BY <1>1 DEF Carries, IsRequest
      <4>3. req'[q] = [req[q] EXCEPT !.at = "write", !.seen = None]
        BY <1>1, <4>1
      <4>4. QED  BY <4>2, <4>3
    <3>3. files' = files
      BY <1>5 DEF LookAtFile, catalogue
    <3>4. QED  BY <1>5, <2>2, <3>1, <3>2, <3>3
  <2>3. QED  BY <1>5, <2>1, <2>2 DEF LookAtFile
<1>6. QED  BY <1>2, <1>3, <1>4, <1>5, ElsewhereSteps

\* A thread writes the case file of a template, or none.
LEMMA ThreadsWrite ==
    ASSUME LookedFirst, NEW q \in Slots, Threaded(q),
           \/ OracleStep(q) \/ CatalogueStep(q) \/ ReadPromoted(q) \/ EnsureSuite(q)
           \/ GetCase(q) \/ SaveRow(q) \/ LookAtFile(q) \/ SaveFile(q)
    PROVE  files' \in {files, Case("file")}
<1>1. req[q].op \in {"template", "update", "delete"} /\ req[q].at # "write"
  BY DEF Threaded, LookedFirst
<1>2. CASE CatalogueStep(q)
  BY <1>1, <1>2 DEF CatalogueStep, PutFile, DropCase, FromTemplate, WriteFile, SyncNothing,
                    CreateSuite, DropSuite
<1>3. CASE OracleStep(q) \/ ReadPromoted(q) \/ EnsureSuite(q) \/ GetCase(q) \/ LookAtFile(q)
  BY <1>3 DEF OracleStep, ReadPromoted, EnsureSuite, GetCase, LookAtFile, catalogue
<1>4. CASE SaveRow(q)
  BY <1>4 DEF SaveRow
<1>5. ~SaveFile(q)
  BY <1>1 DEF SaveFile
<1>6. QED  BY <1>2, <1>3, <1>4, <1>5

\* A page sends requests that have done nothing yet.
LEMMA PagesSend ==
    ASSUME ReviewInv, PageStep
    PROVE  /\ files' = files /\ row' = row /\ db' = db
           /\ \A o \in Slots : req'[o] = req[o] \/ req'[o].at = "start"
<1>1. req = [o \in Slots |-> req[o]]
  BY DEF ReviewInv, ReviewTypeOK
<1>2. CASE \/ \E p \in Pages : Fetch(p) \/ Reopen(p) \/ ApproveAll(p)
           \/ \E p \in Pages, c \in Cells, a \in Actions \ {"none"} : Act(p, c, a)
  BY <1>2 DEF Fetch, Reopen, ApproveAll, Act, catalogue, bounds
<1>3. ASSUME NEW q \in Slots, NEW r, Send(q, r), r.at = "start"
      PROVE  /\ files' = files /\ row' = row /\ db' = db
             /\ \A o \in Slots : req'[o] = req[o] \/ req'[o].at = "start"
  BY <1>1, <1>3 DEF Send, catalogue
<1>4. CASE \E p \in Pages, q \in Slots : \/ SaveReview(p, q) \/ SavePrompt(p, q)
                                         \/ Generate(p, q) \/ Delete(p, q)
                                         \/ Promote(p, q) \/ PromoteAgain(p, q)
  <2>1. PICK q \in Slots : \E op, from, cells, sure, clean, seen :
            Send(q, Request(op, from, cells, sure, clean, seen))
    BY <1>4, Zenon DEF SaveReview, SavePrompt, Generate, Delete, Promote, PromoteAgain, From
  <2>2. PICK op, from, cells, sure, clean, seen :
            Send(q, Request(op, from, cells, sure, clean, seen))
    BY <2>1, Zenon
  <2>3. Request(op, from, cells, sure, clean, seen).at = "start"
    BY DEF Request
  <2>4. QED  BY <1>3, <2>2, <2>3
<1>5. CASE \E q \in Slots : Ask(q)
  <2>1. PICK q \in Slots :
            \E op, sure : Send(q, Request(op, None, NoActions, sure, FALSE, None))
    BY <1>5, Zenon DEF Ask
  <2>2. PICK op, sure : Send(q, Request(op, None, NoActions, sure, FALSE, None))
    BY <2>1, Zenon
  <2>3. Request(op, None, NoActions, sure, FALSE, None).at = "start"
    BY DEF Request
  <2>4. QED  BY <1>3, <2>2, <2>3
<1>6. QED  BY <1>2, <1>4, <1>5 DEF PageStep

LEMMA LookedStep ==
    ASSUME CatalogueInv, [Next]_vars
    PROVE  LookedFirst'
<1>1. ReviewInv /\ LookedFirst
  BY DEF CatalogueInv
<1>2. CASE UNCHANGED vars
  BY <1>1, <1>2 DEF vars, catalogue, LookedFirst
<1>3. CASE PageStep
  BY <1>1, <1>3, PagesSend DEF LookedFirst
<1>4. CASE ServerStep
  <2>1. PICK q \in Slots :
            /\ MayRun(q)
            /\ \/ OracleStep(q) \/ CatalogueStep(q) \/ ReadPromoted(q) \/ EnsureSuite(q)
               \/ GetCase(q) \/ SaveRow(q) \/ LookAtFile(q) \/ SaveFile(q)
    BY <1>4 DEF ServerStep
  <2>2. /\ \A o \in Slots \ {q} : req'[o] = req[o]
        /\ req'[q].at = "write" =>
             /\ LookAtFile(q) /\ req'[q].op = req[q].op /\ req'[q].sure = req[q].sure
             /\ files' = files /\ (files = None \/ req[q].sure)
    BY <1>1, <2>1, WritersAfter
  <2>3. (req[q].at = "write" => /\ req[q].op \in {"create", "promote", "sync"}
                                /\ req[q].sure \/ files \in {None, Case("file")})'
    BY <2>2 DEF LookAtFile, LooksForFile
  <2>4. ASSUME NEW o \in Slots \ {q}, req'[o].at = "write"
        PROVE  /\ req'[o].op \in {"create", "promote", "sync"}
               /\ req'[o].sure \/ files' \in {None, Case("file")}
    <3>1. req[o].at = "write" /\ req'[o] = req[o]
      BY <2>2, <2>4
    <3>2. Threaded(q)
      BY <2>1, <3>1 DEF MayRun
    <3>3. files' \in {files, Case("file")}
      BY <1>1, <2>1, <3>2, ThreadsWrite
    <3>4. QED  BY <1>1, <3>1, <3>3 DEF LookedFirst
  <2>5. QED  BY <2>3, <2>4 DEF LookedFirst
<1>5. CASE Restart
  <2>1. \A q \in Slots : req'[q].at = "start"
    BY <1>5 DEF Restart, NoRequest, Request
  <2>2. QED  BY <2>1 DEF LookedFirst
<1>6. QED  BY <1>2, <1>3, <1>4, <1>5 DEF Next

LEMMA CatalogueInit == EvalStudioAssumption /\ Init => CatalogueInv
<1> SUFFICES ASSUME EvalStudioAssumption, Init PROVE CatalogueInv
  OBVIOUS
<1>1. \A q \in Slots : req[q].at = "start"
  BY DEF Init, NoRequest, Request
<1>2. QED  BY <1>1, StudioInit_Inv DEF CatalogueInv, LookedFirst

\* What may replace a listed case: the request that ends with the step.
MayReplace(q) ==
    /\ req'[q].op = "none"
    /\ \/ req[q].op \in {"put", "template", "factory"} \/ req[q].sure
       \/ db /\ req[q].at = "save"
       \/ ~db /\ req[q].at = "write" /\ files = Case("file")

LEMMA CaseStep ==
    ASSUME CatalogueInv, Next
    PROVE  Listed # None /\ Listed' # None /\ Listed' # Listed => \E q \in Slots : MayReplace(q)
<1> SUFFICES ASSUME Listed # None, Listed' # None, Listed' # Listed
             PROVE  \E q \in Slots : MayReplace(q)
  OBVIOUS
<1>0. ReviewInv /\ LookedFirst
  BY DEF CatalogueInv
<1>1. \A q \in Slots : Ends(q) => req'[q].op = "none"
  BY <1>0 DEF ReviewInv, ReviewTypeOK, Ends, NoRequest, Request
<1>2. ~UNCHANGED <<files, row, db>>
  BY DEF Listed
<1>3. ~PageStep
  BY <1>0, <1>2, PagesSend
<1>4. ~Restart
  BY <1>2 DEF Restart, catalogue
<1>5. PICK q \in Slots :
          /\ \/ OracleStep(q) \/ CatalogueStep(q) \/ ReadPromoted(q) \/ EnsureSuite(q)
             \/ GetCase(q) \/ SaveRow(q) \/ LookAtFile(q) \/ SaveFile(q)
          /\ db' = db
  BY <1>3, <1>4 DEF Next, ServerStep, bounds
<1>6. ~OracleStep(q) /\ ~ReadPromoted(q) /\ ~EnsureSuite(q) /\ ~GetCase(q) /\ ~LookAtFile(q)
  BY <1>2, <1>5 DEF OracleStep, ReadPromoted, EnsureSuite, GetCase, LookAtFile, catalogue
<1>7. CASE CatalogueStep(q)
  <2>1. req'[q].op = "none"
    BY <1>1, <1>7 DEF CatalogueStep
  <2>2. PutFile(q) \/ FromTemplate(q) \/ WriteFile(q)
    BY <1>5, <1>7 DEF CatalogueStep, DropCase, SyncNothing, CreateSuite, DropSuite, Listed
  <2>3. req[q].op \in {"put", "template", "factory"}
    BY <2>2 DEF PutFile, FromTemplate, WriteFile
  <2>4. QED  BY <2>1, <2>3 DEF MayReplace
<1>8. CASE SaveRow(q)
  BY <1>1, <1>8 DEF SaveRow, MayReplace
<1>9. CASE SaveFile(q)
  <2>1. /\ Ends(q) /\ req[q].at = "write" /\ ~db /\ files # None
    BY <1>5, <1>9 DEF SaveFile, Listed
  <2>2. req[q].sure \/ files = Case("file")
    BY <1>0, <2>1 DEF LookedFirst
  <2>3. QED  BY <1>1, <2>1, <2>2 DEF MayReplace
<1>10. QED  BY <1>5, <1>6, <1>7, <1>8, <1>9

\* A listed case is replaced only by a request that was meant to, or by one that had
\* looked before the case was saved: in the database any, as a file one that a thread
\* wrote from a template; for any number of requests, suites of them and restarts
\* (create_case, create_case_from_template, promote_oracle_fixture_to_suite, sync_project).
THEOREM CasesCorrect == Spec => CasesAreKept
<1>1. Init => CatalogueInv
  BY EvalStudioAssumption, CatalogueInit
<1>2. CatalogueInv /\ [Next]_vars => CatalogueInv'
  BY EvalStudioAssumption, StudioStep, LookedStep DEF CatalogueInv
<1>3. CatalogueInv /\ [Next]_vars =>
          [ Listed # None /\ Listed' # None /\ Listed' # Listed =>
              \E q \in Slots : /\ req'[q].op = "none"
                               /\ \/ req[q].op \in {"put", "template", "factory"} \/ req[q].sure
                                  \/ db /\ req[q].at = "save"
                                  \/ ~db /\ req[q].at = "write" /\ files = Case("file") ]_vars
  BY CaseStep DEF MayReplace
<1>4. QED  BY <1>1, <1>2, <1>3, PTL DEF Spec, CasesAreKept

-----------------------------------------------------------------------------
(***************************************************************************)
(* Memory and consolidation.                                               *)
(***************************************************************************)
Entries  == [id : Observations, importance : Importances,
             status : {"active", "archived", "consolidated"}, age : Nat, left : Nat, nth : Nat]
Clusters == [members : SUBSET Entries, embedded : BOOLEAN]
Facts    == [sources : SUBSET Observations, embedded : BOOLEAN]
Dreams   == [pc : {"none", "clustering", "summarizing", "embedding", "done"},
             todo : SUBSET Entries, clusters : SUBSET Clusters,
             due : SUBSET Observations, skipped : SUBSET Observations]

MemoryTypeOK ==
    /\ setup \in [filter : BOOLEAN, embedder : BOOLEAN, llm : BOOLEAN]
    /\ written \in 0 .. NumObservations /\ filtering \subseteq 1 .. written
    /\ episodic \in SUBSET Entries
    /\ semantic \in Seq(Facts)
    /\ cycle \in [Cycles -> Dreams]
    /\ cyclesOverlapped \in BOOLEAN

\* Observations that have left the filter.
Through == (1 .. written) \ filtering

\* What a cycle still has at hand.
AtHand(t) == t.todo \cup UNION {k.members : k \in t.clusters}

\* All of a cluster is about one subject, and no entry is in two.
ClustersOK(K) ==
    \A k \in K :
        /\ k.members # {}
        /\ \A e, f \in k.members : Similar(e.id, f.id)
        /\ \A j \in K : \A e \in k.members, f \in j.members : e.id = f.id => j = k

\* No entry is at hand twice.
DreamOK(t) ==
    /\ t.pc = "clustering" <=> t.todo # {}
    /\ t.pc \in {"summarizing", "embedding"} => t.clusters # {}
    /\ t.pc \in {"none", "done"} => t.clusters = {}
    /\ \A e, f \in t.todo : e.id = f.id => e = f
    /\ ClustersOK(t.clusters)
    /\ \A k \in t.clusters : \A e \in k.members, f \in t.todo : e.id # f.id

\* An archived entry is unimportant and is kept until both its times are over.
EntryOK(e) ==
    /\ e.id \in Through
    /\ e.status = "archived" => ~High(e) /\ e.age + e.left >= Gone(e)
    /\ e.status = "consolidated" => Covered(e.id)

\* What a cycle is to promote is a fact, or still at hand.
Owed(t, o) == o \in t.skipped \/ \E e \in AtHand(t) : e.id = o /\ High(e)

\* Cycles one by one: what can still become a fact is in none.
Apart ==
    /\ \A c, d \in UnderWay : c = d
    /\ \A i, j \in DOMAIN semantic :
          semantic[i].sources \cap semantic[j].sources # {} => i = j
    /\ \A i \in DOMAIN semantic :
          /\ \A e \in episodic : e.status = "active" => e.id \notin semantic[i].sources
          /\ \A c \in Cycles : \A e \in AtHand(cycle[c]) : e.id \notin semantic[i].sources

DreamsOK ==
    /\ \A c \in Cycles : DreamOK(cycle[c]) /\ \A e \in AtHand(cycle[c]) : e.id \in Through
    /\ \A c \in Cycles : \A o \in cycle[c].due : Covered(o) \/ Owed(cycle[c], o)
    /\ UnderWay # {} => setup.embedder

EntriesOK ==
    /\ \A e, f \in episodic : e.id = f.id => e = f
    /\ \A e \in episodic : EntryOK(e)
    /\ \A o \in early : Covered(o)

FactsOK == \A i \in DOMAIN semantic : semantic[i].sources \subseteq Through

MemoryInv ==
    /\ MemoryTypeOK /\ EntriesOK /\ FactsOK /\ DreamsOK
    /\ ~cyclesOverlapped => Apart

LEMMA SimilarIsKindred ==
  /\ \A o : Similar(o, o)
  /\ \A o, p : Similar(o, p) => Similar(p, o)
  /\ \A o, p, q : Similar(o, p) /\ Similar(p, q) => Similar(o, q)
BY DEF Similar

\* Among naturals there is a least, and among finitely many a greatest one.
LEMMA LeastNatural ==
  ASSUME NEW Q \in SUBSET Nat, Q # {}
  PROVE  \E q \in Q : \A y \in Q : q <= y
<1> DEFINE R == OpToRel(<, Nat)
<1>1. IsWellFoundedOn(R, Nat)
  BY NatLessThanWellFounded
<1>2. \A x, y \in Nat : x < y => <<x, y>> \in R
  BY DEF OpToRel
<1> HIDE DEF R
<1>3. PICK q \in Q : \A y \in Q : ~(<<y, q>> \in R)
  BY <1>1, WFMin
<1>4. \A y \in Q : y \in Nat /\ q \in Nat
  OBVIOUS
<1>5. \A y \in Q : ~(y < q)
  BY <1>2, <1>3, <1>4
<1>6. \A y \in Q : q <= y
  BY <1>4, <1>5
<1> QED
  BY <1>6

LEMMA GreatestNatural ==
  ASSUME NEW S \in SUBSET Nat, IsFiniteSet(S), S # {}
  PROVE  Max(S) \in S /\ \A y \in S : y <= Max(S)
<1> DEFINE Topless(T) == T # {} /\ ~\E x \in T : \A y \in T : y <= x
           Q == {c \in Nat : \E T \in SUBSET Nat : IsFiniteSet(T) /\ Cardinality(T) = c /\ Topless(T)}
<1>1. Q = {}
  <2> SUFFICES ASSUME Q # {} PROVE FALSE
    OBVIOUS
  <2>1. PICK c \in Q : \A d \in Q : c <= d
    BY LeastNatural
  <2>2. PICK T \in SUBSET Nat : IsFiniteSet(T) /\ Cardinality(T) = c /\ Topless(T)
    BY <2>1
  <2>3. PICK x \in T : TRUE
    BY <2>2
  <2> DEFINE U == T \ {x}
  <2>4. IsFiniteSet(U) /\ Cardinality(U) = c - 1 /\ U \in SUBSET Nat
    BY <2>2, <2>3, FS_RemoveElement
  <2>5. c \in Nat /\ c - 1 \in Nat
    BY <2>4, FS_CardinalityType
  <2>6. ~Topless(U)
    <3>1. c - 1 \notin Q
      BY <2>1, <2>5
    <3>2. QED  BY <2>4, <2>5, <3>1
  <2>7. CASE U = {}
    <3>1. \A y \in T : y = x /\ y \in Nat
      BY <2>3, <2>7
    <3>2. \A y \in T : y <= x
      BY <3>1
    <3>3. QED  BY <2>2, <2>3, <3>2
  <2>8. CASE U # {}
    <3>1. PICK z \in U : \A y \in U : y <= z
      BY <2>6, <2>8
    <3>2. x \in Nat /\ z \in Nat /\ \A y \in T : y = x \/ y \in U
      OBVIOUS
    <3>3. (\A y \in T : y <= x) \/ (\A y \in T : y <= z)
      <4>1. CASE x <= z
        BY <3>1, <3>2, <4>1
      <4>2. CASE ~(x <= z)
        <5>1. \A y \in U : y \in Nat /\ y <= z
          BY <3>1
        <5>2. \A y \in U : y <= x
          BY <3>2, <4>2, <5>1
        <5>3. x <= x
          BY <3>2
        <5>4. QED  BY <3>2, <5>2, <5>3
      <4>3. QED  BY <4>1, <4>2
    <3>4. z \in T
      OBVIOUS
    <3>5. QED  BY <2>2, <3>3, <3>4
  <2>9. QED  BY <2>7, <2>8
<1>2. Cardinality(S) \in Nat
  BY FS_CardinalityType
<1>3. ~Topless(S)
  BY <1>1, <1>2
<1>4. \E x \in S : \A y \in S : x >= y
  BY <1>3
<1>5. Max(S) \in S /\ \A y \in S : Max(S) >= y
  BY <1>4 DEF Max
<1>6. QED  BY <1>5

LEMMA OldestIsOne ==
  ASSUME NEW s \in SUBSET Entries, s # {}
  PROVE  Oldest(s) \in s
<1>1. \A e \in s : e.nth \in Nat
  BY DEF Entries
<1> DEFINE Q == {e.nth : e \in s}
<1>2. Q \in SUBSET Nat /\ Q # {}
  BY <1>1
<1>3. PICK q \in Q : \A y \in Q : q <= y
  BY <1>2, LeastNatural
<1>4. \E e \in s : \A f \in s : e.nth <= f.nth
  BY <1>3
<1>5. QED  BY <1>4 DEF Oldest

LEMMA FirstIsOne ==
  ASSUME NEW K \in SUBSET Clusters, K # {}, \A k \in K : k.members # {}
  PROVE  First(K) \in K
<1>1. \A k \in K : k.members \in SUBSET Entries
  BY DEF Clusters
<1>2. \A k \in K : Oldest(k.members) \in Entries
  BY <1>1, OldestIsOne
<1>3. \A k \in K : Oldest(k.members).nth \in Nat
  BY <1>2 DEF Entries
<1> DEFINE Q == {Oldest(k.members).nth : k \in K}
<1>4. Q \in SUBSET Nat /\ Q # {}
  BY <1>3
<1>5. PICK q \in Q : \A y \in Q : q <= y
  BY <1>4, LeastNatural
<1>6. \E k \in K : \A j \in K : Oldest(k.members).nth <= Oldest(j.members).nth
  BY <1>5
<1>7. QED  BY <1>6 DEF First

\* A finite set as a sequence has each element once.
LEMMA ListOf ==
  ASSUME NEW S, IsFiniteSet(S)
  PROVE  /\ SetToSeq(S) \in Seq(S)
         /\ \A x : x \in S <=> \E i \in DOMAIN SetToSeq(S) : SetToSeq(S)[i] = x
         /\ \A i, j \in DOMAIN SetToSeq(S) : SetToSeq(S)[i] = SetToSeq(S)[j] => i = j
<1>1. PICK n \in Nat : n = Cardinality(S)
  BY FS_CardinalityType
<1>2. PICK g \in Bijection(1 .. n, S) : TRUE
  BY <1>1, FS_CardinalityType DEF ExistsBijection
<1>3. g \in [1 .. n -> S] /\ IsInjective(g)
  BY <1>2 DEF Bijection, Injection
<1>4. SetToSeq(S) \in [1 .. n -> S] /\ IsInjective(SetToSeq(S))
  BY <1>1, <1>3 DEF SetToSeq
<1> DEFINE f == SetToSeq(S)
<1>5. f \in [1 .. n -> S] /\ IsInjective(f)
  BY <1>4
<1> HIDE DEF f
<1>6. f \in Injection(1 .. n, S)
  BY <1>5 DEF Injection
<1>7. IsFiniteSet(1 .. n) /\ Cardinality(1 .. n) = n
  <2>1. 1 \in Int /\ n \in Int
    OBVIOUS
  <2>2. Cardinality(1 .. n) = IF 1 > n THEN 0 ELSE n - 1 + 1
    BY <2>1, FS_Interval
  <2>3. QED  BY <2>1, <2>2, FS_Interval
<1>8. f \in Surjection(1 .. n, S)
  BY <1>1, <1>6, <1>7, FS_Injection
<1>9. \A x \in S : \E i \in 1 .. n : f[i] = x
  BY <1>8 DEF Surjection
<1>10. DOMAIN f = 1 .. n /\ \A i, j \in DOMAIN f : f[i] = f[j] => i = j
  BY <1>5 DEF IsInjective
<1>11. f \in Seq(S)
  BY <1>5, SeqDef
<1>12. /\ f \in Seq(S)
       /\ \A x : x \in S <=> \E i \in DOMAIN f : f[i] = x
       /\ \A i, j \in DOMAIN f : f[i] = f[j] => i = j
  BY <1>5, <1>9, <1>10, <1>11
<1>13. QED  BY <1>12 DEF f

-----------------------------------------------------------------------------
\* What is a fact stays one, unless the scope is cleared.
MoreFacts == ToSet(semantic) \subseteq ToSet(semantic')

LEMMA CoveredStays ==
  ASSUME MoreFacts, NEW o
  PROVE  Covered(o) => Covered(o)'
BY DEF Covered, MoreFacts

LEMMA EpisodicIsFinite == MemoryTypeOK /\ EntriesOK => IsFiniteSet(episodic)
<1> SUFFICES ASSUME MemoryTypeOK, EntriesOK PROVE IsFiniteSet(episodic)
  OBVIOUS
<1>1. episodic \in SUBSET Entries /\ \A e, f \in episodic : e.id = f.id => e = f
  BY DEF MemoryTypeOK, EntriesOK
<1>2. \A e \in episodic : e.id \in Observations
  BY <1>1 DEF Entries
<1>3. [e \in episodic |-> e.id] \in Injection(episodic, Observations)
  BY <1>1, <1>2 DEF Injection, IsInjective
<1>4. IsFiniteSet(Observations)
  BY FS_Interval, MemoryAssumption DEF Observations
<1>5. QED  BY <1>3, <1>4, FS_Injection

\* The steps that leave the cycles alone leave them in order.
LEMMA DreamsStay ==
  ASSUME DreamsOK, UNCHANGED <<cycle, setup>>, Through \subseteq Through', MoreFacts
  PROVE  DreamsOK'
<1>1. \A c \in Cycles : DreamOK(cycle[c]) /\ \A e \in AtHand(cycle[c]) : e.id \in Through
  BY DEF DreamsOK
<1>2. \A c \in Cycles : \A o \in cycle[c].due : Covered(o) \/ Owed(cycle[c], o)
  BY DEF DreamsOK
<1>3. UnderWay # {} => setup.embedder
  BY DEF DreamsOK
<1>4. ASSUME NEW c \in Cycles
      PROVE  /\ DreamOK(cycle[c])' /\ \A e \in AtHand(cycle[c])' : e.id \in Through'
             /\ \A o \in cycle'[c].due : Covered(o)' \/ Owed(cycle[c], o)'
  <2>1. cycle'[c] = cycle[c]
    OBVIOUS
  <2>2. AtHand(cycle[c])' = AtHand(cycle[c])
    BY <2>1 DEF AtHand
  <2>3. DreamOK(cycle[c])'
    BY <1>1, <2>1 DEF DreamOK
  <2>4. \A e \in AtHand(cycle[c])' : e.id \in Through'
    BY <1>1, <2>2
  <2>5. ASSUME NEW o \in cycle'[c].due PROVE Covered(o)' \/ Owed(cycle[c], o)'
    <3>1. Covered(o) \/ Owed(cycle[c], o)
      BY <1>2, <2>1
    <3>2. Owed(cycle[c], o) => Owed(cycle[c], o)'
      BY <2>1, <2>2 DEF Owed
    <3>3. QED  BY <3>1, <3>2, CoveredStays
  <2>6. QED  BY <2>3, <2>4, <2>5
<1>5. UnderWay' # {} => setup'.embedder
  BY <1>3 DEF UnderWay
<1>6. QED  BY <1>4, <1>5 DEF DreamsOK

LEMMA MemoryInitial == MemoryInit => MemoryInv
<1> SUFFICES ASSUME MemoryInit PROVE MemoryInv
  OBVIOUS
<1>1. /\ setup \in [filter : BOOLEAN, embedder : BOOLEAN, llm : BOOLEAN]
      /\ written = 0 /\ filtering = {} /\ episodic = {} /\ semantic = <<>>
      /\ cycle = [c \in Cycles |-> NoCycle] /\ early = {} /\ cyclesOverlapped = FALSE
  BY DEF MemoryInit
<1>2. \A c \in Cycles : cycle[c] = NoCycle
  BY <1>1
<1>3. NoCycle \in Dreams
  BY DEF NoCycle, Dreams
<1>4. MemoryTypeOK
  <2>1. written \in 0 .. NumObservations
    BY <1>1, MemoryAssumption
  <2>2. cycle \in [Cycles -> Dreams]
    BY <1>1, <1>3
  <2>3. semantic \in Seq(Facts)
    BY <1>1
  <2>4. filtering \subseteq 1 .. written /\ episodic \in SUBSET Entries
    BY <1>1
  <2>5. cyclesOverlapped \in BOOLEAN
    BY <1>1
  <2>6. QED  BY <1>1, <2>1, <2>2, <2>3, <2>4, <2>5 DEF MemoryTypeOK
<1>5. DreamOK(NoCycle) /\ AtHand(NoCycle) = {}
  BY DEF DreamOK, ClustersOK, AtHand, NoCycle
<1>6. UnderWay = {}
  BY <1>2 DEF UnderWay, NoCycle
<1>7. DOMAIN semantic = {}
  BY <1>1
<1>8. DreamsOK
  <2>1. NoCycle.due = {}
    BY DEF NoCycle
  <2>2. QED  BY <1>2, <1>5, <1>6, <2>1 DEF DreamsOK
<1>9. EntriesOK /\ FactsOK /\ Apart
  BY <1>1, <1>6, <1>7 DEF EntriesOK, FactsOK, Apart
<1>10. QED  BY <1>4, <1>8, <1>9 DEF MemoryInv

\* An observation that gets through the filter, or needs not.
LEMMA StoreStep ==
  ASSUME MemoryInv, NEW o \in Observations, o \notin Through, o \in Through',
         Through \subseteq Through', StoreEpisodic(o),
         UNCHANGED <<setup, semantic, cycle, early, cyclesOverlapped>>
  PROVE  /\ episodic' \in SUBSET Entries
         /\ EntriesOK' /\ FactsOK' /\ DreamsOK' /\ (~cyclesOverlapped => Apart)'
<1>1. /\ MemoryTypeOK /\ EntriesOK /\ FactsOK /\ DreamsOK
      /\ ~cyclesOverlapped => Apart
  BY DEF MemoryInv
<1>2. episodic \in SUBSET Entries /\ semantic \in Seq(Facts)
  BY <1>1 DEF MemoryTypeOK
<1>3. IsFiniteSet(episodic)
  BY <1>1, EpisodicIsFinite
<1>4. Roomy \subseteq episodic
  BY DEF Roomy
<1>5. Latest(Roomy) \in Nat
  <2>1. PICK s : s = Roomy
    OBVIOUS
  <2>2. s \in SUBSET Entries /\ IsFiniteSet(s)
    BY <1>2, <1>3, <1>4, <2>1, FS_Subset
  <2> DEFINE T == {e.nth : e \in s}
             f == [e \in s |-> e.nth]
  <2>3. \A e \in s : e.nth \in Nat
    BY <2>2 DEF Entries
  <2>4. T \in SUBSET Nat
    BY <2>3
  <2>5. f \in Surjection(s, T)
    BY DEF Surjection
  <2> HIDE DEF f
  <2>6. IsFiniteSet(T)
    BY <2>2, <2>5, FS_Surjection
  <2>7. CASE s = {}
    BY <2>1, <2>7 DEF Latest
  <2>8. CASE s # {}
    <3>1. T # {}
      BY <2>8
    <3>2. Max(T) \in Nat
      BY <2>4, <2>6, <3>1, GreatestNatural
    <3>3. Latest(s) = Max(T)
      BY <2>8 DEF Latest
    <3>4. QED  BY <2>1, <3>2, <3>3
  <2>9. QED  BY <2>7, <2>8
<1>6. PICK e : /\ e \in Entries /\ e.id = o /\ e.status = "active"
               /\ episodic' = Roomy \cup {e}
  <2>1. PICK i \in Importances :
          episodic' = Roomy \cup {[id |-> o, importance |-> i, status |-> "active",
                                   age |-> 0, left |-> 0, nth |-> Latest(Roomy) + 1]}
    BY DEF StoreEpisodic
  <2>2. PICK e : e = [id |-> o, importance |-> i, status |-> "active",
                      age |-> 0, left |-> 0, nth |-> Latest(Roomy) + 1]
    OBVIOUS
  <2>3. Latest(Roomy) + 1 \in Nat
    BY <1>5
  <2>4. e \in Entries /\ e.id = o /\ e.status = "active"
    BY <2>2, <2>3 DEF Entries
  <2>5. QED  BY <2>1, <2>2, <2>4
<1>7. episodic' \in SUBSET Entries
  BY <1>2, <1>4, <1>6
<1>8. \A f \in episodic : EntryOK(f) /\ f.id \in Through
  BY <1>1 DEF EntriesOK, EntryOK
<1>9. \A f \in episodic' : f = e \/ f \in episodic
  BY <1>4, <1>6
<1>10. MoreFacts /\ \A p : Covered(p)' <=> Covered(p)
  BY DEF MoreFacts, Covered
<1>11. EntriesOK'
  <2>1. ASSUME NEW f \in episodic', NEW g \in episodic', f.id = g.id PROVE f = g
    <3>1. \A h \in episodic : h.id # o
      BY <1>8
    <3>2. \A h, k \in episodic : h.id = k.id => h = k
      BY <1>1 DEF EntriesOK
    <3>3. QED  BY <1>6, <1>9, <2>1, <3>1, <3>2
  <2>2. ASSUME NEW f \in episodic' PROVE EntryOK(f)'
    <3>1. CASE f = e
      BY <1>6, <3>1 DEF EntryOK
    <3>2. CASE f \in episodic
      BY <1>8, <1>10, <3>2 DEF EntryOK
    <3>3. QED  BY <1>9, <3>1, <3>2
  <2>3. \A p \in early' : Covered(p)'
    BY <1>1, <1>10 DEF EntriesOK
  <2>4. QED  BY <2>1, <2>2, <2>3 DEF EntriesOK
<1>12. FactsOK'
  BY <1>1 DEF FactsOK
<1>13. DreamsOK'
  BY <1>1, <1>10, DreamsStay
<1>14. ASSUME ~cyclesOverlapped' PROVE Apart'
  <2>1. Apart
    BY <1>1, <1>14
  <2>2. \A c, d \in UnderWay' : c = d
    BY <2>1 DEF Apart, UnderWay
  <2>3. \A i, j \in DOMAIN semantic' : semantic'[i].sources \cap semantic'[j].sources # {} => i = j
    BY <2>1 DEF Apart
  <2>4. ASSUME NEW i \in DOMAIN semantic', NEW f \in episodic', f.status = "active"
        PROVE  f.id \notin semantic'[i].sources
    <3>1. semantic[i].sources \subseteq Through
      BY <1>1 DEF FactsOK
    <3>2. CASE f = e
      BY <1>6, <3>1, <3>2
    <3>3. CASE f \in episodic
      BY <2>1, <2>4, <3>3 DEF Apart
    <3>4. QED  BY <1>9, <3>2, <3>3
  <2>5. \A i \in DOMAIN semantic' : \A c \in Cycles : \A f \in AtHand(cycle[c])' :
          f.id \notin semantic'[i].sources
    BY <2>1 DEF Apart, AtHand
  <2>6. QED  BY <2>2, <2>3, <2>4, <2>5 DEF Apart
<1>15. QED  BY <1>7, <1>11, <1>12, <1>13, <1>14

LEMMA ObserveStep == MemoryInv /\ Write => MemoryInv'
<1> SUFFICES ASSUME MemoryInv, Write PROVE MemoryInv'
  OBVIOUS
<1>1. /\ MemoryTypeOK /\ EntriesOK /\ FactsOK /\ DreamsOK
      /\ ~cyclesOverlapped => Apart
  BY DEF MemoryInv
<1>2. written \in 0 .. NumObservations /\ filtering \subseteq 1 .. written
  BY <1>1 DEF MemoryTypeOK
<1>3. PICK n \in Nat : n = written
  BY <1>2
<1>4. /\ n < NumObservations /\ written' = n + 1
      /\ UNCHANGED <<setup, semantic, cycle, early, cyclesOverlapped>>
  BY <1>3 DEF Write
<1>5. NumObservations \in Nat /\ n + 1 \in Observations /\ n + 1 \in 0 .. NumObservations
  BY <1>4, MemoryAssumption DEF Observations
<1>6. n + 1 \notin 1 .. n /\ 1 .. n \subseteq 1 .. n + 1 /\ n + 1 \in 1 .. n + 1
  OBVIOUS
<1>7. CASE filtering' = filtering \cup {n + 1} /\ episodic' = episodic
  <2>1. Through' = Through
    <3>1. 1 .. n + 1 = 1 .. n \cup {n + 1}
      OBVIOUS
    <3>2. QED  BY <1>3, <1>4, <1>6, <1>7, <3>1 DEF Through
  <2>2. filtering' \subseteq 1 .. written'
    BY <1>2, <1>3, <1>4, <1>6, <1>7
  <2>3. MoreFacts /\ \A p : Covered(p)' <=> Covered(p)
    BY <1>4 DEF MoreFacts, Covered
  <2>4. MemoryTypeOK'
    BY <1>1, <1>4, <1>5, <1>7, <2>2 DEF MemoryTypeOK
  <2>5. EntriesOK'
    BY <1>1, <1>4, <1>7, <2>1, <2>3 DEF EntriesOK, EntryOK
  <2>6. FactsOK'
    BY <1>1, <1>4, <2>1 DEF FactsOK
  <2>7. DreamsOK'
    BY <1>1, <1>4, <2>1, <2>3, DreamsStay
  <2>8. (~cyclesOverlapped => Apart)'
    BY <1>1, <1>4, <1>7 DEF Apart, UnderWay, AtHand
  <2>9. QED  BY <2>4, <2>5, <2>6, <2>7, <2>8 DEF MemoryInv
<1>8. CASE filtering' = filtering /\ StoreEpisodic(n + 1)
  <2>1. Through \subseteq Through' /\ n + 1 \notin Through /\ n + 1 \in Through'
    BY <1>2, <1>3, <1>4, <1>6, <1>8 DEF Through
  <2>2. /\ episodic' \in SUBSET Entries
        /\ EntriesOK' /\ FactsOK' /\ DreamsOK' /\ (~cyclesOverlapped => Apart)'
    BY <1>4, <1>5, <1>8, <2>1, StoreStep
  <2>3. filtering' \subseteq 1 .. written'
    BY <1>2, <1>3, <1>4, <1>6, <1>8
  <2>4. MemoryTypeOK'
    BY <1>1, <1>4, <1>5, <2>2, <2>3 DEF MemoryTypeOK
  <2>5. QED  BY <2>2, <2>4 DEF MemoryInv
<1>9. QED  BY <1>3, <1>7, <1>8 DEF Write

LEMMA FilterStep ==
  ASSUME MemoryInv, NEW o \in filtering, FilterKeeps(o) \/ FilterDrops(o)
  PROVE  MemoryInv'
<1>1. /\ MemoryTypeOK /\ EntriesOK /\ FactsOK /\ DreamsOK
      /\ ~cyclesOverlapped => Apart
  BY DEF MemoryInv
<1>2. written \in 0 .. NumObservations /\ filtering \subseteq 1 .. written
  BY <1>1 DEF MemoryTypeOK
<1>3. /\ filtering' = filtering \ {o}
      /\ UNCHANGED <<setup, written, semantic, cycle, early, cyclesOverlapped>>
  BY DEF FilterKeeps, FilterDrops
<1>4. o \in Observations
  BY <1>2, MemoryAssumption DEF Observations
<1>5. Through \subseteq Through' /\ o \notin Through /\ o \in Through'
  BY <1>2, <1>3 DEF Through
<1>6. filtering' \subseteq 1 .. written'
  BY <1>2, <1>3
<1>7. CASE FilterKeeps(o)
  <2>1. /\ episodic' \in SUBSET Entries
        /\ EntriesOK' /\ FactsOK' /\ DreamsOK' /\ (~cyclesOverlapped => Apart)'
    <3>1. StoreEpisodic(o)
      BY <1>7 DEF FilterKeeps
    <3>2. QED  BY <1>3, <1>4, <1>5, <3>1, StoreStep
  <2>2. MemoryTypeOK'
    BY <1>1, <1>3, <1>6, <2>1 DEF MemoryTypeOK
  <2>3. QED  BY <2>1, <2>2 DEF MemoryInv
<1>8. CASE FilterDrops(o)
  <2>1. episodic' = episodic
    BY <1>8 DEF FilterDrops
  <2>2. MoreFacts /\ \A p : Covered(p)' <=> Covered(p)
    BY <1>3 DEF MoreFacts, Covered
  <2>3. MemoryTypeOK'
    BY <1>1, <1>3, <1>6, <2>1 DEF MemoryTypeOK
  <2>4. EntriesOK'
    <3>1. \A e \in episodic : EntryOK(e) => EntryOK(e)'
      BY <1>5, <2>2 DEF EntryOK
    <3>2. QED  BY <1>1, <1>3, <2>1, <2>2, <3>1 DEF EntriesOK
  <2>5. FactsOK'
    BY <1>1, <1>3, <1>5 DEF FactsOK
  <2>6. DreamsOK'
    BY <1>1, <1>3, <1>5, <2>2, DreamsStay
  <2>7. (~cyclesOverlapped => Apart)'
    BY <1>1, <1>3, <2>1 DEF Apart, UnderWay, AtHand
  <2>8. QED  BY <2>3, <2>4, <2>5, <2>6, <2>7 DEF MemoryInv
<1>9. QED  BY <1>7, <1>8

LEMMA ClearStep == MemoryInv /\ Clear => MemoryInv'
<1> SUFFICES ASSUME MemoryInv, Clear PROVE MemoryInv'
  OBVIOUS
<1>1. /\ MemoryTypeOK /\ DreamsOK
      /\ ~cyclesOverlapped => Apart
  BY DEF MemoryInv
<1>2. /\ episodic' = {} /\ semantic' = <<>> /\ early' = {}
      /\ cycle' = [c \in Cycles |-> [cycle[c] EXCEPT !.due = {}]]
      /\ UNCHANGED <<setup, written, filtering, cyclesOverlapped>>
  BY DEF Clear
<1>3. \A c \in Cycles : cycle[c] \in Dreams
  BY <1>1 DEF MemoryTypeOK
<1>4. ASSUME NEW c \in Cycles
      PROVE  /\ cycle'[c] \in Dreams /\ cycle'[c].due = {}
             /\ cycle'[c].pc = cycle[c].pc /\ cycle'[c].todo = cycle[c].todo
             /\ cycle'[c].clusters = cycle[c].clusters
  <2>1. cycle'[c] = [cycle[c] EXCEPT !.due = {}]
    BY <1>2
  <2>2. PICK t : t = cycle[c]
    OBVIOUS
  <2>3. t \in Dreams
    BY <1>3, <2>2
  <2>4. [t EXCEPT !.due = {}] \in Dreams
    BY <2>3 DEF Dreams
  <2>5. LET u == [t EXCEPT !.due = {}]
        IN  u.due = {} /\ u.pc = t.pc /\ u.todo = t.todo /\ u.clusters = t.clusters
    BY <2>3 DEF Dreams
  <2>6. QED  BY <2>1, <2>2, <2>4, <2>5
<1>5. Through' = Through /\ DOMAIN semantic' = {}
  BY <1>2 DEF Through
<1>6. MemoryTypeOK'
  <2>1. cycle' \in [Cycles -> Dreams]
    BY <1>2, <1>4
  <2>2. semantic' \in Seq(Facts)
    BY <1>2
  <2>3. QED  BY <1>1, <1>2, <2>1, <2>2 DEF MemoryTypeOK
<1>7. EntriesOK' /\ FactsOK'
  BY <1>2, <1>5 DEF EntriesOK, FactsOK
<1>8. UnderWay' = UnderWay
  BY <1>4 DEF UnderWay
<1>9. \A c \in Cycles : AtHand(cycle[c])' = AtHand(cycle[c])
  BY <1>4 DEF AtHand
<1>10. DreamsOK'
  <2>1. \A c \in Cycles : DreamOK(cycle[c])'
    BY <1>1, <1>4 DEF DreamsOK, DreamOK
  <2>2. \A c \in Cycles : \A e \in AtHand(cycle[c])' : e.id \in Through'
    BY <1>1, <1>5, <1>9 DEF DreamsOK
  <2>3. \A c \in Cycles : \A o \in cycle'[c].due : FALSE
    BY <1>4
  <2>4. UnderWay' # {} => setup'.embedder
    BY <1>1, <1>2, <1>8 DEF DreamsOK
  <2>5. QED  BY <2>1, <2>2, <2>3, <2>4 DEF DreamsOK
<1>11. (~cyclesOverlapped => Apart)'
  BY <1>1, <1>2, <1>5, <1>8 DEF Apart
<1>12. QED  BY <1>6, <1>7, <1>10, <1>11 DEF MemoryInv

LEMMA DayStep == MemoryInv /\ DayPasses => MemoryInv'
<1> SUFFICES ASSUME MemoryInv, DayPasses PROVE MemoryInv'
  OBVIOUS
<1> USE MemoryAssumption
<1>1. /\ MemoryTypeOK /\ EntriesOK /\ FactsOK /\ DreamsOK
      /\ ~cyclesOverlapped => Apart
  BY DEF MemoryInv
<1>2. /\ episodic' = {Older(e) : e \in episodic}
      /\ UNCHANGED <<setup, written, filtering, semantic, cycle, early, cyclesOverlapped>>
  BY DEF DayPasses
<1>3. episodic \in SUBSET Entries
  BY <1>1 DEF MemoryTypeOK
<1>4. \A e \in Entries : ~High(e) => Gone(e) \in Nat
  <2>1. \A e \in Entries : ~High(e) => e.importance \in {"medium", "low"}
    BY DEF Entries, High, Importances
  <2>2. \A i \in {"medium", "low"} : Life[i] \in Nat
    OBVIOUS
  <2>3. ArchiveTTL \in Nat
    OBVIOUS
  <2>4. QED  BY <2>1, <2>2, <2>3 DEF Gone
<1>5. \A e \in Entries : High(e) => Gone(e) \in Nat
  BY DEF Gone
<1>6. ASSUME NEW e \in Entries
      PROVE  /\ Older(e) \in Entries
             /\ Older(e).id = e.id /\ Older(e).status = e.status
             /\ Older(e).importance = e.importance
             /\ e.age + e.left >= Gone(e) => Older(e).age + Older(e).left >= Gone(e)
  <2>1. PICK g \in Nat : g = Gone(e)
    BY <1>4, <1>5
  <2>2. PICK a \in Nat, l \in Nat : a = e.age /\ l = e.left
    BY DEF Entries
  <2>3. PICK b \in Nat : b = IF a < g THEN a + 1 ELSE a
    OBVIOUS
  <2>4. PICK m \in Nat : m = IF l > 0 THEN l - 1 ELSE 0
    OBVIOUS
  <2>5. Older(e) = [e EXCEPT !.age = b, !.left = m]
    BY <2>1, <2>2, <2>3, <2>4 DEF Older, Entries
  <2>6. /\ [e EXCEPT !.age = b, !.left = m] \in Entries
        /\ [e EXCEPT !.age = b, !.left = m].id = e.id
        /\ [e EXCEPT !.age = b, !.left = m].status = e.status
        /\ [e EXCEPT !.age = b, !.left = m].importance = e.importance
        /\ [e EXCEPT !.age = b, !.left = m].age = b
        /\ [e EXCEPT !.age = b, !.left = m].left = m
    BY DEF Entries
  <2>7. a + l >= g => b + m >= g
    BY <2>3, <2>4
  <2>8. QED  BY <2>1, <2>2, <2>5, <2>6, <2>7
<1>7. episodic' \in SUBSET Entries
  BY <1>2, <1>3, <1>6
<1>8. Through' = Through /\ MoreFacts /\ \A p : Covered(p)' <=> Covered(p)
  BY <1>2 DEF Through, MoreFacts, Covered
<1>9. MemoryTypeOK'
  BY <1>1, <1>2, <1>7 DEF MemoryTypeOK
<1>10. EntriesOK'
  <2>1. ASSUME NEW f \in episodic', NEW g \in episodic', f.id = g.id PROVE f = g
    <3>1. PICK d \in episodic, e \in episodic : f = Older(d) /\ g = Older(e)
      BY <1>2
    <3>2. d.id = e.id
      BY <1>3, <1>6, <2>1, <3>1
    <3>3. d = e
      BY <1>1, <3>2 DEF EntriesOK
    <3>4. QED  BY <3>1, <3>3
  <2>2. ASSUME NEW f \in episodic' PROVE EntryOK(f)'
    <3>1. PICK e \in episodic : f = Older(e)
      BY <1>2
    <3>2. EntryOK(e) /\ e \in Entries
      BY <1>1, <1>3 DEF EntriesOK
    <3>3. f.id = e.id /\ f.status = e.status /\ (High(f) <=> High(e)) /\ Gone(f) = Gone(e)
      BY <1>6, <3>1, <3>2 DEF High, Gone
    <3>4. e.age + e.left >= Gone(e) => f.age + f.left >= Gone(f)
      BY <1>6, <3>1, <3>2, <3>3
    <3>5. QED  BY <1>8, <3>2, <3>3, <3>4 DEF EntryOK
  <2>3. QED  BY <1>1, <1>2, <1>8, <2>1, <2>2 DEF EntriesOK
<1>11. FactsOK'
  BY <1>1, <1>2, <1>8 DEF FactsOK
<1>12. DreamsOK'
  BY <1>1, <1>2, <1>8, DreamsStay
<1>13. ASSUME ~cyclesOverlapped' PROVE Apart'
  <2>1. Apart
    BY <1>1, <1>2, <1>13
  <2>2. \A i \in DOMAIN semantic' : \A f \in episodic' : f.status = "active" => f.id \notin semantic'[i].sources
    <3> SUFFICES ASSUME NEW i \in DOMAIN semantic', NEW f \in episodic', f.status = "active"
                 PROVE  f.id \notin semantic'[i].sources
      OBVIOUS
    <3>1. PICK e \in episodic : f = Older(e)
      BY <1>2
    <3>2. f.id = e.id /\ e.status = "active"
      BY <1>3, <1>6, <3>1
    <3>3. QED  BY <1>2, <2>1, <3>2 DEF Apart
  <2>3. QED  BY <1>2, <2>1, <2>2 DEF Apart, UnderWay, AtHand
<1>14. QED  BY <1>9, <1>10, <1>11, <1>12, <1>13 DEF MemoryInv

-----------------------------------------------------------------------------
LEMMA PromotingFields ==
  ASSUME NEW t \in Dreams, NEW K \in SUBSET Clusters
  PROVE  LET u == Promoting(t, K)
         IN  /\ u \in Dreams /\ u.todo = {} /\ u.clusters = K
             /\ u.due = t.due /\ u.skipped = t.skipped
             /\ K = {} => u.pc = "done"
             /\ K # {} => u.pc \in {"summarizing", "embedding"}
<1>1. PICK p \in {"done", "summarizing", "embedding"} :
        p = IF K = {} THEN "done"
            ELSE IF setup.llm /\ Several(First(K)) THEN "summarizing" ELSE "embedding"
  OBVIOUS
<1>2. Promoting(t, K) = [t EXCEPT !.todo = {}, !.clusters = K, !.pc = p]
  BY <1>1 DEF Promoting
<1>3. LET u == [t EXCEPT !.todo = {}, !.clusters = K, !.pc = p]
      IN  /\ u \in Dreams /\ u.todo = {} /\ u.clusters = K /\ u.pc = p
          /\ u.due = t.due /\ u.skipped = t.skipped
  BY <1>1 DEF Dreams
<1>4. (K = {} => p = "done") /\ (K # {} => p \in {"summarizing", "embedding"})
  BY <1>1
<1>5. QED  BY <1>2, <1>3, <1>4

LEMMA AtHandIs ==
  ASSUME NEW t
  PROVE  \A f : f \in AtHand(t) <=> f \in t.todo \/ \E k \in t.clusters : f \in k.members
BY DEF AtHand

LEMMA PromotingOK ==
  ASSUME NEW t \in Dreams, NEW K \in SUBSET Clusters, ClustersOK(K)
  PROVE  /\ DreamOK(Promoting(t, K))
         /\ AtHand(Promoting(t, K)) = UNION {k.members : k \in K}
<1>1. PICK u \in Dreams : /\ u = Promoting(t, K) /\ u.todo = {} /\ u.clusters = K
                          /\ K = {} => u.pc = "done"
                          /\ K # {} => u.pc \in {"summarizing", "embedding"}
  BY PromotingFields
<1>2. DreamOK(u)
  BY <1>1 DEF DreamOK
<1>3. AtHand(u) = UNION {k.members : k \in K}
  BY <1>1 DEF AtHand
<1>4. QED  BY <1>1, <1>2, <1>3

\* A step of a cycle that only moves what is at hand.
LEMMA DreamMoves ==
  ASSUME MemoryInv, NEW c \in UnderWay, NEW t \in Dreams,
         cycle' = [cycle EXCEPT ![c] = t],
         DreamOK(t), AtHand(t) \subseteq AtHand(cycle[c]), t.due = cycle[c].due,
         \A o \in t.due : Owed(cycle[c], o) => Owed(t, o),
         UNCHANGED <<setup, written, stores, early, cyclesOverlapped>>
  PROVE  MemoryInv'
<1>1. /\ MemoryTypeOK /\ EntriesOK /\ FactsOK /\ DreamsOK
      /\ ~cyclesOverlapped => Apart
  BY DEF MemoryInv
<1>2. UNCHANGED <<setup, written, filtering, episodic, semantic, early, cyclesOverlapped>>
  BY DEF stores
<1>3. c \in Cycles /\ cycle \in [Cycles -> Dreams]
  BY <1>1 DEF UnderWay, MemoryTypeOK
<1>4. cycle'[c] = t /\ \A d \in Cycles : d # c => cycle'[d] = cycle[d]
  BY <1>3
<1>5. MemoryTypeOK'
  <2>1. cycle' \in [Cycles -> Dreams]
    BY <1>3
  <2>2. QED  BY <1>1, <1>2, <2>1 DEF MemoryTypeOK
<1>6. Through' = Through /\ \A o : Covered(o)' <=> Covered(o)
  BY <1>2 DEF Through, Covered
<1>7. EntriesOK' /\ FactsOK'
  BY <1>1, <1>2, <1>6 DEF EntriesOK, EntryOK, FactsOK
<1>8. UnderWay' \subseteq UnderWay
  BY <1>3, <1>4 DEF UnderWay
<1>9. \A d \in Cycles : AtHand(cycle[d])' \subseteq AtHand(cycle[d])
  <2> SUFFICES ASSUME NEW d \in Cycles PROVE AtHand(cycle[d])' \subseteq AtHand(cycle[d])
    OBVIOUS
  <2>1. CASE d = c
    <3>1. AtHand(cycle[d])' = AtHand(t)
      BY <1>4, <2>1 DEF AtHand
    <3>2. QED  BY <2>1, <3>1
  <2>2. CASE d # c
    BY <1>4, <2>2 DEF AtHand
  <2>3. QED  BY <2>1, <2>2
<1>10. DreamsOK'
  <2>1. ASSUME NEW d \in Cycles PROVE DreamOK(cycle[d])'
    <3>1. CASE d = c
      BY <1>4, <3>1 DEF DreamOK
    <3>2. CASE d # c
      BY <1>1, <1>4, <3>2 DEF DreamOK, DreamsOK
    <3>3. QED  BY <3>1, <3>2
  <2>2. \A d \in Cycles : \A e \in AtHand(cycle[d])' : e.id \in Through'
    BY <1>1, <1>6, <1>9 DEF DreamsOK
  <2>3. ASSUME NEW d \in Cycles, NEW o \in cycle'[d].due PROVE Covered(o)' \/ Owed(cycle[d], o)'
    <3>1. o \in cycle[d].due
      BY <1>4
    <3>2. Covered(o) \/ Owed(cycle[d], o)
      BY <1>1, <3>1 DEF DreamsOK
    <3>3. Owed(cycle[d], o) => Owed(cycle[d], o)'
      <4>1. CASE d = c
        <5>1. Owed(cycle[d], o) => Owed(t, o)
          BY <1>4, <4>1
        <5>2. Owed(t, o) => Owed(cycle[d], o)'
          BY <1>4, <4>1 DEF Owed, AtHand
        <5>3. QED  BY <5>1, <5>2
      <4>2. CASE d # c
        BY <1>4, <4>2 DEF Owed, AtHand
      <4>3. QED  BY <4>1, <4>2
    <3>4. QED  BY <1>6, <3>2, <3>3
  <2>4. UnderWay' # {} => setup'.embedder
    BY <1>1, <1>2, <1>8 DEF DreamsOK
  <2>5. QED  BY <2>1, <2>2, <2>3, <2>4 DEF DreamsOK
<1>11. (~cyclesOverlapped => Apart)'
  BY <1>1, <1>2, <1>8, <1>9 DEF Apart
<1>12. QED  BY <1>5, <1>7, <1>10, <1>11 DEF MemoryInv

LEMMA PlacedOK ==
  ASSUME NEW K \in SUBSET Clusters, ClustersOK(K), NEW e \in Entries, NEW embedded \in BOOLEAN,
         \A k \in K : \A f \in k.members : f.id # e.id
  PROVE  \E P \in SUBSET Clusters :
           /\ P = Placed(K, e, embedded) /\ ClustersOK(P)
           /\ \A f : (\E k \in P : f \in k.members) <=> f = e \/ \E k \in K : f \in k.members
<1> DEFINE close == {k \in K : embedded /\ k.embedded /\ Similar(e.id, Oldest(k.members).id)}
<1>1. CASE close = {}
  <2>1. PICK n : n = [members |-> {e}, embedded |-> embedded]
    OBVIOUS
  <2>2. n \in Clusters /\ n.members = {e}
    BY <2>1 DEF Clusters
  <2>3. Placed(K, e, embedded) = K \cup {n}
    BY <1>1, <2>1 DEF Placed
  <2>4. \A f, g \in n.members : Similar(f.id, g.id)
    BY <2>2, SimilarIsKindred
  <2>5. ClustersOK(K \cup {n})
    BY <2>2, <2>4 DEF ClustersOK
  <2>6. \A f : (\E k \in K \cup {n} : f \in k.members) <=> f = e \/ \E k \in K : f \in k.members
    BY <2>2
  <2>7. QED  BY <2>2, <2>3, <2>5, <2>6
<1>2. CASE close # {}
  <2>1. close \in SUBSET Clusters /\ \A k \in close : k.members # {}
    BY DEF ClustersOK
  <2>2. PICK m \in close : m = First(close)
    BY <1>2, <2>1, FirstIsOne
  <2> HIDE DEF close
  <2>3. m \in K /\ m \in Clusters /\ Similar(e.id, Oldest(m.members).id)
    BY <2>2 DEF close
  <2>4. m.members \in SUBSET Entries /\ m.members # {}
    BY <2>3 DEF Clusters, ClustersOK
  <2>5. Oldest(m.members) \in m.members
    BY <2>4, OldestIsOne
  <2>6. PICK n : n = [m EXCEPT !.members = @ \cup {e}]
    OBVIOUS
  <2>7. n \in Clusters /\ n.members = m.members \cup {e}
    BY <2>3, <2>4, <2>6 DEF Clusters
  <2>8. Placed(K, e, embedded) = (K \ {m}) \cup {n}
    BY <1>2, <2>2, <2>6 DEF Placed, close
  <2>9. \A f \in m.members : Similar(e.id, f.id) /\ Similar(f.id, e.id)
    <3>1. \A f \in m.members : Similar(Oldest(m.members).id, f.id)
      BY <2>3, <2>5 DEF ClustersOK
    <3>2. QED  BY <2>3, <3>1, SimilarIsKindred
  <2>10. \A f, g \in n.members : Similar(f.id, g.id)
    <3>1. \A f, g \in m.members : Similar(f.id, g.id)
      BY <2>3 DEF ClustersOK
    <3>2. QED  BY <2>7, <2>9, <3>1, SimilarIsKindred
  <2>11. \A j \in K \ {m} : \A f \in n.members, g \in j.members : f.id # g.id
    BY <2>3, <2>7 DEF ClustersOK
  <2>12. ClustersOK((K \ {m}) \cup {n})
    <3>1. \A k \in K \ {m} : k.members # {} /\ \A f, g \in k.members : Similar(f.id, g.id)
      BY DEF ClustersOK
    <3>2. \A k, j \in K \ {m} : \A f \in k.members, g \in j.members : f.id = g.id => j = k
      BY DEF ClustersOK
    <3>3. n.members # {}
      BY <2>7
    <3>4. QED  BY <2>10, <2>11, <3>1, <3>2, <3>3 DEF ClustersOK
  <2>13. \A f : (\E k \in (K \ {m}) \cup {n} : f \in k.members)
                    <=> f = e \/ \E k \in K : f \in k.members
    BY <2>3, <2>7
  <2>14. QED  BY <2>7, <2>8, <2>12, <2>13
<1>3. QED  BY <1>1, <1>2

\* What a cycle works with.
LEMMA DreamFields ==
  ASSUME MemoryInv, NEW c \in Cycles
  PROVE  /\ cycle[c] \in Dreams /\ DreamOK(cycle[c])
         /\ cycle[c].todo \in SUBSET Entries /\ cycle[c].clusters \in SUBSET Clusters
         /\ cycle[c].pc \notin {"none", "done"} => c \in UnderWay
<1>1. cycle[c] \in Dreams /\ DreamOK(cycle[c])
  BY DEF MemoryInv, MemoryTypeOK, DreamsOK
<1>2. QED  BY <1>1 DEF Dreams, UnderWay

LEMMA ClusterStep ==
  ASSUME MemoryInv, NEW c \in Cycles, ClusterNext(c)
  PROVE  MemoryInv'
<1>1. PICK t \in Dreams : t = cycle[c]
  BY DreamFields
<1>2. /\ DreamOK(t) /\ t.todo \in SUBSET Entries /\ t.clusters \in SUBSET Clusters
      /\ t.pc = "clustering" /\ c \in UnderWay
  BY <1>1, DreamFields DEF ClusterNext
<1>3. t.todo # {} /\ ClustersOK(t.clusters)
      /\ (\A e, f \in t.todo : e.id = f.id => e = f)
      /\ \A k \in t.clusters : \A e \in k.members, f \in t.todo : e.id # f.id
  BY <1>2 DEF DreamOK
<1>4. PICK next : next = Oldest(t.todo)
  OBVIOUS
<1>5. next \in t.todo /\ next \in Entries
  BY <1>2, <1>3, <1>4, OldestIsOne
<1>6. PICK embedded \in BOOLEAN :
        cycle' = [cycle EXCEPT ![c] =
            IF t.todo \ {next} # {}
            THEN [t EXCEPT !.todo = t.todo \ {next}, !.clusters = Placed(t.clusters, next, embedded)]
            ELSE Promoting(t, {k \in Placed(t.clusters, next, embedded) : WorthAFact(k)})]
  BY <1>1, <1>4 DEF ClusterNext
<1>7. PICK P \in SUBSET Clusters :
        /\ P = Placed(t.clusters, next, embedded) /\ ClustersOK(P)
        /\ \A f : (\E k \in P : f \in k.members)
                    <=> f = next \/ \E k \in t.clusters : f \in k.members
  <2>1. \A k \in t.clusters : \A f \in k.members : f.id # next.id
    BY <1>3, <1>5
  <2> DEFINE K == t.clusters
  <2>2. K \in SUBSET Clusters /\ ClustersOK(K) /\ \A k \in K : \A f \in k.members : f.id # next.id
    BY <1>2, <1>3, <2>1
  <2> HIDE DEF K
  <2>3. \E P \in SUBSET Clusters :
           /\ P = Placed(K, next, embedded) /\ ClustersOK(P)
           /\ \A f : (\E k \in P : f \in k.members) <=> f = next \/ \E k \in K : f \in k.members
    BY <1>5, <2>2, PlacedOK
  <2>4. QED  BY <2>3 DEF K
<1>8. UNCHANGED <<setup, written, stores, early, cyclesOverlapped>>
  BY DEF ClusterNext
<1>9. \A f : f \in AtHand(t) <=> f \in t.todo \ {next} \/ \E k \in P : f \in k.members
  <2>1. \A f : f \in AtHand(t) <=> f \in t.todo \/ \E k \in t.clusters : f \in k.members
    BY AtHandIs
  <2>2. \A f : f \in t.todo <=> f = next \/ f \in t.todo \ {next}
    BY <1>5
  <2>3. QED  BY <1>7, <2>1, <2>2
<1>10. CASE t.todo \ {next} # {}
  <2>1. PICK u : u = [t EXCEPT !.todo = t.todo \ {next}, !.clusters = P]
    OBVIOUS
  <2>2. /\ u \in Dreams /\ u.todo = t.todo \ {next} /\ u.clusters = P
        /\ u.pc = "clustering" /\ u.due = t.due /\ u.skipped = t.skipped
    BY <1>2, <2>1 DEF Dreams
  <2>3. cycle' = [cycle EXCEPT ![c] = u]
    BY <1>6, <1>7, <1>10, <2>1
  <2>4. AtHand(u) = AtHand(t)
    <3>1. \A f : f \in AtHand(u) <=> f \in t.todo \ {next} \/ \E k \in P : f \in k.members
      BY <2>2, AtHandIs
    <3>2. QED  BY <1>9, <3>1
  <2>5. \A k \in P : \A e \in k.members, f \in u.todo : e.id # f.id
    <3> SUFFICES ASSUME NEW k \in P, NEW e \in k.members, NEW f \in u.todo PROVE e.id # f.id
      OBVIOUS
    <3>1. f \in t.todo /\ f # next
      BY <2>2
    <3>2. e = next \/ \E j \in t.clusters : e \in j.members
      BY <1>7
    <3>3. QED  BY <1>3, <1>5, <3>1, <3>2
  <2>6. DreamOK(u)
    BY <1>3, <1>7, <1>10, <2>2, <2>5 DEF DreamOK
  <2>7. \A o : Owed(t, o) => Owed(u, o)
    BY <2>2, <2>4 DEF Owed
  <2>8. QED  BY <1>1, <1>2, <1>8, <2>2, <2>3, <2>4, <2>6, <2>7, DreamMoves
<1>11. CASE t.todo \ {next} = {}
  <2>1. PICK K \in SUBSET Clusters : K = {k \in P : WorthAFact(k)}
    BY <1>7
  <2>2. PICK u : u = Promoting(t, K)
    OBVIOUS
  <2>3. u \in Dreams /\ u.due = t.due /\ u.skipped = t.skipped
    BY <2>2, PromotingFields
  <2>4. ClustersOK(K)
    BY <1>7, <2>1 DEF ClustersOK
  <2>5. DreamOK(u) /\ AtHand(u) = UNION {k.members : k \in K}
    BY <2>2, <2>4, PromotingOK
  <2>6. AtHand(u) \subseteq AtHand(t)
    BY <1>9, <2>1, <2>5
  <2>7. ASSUME NEW o, Owed(t, o) PROVE Owed(u, o)
    <3>1. CASE o \in t.skipped
      BY <2>3, <3>1 DEF Owed
    <3>2. CASE \E e \in AtHand(t) : e.id = o /\ High(e)
      <4>1. PICK e \in AtHand(t) : e.id = o /\ High(e)
        BY <3>2
      <4>2. PICK k \in P : e \in k.members
        BY <1>9, <1>11
      <4>3. WorthAFact(k)
        BY <4>1, <4>2 DEF WorthAFact, Several
      <4>4. e \in AtHand(u)
        BY <2>1, <2>5, <4>2, <4>3
      <4>5. QED  BY <4>1, <4>4 DEF Owed
    <3>3. QED  BY <2>7, <3>1, <3>2 DEF Owed
  <2>8. cycle' = [cycle EXCEPT ![c] = u]
    BY <1>6, <1>7, <1>11, <2>1, <2>2
  <2>9. QED  BY <1>1, <1>2, <1>8, <2>3, <2>5, <2>6, <2>7, <2>8, DreamMoves
<1>12. QED  BY <1>10, <1>11

LEMMA SummarizedStep ==
  ASSUME MemoryInv, NEW c \in Cycles, Summarized(c)
  PROVE  MemoryInv'
<1>1. PICK t \in Dreams : t = cycle[c]
  BY DreamFields
<1>2. DreamOK(t) /\ t.pc = "summarizing" /\ c \in UnderWay
  BY <1>1, DreamFields DEF Summarized
<1>3. PICK u : u = [t EXCEPT !.pc = "embedding"]
  OBVIOUS
<1>4. /\ u \in Dreams /\ u.todo = t.todo /\ u.clusters = t.clusters
      /\ u.pc = "embedding" /\ u.due = t.due /\ u.skipped = t.skipped
  BY <1>3 DEF Dreams
<1>5. cycle' = [cycle EXCEPT ![c] = u]
  BY <1>1, <1>3 DEF Summarized
<1>6. UNCHANGED <<setup, written, stores, early, cyclesOverlapped>>
  BY DEF Summarized
<1>7. DreamOK(u)
  BY <1>2, <1>4 DEF DreamOK
<1>8. AtHand(u) = AtHand(t)
  BY <1>4 DEF AtHand
<1>9. \A o : Owed(t, o) => Owed(u, o)
  BY <1>4, <1>8 DEF Owed
<1>10. QED  BY <1>1, <1>2, <1>4, <1>5, <1>6, <1>7, <1>8, <1>9, DreamMoves

LEMMA EmptyStep ==
  ASSUME MemoryInv, NEW c \in Cycles, SummaryIsEmpty(c)
  PROVE  MemoryInv'
<1>1. PICK t \in Dreams : t = cycle[c]
  BY DreamFields
<1>2. DreamOK(t) /\ t.clusters \in SUBSET Clusters /\ t.pc = "summarizing" /\ c \in UnderWay
  BY <1>1, DreamFields DEF SummaryIsEmpty
<1>3. t.clusters # {} /\ ClustersOK(t.clusters) /\ \A k \in t.clusters : k.members # {}
  BY <1>2 DEF DreamOK, ClustersOK
<1>4. PICK next \in t.clusters : next = First(t.clusters)
  BY <1>2, <1>3, FirstIsOne
<1>5. PICK ids : ids = EntryIds(next.members)
  OBVIOUS
<1>6. ids \subseteq Observations
  BY <1>2, <1>5 DEF EntryIds, Clusters, Entries
<1>7. PICK g : g = [t EXCEPT !.skipped = @ \cup ids]
  OBVIOUS
<1>8. /\ g \in Dreams /\ g.clusters = t.clusters /\ g.due = t.due
      /\ g.skipped = t.skipped \cup ids
  BY <1>6, <1>7 DEF Dreams
<1>9. PICK K \in SUBSET Clusters : K = t.clusters \ {next}
  BY <1>2
<1>10. PICK u : u = Promoting(g, K)
  OBVIOUS
<1>11. cycle' = [cycle EXCEPT ![c] = u]
  <2>1. cycle' = [cycle EXCEPT ![c] = Promoting(g, cycle[c].clusters \ {next})]
    BY <1>1, <1>4, <1>5, <1>7 DEF SummaryIsEmpty
  <2>2. QED  BY <1>1, <1>9, <1>10, <2>1
<1>12. u \in Dreams /\ u.due = t.due /\ u.skipped = t.skipped \cup ids
  BY <1>8, <1>10, PromotingFields
<1>13. ClustersOK(K)
  BY <1>3, <1>9 DEF ClustersOK
<1>14. DreamOK(u) /\ AtHand(u) = UNION {k.members : k \in K}
  BY <1>8, <1>10, <1>13, PromotingOK
<1>15. AtHand(t) = UNION {k.members : k \in t.clusters}
  <2>1. t.todo = {}
    BY <1>2 DEF DreamOK
  <2>2. QED  BY <2>1 DEF AtHand
<1>16. AtHand(u) \subseteq AtHand(t)
  BY <1>9, <1>14, <1>15
<1>17. ASSUME NEW o, Owed(t, o) PROVE Owed(u, o)
  <2>1. CASE o \in t.skipped
    BY <1>12, <2>1 DEF Owed
  <2>2. CASE \E e \in AtHand(t) : e.id = o /\ High(e)
    <3>1. PICK e \in AtHand(t) : e.id = o /\ High(e)
      BY <2>2
    <3>2. PICK k \in t.clusters : e \in k.members
      BY <1>15
    <3>3. CASE k = next
      <4>1. o \in ids
        BY <1>5, <3>1, <3>2, <3>3 DEF EntryIds
      <4>2. QED  BY <1>12, <4>1 DEF Owed
    <3>4. CASE k # next
      <4>1. e \in AtHand(u)
        BY <1>9, <1>14, <3>2, <3>4
      <4>2. QED  BY <3>1, <4>1 DEF Owed
    <3>5. QED  BY <3>3, <3>4
  <2>3. QED  BY <1>17, <2>1, <2>2 DEF Owed
<1>18. UNCHANGED <<setup, written, stores, early, cyclesOverlapped>>
  BY DEF SummaryIsEmpty
<1>19. QED  BY <1>1, <1>2, <1>11, <1>12, <1>14, <1>16, <1>17, <1>18, DreamMoves


\* Who is not under way has nothing at hand.
LEMMA QuietDream ==
  ASSUME NEW t, DreamOK(t), t.pc \in {"none", "done"}
  PROVE  AtHand(t) = {}
BY DEF DreamOK, AtHand

LEMMA MarkedEntries ==
  ASSUME NEW S \in SUBSET Entries, NEW ids
  PROVE  /\ Marked(S, ids) \in SUBSET Entries
         /\ \A g \in Marked(S, ids) : \E e \in S :
              /\ g.id = e.id
              /\ e.id \in ids => g = [e EXCEPT !.status = "consolidated"]
                                 /\ g.status = "consolidated"
              /\ e.id \notin ids => g = e
<1> SUFFICES ASSUME NEW g \in Marked(S, ids)
             PROVE  /\ g \in Entries
                    /\ \E e \in S :
                         /\ g.id = e.id
                         /\ e.id \in ids => g = [e EXCEPT !.status = "consolidated"]
                                            /\ g.status = "consolidated"
                         /\ e.id \notin ids => g = e
  OBVIOUS
<1>1. PICK e \in S : g = IF e.id \in ids THEN [e EXCEPT !.status = "consolidated"] ELSE e
  BY DEF Marked
<1>2. PICK m : m = [e EXCEPT !.status = "consolidated"]
  OBVIOUS
<1>3. e \in Entries /\ m \in Entries /\ m.id = e.id /\ m.status = "consolidated"
  BY <1>2 DEF Entries
<1>4. QED  BY <1>1, <1>2, <1>3

\* Where the facts of a longer store come from.
LEMMA FactsFollow ==
  ASSUME MemoryTypeOK, NEW L \in Seq(Facts), semantic' = semantic \o L
  PROVE  /\ semantic' \in Seq(Facts) /\ MoreFacts
         /\ \A j \in DOMAIN L : \E i \in DOMAIN semantic' : semantic'[i] = L[j]
         /\ \A i \in DOMAIN semantic' :
              \/ i \in DOMAIN semantic /\ semantic'[i] = semantic[i]
              \/ \E j \in DOMAIN L : i = Len(semantic) + j /\ semantic'[i] = L[j]
<1>1. PICK s \in Seq(Facts) : s = semantic
  BY DEF MemoryTypeOK
<1>2. PICK m, n \in Nat : m = Len(s) /\ n = Len(L)
  BY <1>1
<1>3. PICK z : z = s \o L
  OBVIOUS
<1>4. z \in Seq(Facts) /\ DOMAIN z = 1 .. m + n /\ DOMAIN s = 1 .. m /\ DOMAIN L = 1 .. n
  BY <1>1, <1>2, <1>3, ConcatProperties
<1>5. \A i \in 1 .. m + n : z[i] = IF i <= m THEN s[i] ELSE L[i - m]
  BY <1>1, <1>2, <1>3, ConcatProperties
<1>6. \A i \in 1 .. m : i \in 1 .. m + n /\ i <= m
  OBVIOUS
<1>7. \A i \in DOMAIN s : i \in DOMAIN z /\ z[i] = s[i]
  BY <1>4, <1>5, <1>6
<1>8. ASSUME NEW j \in DOMAIN L PROVE \E i \in DOMAIN z : z[i] = L[j]
  <2>1. j \in 1 .. n /\ m + j \in 1 .. m + n /\ ~(m + j <= m) /\ m + j - m = j
    BY <1>4
  <2>2. z[m + j] = L[j]
    BY <1>5, <2>1
  <2>3. QED  BY <1>4, <2>1, <2>2
<1>9. ASSUME NEW i \in DOMAIN z
      PROVE  \/ i \in DOMAIN s /\ z[i] = s[i]
             \/ \E j \in DOMAIN L : i = m + j /\ z[i] = L[j]
  <2>1. i \in 1 .. m + n
    BY <1>4, <1>9
  <2>2. CASE i <= m
    BY <1>4, <1>5, <2>1, <2>2
  <2>3. CASE ~(i <= m)
    <3>1. i - m \in 1 .. n /\ i = m + (i - m)
      BY <2>1, <2>3
    <3>2. z[i] = L[i - m]
      BY <1>5, <2>1, <2>3
    <3>3. QED  BY <1>4, <3>1, <3>2
  <2>4. QED  BY <2>2, <2>3
<1>10. MoreFacts
  BY <1>1, <1>3, <1>7 DEF MoreFacts, ToSet
<1>11. semantic' = z
  BY <1>1, <1>3
<1>12. QED  BY <1>1, <1>2, <1>4, <1>8, <1>9, <1>10, <1>11

\* A cycle that promotes: facts for these observations, and their entries are marked.
LEMMA PromotedStep ==
  ASSUME MemoryInv, NEW c \in Cycles, NEW u \in Dreams, NEW S \in SUBSET Entries,
         NEW ids \in SUBSET Through, NEW L \in Seq(Facts),
         UNCHANGED <<setup, written, filtering>>, cyclesOverlapped' \in BOOLEAN,
         cycle' = [cycle EXCEPT ![c] = u], episodic' = Marked(S, ids),
         semantic' = semantic \o L,
         \A e, f \in S : e.id = f.id => e = f,
         \A e \in S : EntryOK(e) /\ (e.status = "active" => e \in episodic),
         \A o \in early' : Covered(o),
         \A o \in ids : Covered(o)',
         \A i \in DOMAIN L : L[i].sources \subseteq ids,
         \A i, j \in DOMAIN L : L[i].sources \cap L[j].sources # {} => i = j,
         DreamOK(u), \A e \in AtHand(u) : e.id \in Through,
         \A o \in u.due : Covered(o)' \/ Owed(u, o),
         u.pc \notin {"none", "done"} => setup.embedder,
         ~cyclesOverlapped' =>
            /\ ~cyclesOverlapped /\ \A d, e \in UnderWay' : d = e
            /\ \A i \in DOMAIN semantic : \A o \in semantic[i].sources :
                  o \notin ids /\ \A e \in AtHand(u) : e.id # o
            /\ \A e \in AtHand(u) : e.id \notin ids
            /\ \A d \in Cycles \ {c} : \A e \in AtHand(cycle[d]) : e.id \notin ids
  PROVE  MemoryInv'
<1>1. /\ MemoryTypeOK /\ EntriesOK /\ FactsOK /\ DreamsOK
      /\ ~cyclesOverlapped => Apart
  BY DEF MemoryInv
<1>2. cycle \in [Cycles -> Dreams] /\ semantic \in Seq(Facts)
  BY <1>1 DEF MemoryTypeOK
<1>3. cycle'[c] = u /\ \A d \in Cycles : d # c => cycle'[d] = cycle[d]
  BY <1>2
<1>4. /\ semantic' \in Seq(Facts) /\ MoreFacts
      /\ \A i \in DOMAIN semantic' :
           \/ i \in DOMAIN semantic /\ semantic'[i] = semantic[i]
           \/ \E j \in DOMAIN L : i = Len(semantic) + j /\ semantic'[i] = L[j]
  BY <1>1, FactsFollow
<1>5. /\ episodic' \in SUBSET Entries
      /\ \A g \in episodic' : \E e \in S :
           /\ g.id = e.id
           /\ e.id \in ids => g = [e EXCEPT !.status = "consolidated"]
                              /\ g.status = "consolidated"
           /\ e.id \notin ids => g = e
  BY MarkedEntries
<1>6. Through' = Through
  BY DEF Through
<1>7. \A o : Covered(o) => Covered(o)'
  BY <1>4, CoveredStays
<1>8. MemoryTypeOK'
  <2>1. cycle' \in [Cycles -> Dreams]
    BY <1>2
  <2>2. QED  BY <1>1, <1>4, <1>5, <2>1 DEF MemoryTypeOK
<1>9. EntriesOK'
  <2>1. ASSUME NEW g \in episodic', NEW h \in episodic', g.id = h.id PROVE g = h
    <3>1. PICK e \in S : /\ g.id = e.id
                         /\ e.id \in ids => g = [e EXCEPT !.status = "consolidated"]
                         /\ e.id \notin ids => g = e
      BY <1>5
    <3>2. PICK f \in S : /\ h.id = f.id
                         /\ f.id \in ids => h = [f EXCEPT !.status = "consolidated"]
                         /\ f.id \notin ids => h = f
      BY <1>5
    <3>3. e = f
      BY <2>1, <3>1, <3>2
    <3>4. QED  BY <3>1, <3>2, <3>3
  <2>2. ASSUME NEW g \in episodic' PROVE EntryOK(g)'
    <3>1. PICK e \in S :
            /\ g.id = e.id
            /\ e.id \in ids => g.status = "consolidated"
            /\ e.id \notin ids => g = e
      BY <1>5
    <3>2. EntryOK(e)
      OBVIOUS
    <3>3. g.id \in Through'
      BY <1>6, <3>1, <3>2 DEF EntryOK
    <3>4. CASE e.id \in ids
      BY <3>1, <3>3, <3>4 DEF EntryOK
    <3>5. CASE e.id \notin ids
      BY <1>7, <3>1, <3>2, <3>3, <3>5 DEF EntryOK
    <3>6. QED  BY <3>4, <3>5
  <2>3. \A o \in early' : Covered(o)'
    BY <1>7
  <2>4. QED  BY <2>1, <2>2, <2>3 DEF EntriesOK
<1>10. FactsOK'
  <2>1. \A i \in DOMAIN semantic' : semantic'[i].sources \subseteq Through
    BY <1>1, <1>4 DEF FactsOK
  <2>2. QED  BY <1>6, <2>1 DEF FactsOK
<1>11. \A d \in Cycles : AtHand(cycle[d])' = IF d = c THEN AtHand(u) ELSE AtHand(cycle[d])
  BY <1>3 DEF AtHand
<1>12. DreamsOK'
  <2>1. ASSUME NEW d \in Cycles
        PROVE  /\ DreamOK(cycle[d])' /\ \A e \in AtHand(cycle[d])' : e.id \in Through'
               /\ \A o \in cycle'[d].due : Covered(o)' \/ Owed(cycle[d], o)'
    <3>1. CASE d = c
      <4>1. cycle'[d] = u /\ AtHand(cycle[d])' = AtHand(u)
        BY <1>3, <1>11, <3>1
      <4>2. DreamOK(cycle[d])'
        BY <4>1 DEF DreamOK
      <4>3. \A o : Owed(u, o) => Owed(cycle[d], o)'
        BY <4>1 DEF Owed
      <4>4. QED  BY <1>6, <4>1, <4>2, <4>3
    <3>2. CASE d # c
      <4>1. cycle'[d] = cycle[d] /\ AtHand(cycle[d])' = AtHand(cycle[d])
        BY <1>3, <1>11, <3>2
      <4>2. DreamOK(cycle[d])'
        BY <1>1, <4>1 DEF DreamOK, DreamsOK
      <4>3. \A o : Owed(cycle[d], o) => Owed(cycle[d], o)'
        BY <4>1 DEF Owed
      <4>4. \A e \in AtHand(cycle[d]) : e.id \in Through
        BY <1>1 DEF DreamsOK
      <4>5. \A o \in cycle[d].due : Covered(o) \/ Owed(cycle[d], o)
        BY <1>1 DEF DreamsOK
      <4>6. QED  BY <1>6, <1>7, <4>1, <4>2, <4>3, <4>4, <4>5
    <3>3. QED  BY <3>1, <3>2
  <2>2. UnderWay' # {} => setup'.embedder
    <3>1. \A d \in UnderWay' : (d = c /\ u.pc \notin {"none", "done"}) \/ d \in UnderWay
      BY <1>3 DEF UnderWay
    <3>2. QED  BY <1>1, <3>1 DEF DreamsOK
  <2>3. QED  BY <2>1, <2>2 DEF DreamsOK
<1>13. ASSUME ~cyclesOverlapped' PROVE Apart'
  <2>1. /\ Apart /\ \A d, e \in UnderWay' : d = e
        /\ \A i \in DOMAIN semantic : \A o \in semantic[i].sources :
              o \notin ids /\ \A e \in AtHand(u) : e.id # o
        /\ \A e \in AtHand(u) : e.id \notin ids
        /\ \A d \in Cycles \ {c} : \A e \in AtHand(cycle[d]) : e.id \notin ids
    BY <1>1, <1>13
  <2>2. ASSUME NEW i \in DOMAIN semantic', NEW j \in DOMAIN semantic',
               semantic'[i].sources \cap semantic'[j].sources # {}
        PROVE  i = j
    <3>1. PICK o : o \in semantic'[i].sources /\ o \in semantic'[j].sources
      BY <2>2
    <3>2. CASE o \in ids
      <4>1. /\ \E k \in DOMAIN L : i = Len(semantic) + k /\ semantic'[i] = L[k]
            /\ \E k \in DOMAIN L : j = Len(semantic) + k /\ semantic'[j] = L[k]
        BY <1>4, <2>1, <3>1, <3>2
      <4>2. PICK k \in DOMAIN L : i = Len(semantic) + k /\ semantic'[i] = L[k]
        BY <4>1
      <4>3. PICK l \in DOMAIN L : j = Len(semantic) + l /\ semantic'[j] = L[l]
        BY <4>1
      <4>4. L[k].sources \cap L[l].sources # {}
        BY <3>1, <4>2, <4>3
      <4>5. k = l
        BY <4>4
      <4>6. QED  BY <4>2, <4>3, <4>5
    <3>3. CASE o \notin ids
      <4>1. /\ i \in DOMAIN semantic /\ semantic'[i] = semantic[i]
            /\ j \in DOMAIN semantic /\ semantic'[j] = semantic[j]
        BY <1>4, <3>1, <3>3
      <4>2. QED  BY <2>1, <3>1, <4>1 DEF Apart
    <3>4. QED  BY <3>2, <3>3
  <2>3. ASSUME NEW i \in DOMAIN semantic', NEW g \in episodic', g.status = "active"
        PROVE  g.id \notin semantic'[i].sources
    <3>1. g \in S /\ g.id \notin ids
      BY <1>5, <2>3
    <3>2. g \in episodic
      BY <2>3, <3>1
    <3>3. \A k \in DOMAIN semantic : g.id \notin semantic[k].sources
      BY <2>1, <2>3, <3>2 DEF Apart
    <3>4. QED  BY <1>4, <3>1, <3>3
  <2>4. ASSUME NEW i \in DOMAIN semantic', NEW d \in Cycles, NEW e \in AtHand(cycle[d])'
        PROVE  e.id \notin semantic'[i].sources
    <3>1. e.id \notin ids
      BY <1>11, <2>1
    <3>2. \A k \in DOMAIN semantic : e.id \notin semantic[k].sources
      BY <1>11, <2>1 DEF Apart
    <3>3. QED  BY <1>4, <3>1, <3>2
  <2>5. QED  BY <2>1, <2>2, <2>3, <2>4 DEF Apart
<1>14. QED  BY <1>8, <1>9, <1>10, <1>12, <1>13 DEF MemoryInv

\* What eviction keeps, and what it may delete: what is a fact, or has had its times.
LEMMA EvictedEntries ==
  ASSUME MemoryTypeOK, EntriesOK
  PROVE  /\ Evicted(episodic) \in SUBSET Entries
         /\ \A g, h \in Evicted(episodic) : g.id = h.id => g = h
         /\ \A g \in Evicted(episodic) : EntryOK(g) /\ (g.status = "active" => g \in episodic)
         /\ \A e \in episodic :
              e.id \notin EntryIds(Evicted(episodic)) /\ (High(e) \/ e.age < Gone(e))
                 => Covered(e.id)
<1>1. episodic \in SUBSET Entries /\ \A e \in episodic : EntryOK(e)
  BY DEF MemoryTypeOK, EntriesOK
<1>2. ASSUME NEW e \in episodic
      PROVE  /\ Archived(e) \in Entries /\ Archived(e).id = e.id /\ EntryOK(Archived(e))
             /\ Archived(e).status = "active" => Archived(e) = e
             /\ Archived(e).status = "consolidated" => e.status = "consolidated"
             /\ Expired(Archived(e)) => ~High(e) /\ ~(e.age < Gone(e))
  <2>1. e \in Entries /\ EntryOK(e) /\ e.age \in Nat /\ e.left \in Nat /\ e.importance \in Importances
    BY <1>1 DEF Entries
  <2>2. CASE Decayed(e) /\ e.status = "active"
    <3>1. PICK a : a = [e EXCEPT !.status = "archived", !.left = ArchiveTTL]
      OBVIOUS
    <3>2. Archived(e) = a
      BY <2>2, <3>1 DEF Archived
    <3>3. PICK ttl \in Nat \ {0} : ttl = ArchiveTTL
      BY MemoryAssumption
    <3>4. /\ a \in Entries /\ a.id = e.id /\ a.status = "archived" /\ a.left = ttl
          /\ a.importance = e.importance /\ a.age = e.age
      BY <2>1, <3>1, <3>3 DEF Entries
    <3>5. PICK life \in Nat : life = Life[e.importance]
      BY <2>1, <2>2, MemoryAssumption DEF Decayed, High, Importances
    <3>6. ~High(e) /\ e.age > life
      BY <2>2, <3>5 DEF Decayed
    <3>7. ~High(a) /\ Gone(a) = life + ttl + 1
      BY <3>3, <3>4, <3>5, <3>6 DEF High, Gone
    <3>8. a.age + a.left >= Gone(a)
      BY <2>1, <3>4, <3>6, <3>7
    <3>9. EntryOK(a)
      BY <2>1, <3>4, <3>7, <3>8 DEF EntryOK
    <3>10. ~Expired(a)
      BY <3>3, <3>4 DEF Expired
    <3>11. QED  BY <3>2, <3>4, <3>9, <3>10
  <2>3. CASE ~(Decayed(e) /\ e.status = "active")
    <3>1. Archived(e) = e
      BY <2>3 DEF Archived
    <3>2. Expired(e) => ~High(e) /\ ~(e.age < Gone(e))
      <4> SUFFICES ASSUME Expired(e) PROVE ~High(e) /\ ~(e.age < Gone(e))
        OBVIOUS
      <4>1. e.status = "archived" /\ e.left = 0
        BY DEF Expired
      <4>2. ~High(e) /\ e.age + e.left >= Gone(e)
        BY <2>1, <4>1 DEF EntryOK
      <4>3. Gone(e) \in Nat
        <5>1. Life[e.importance] \in Nat /\ ArchiveTTL \in Nat
          BY <2>1, <4>2, MemoryAssumption DEF High, Importances
        <5>2. QED  BY <4>2, <5>1 DEF Gone
      <4>4. QED  BY <2>1, <4>1, <4>2, <4>3
    <3>3. QED  BY <2>1, <3>1, <3>2
  <2>4. QED  BY <2>2, <2>3
<1>3. ASSUME NEW g \in Evicted(episodic)
      PROVE  \E e \in episodic : g = Archived(e)
  BY DEF Evicted
<1>4. \A g \in Evicted(episodic) :
        g \in Entries /\ EntryOK(g) /\ (g.status = "active" => g \in episodic)
  BY <1>2, <1>3
<1>5. ASSUME NEW g \in Evicted(episodic), NEW h \in Evicted(episodic), g.id = h.id PROVE g = h
  <2>1. PICK e \in episodic : g = Archived(e)
    BY <1>3
  <2>2. PICK f \in episodic : h = Archived(f)
    BY <1>3
  <2>3. e.id = f.id
    BY <1>2, <1>5, <2>1, <2>2
  <2>4. e = f
    BY <2>3 DEF EntriesOK
  <2>5. QED  BY <2>1, <2>2, <2>4
<1>6. ASSUME NEW e \in episodic, e.id \notin EntryIds(Evicted(episodic)),
             High(e) \/ e.age < Gone(e)
      PROVE  Covered(e.id)
  <2>1. Archived(e) \notin Evicted(episodic)
    BY <1>2, <1>6 DEF EntryIds
  <2>2. Archived(e).status = "consolidated"
    BY <1>2, <1>6, <2>1 DEF Evicted
  <2>3. QED  BY <1>1, <1>2, <2>2 DEF EntryOK
<1>7. QED  BY <1>4, <1>5, <1>6

LEMMA NothingMarked ==
  ASSUME NEW S
  PROVE  Marked(S, {}) = S
BY DEF Marked

LEMMA NothingAdded ==
  ASSUME MemoryTypeOK
  PROVE  <<>> \in Seq(Facts) /\ semantic \o <<>> = semantic /\ DOMAIN <<>> = {}
BY ConcatEmptySeq DEF MemoryTypeOK

LEMMA DreamStep ==
  ASSUME MemoryInv, NEW c \in Cycles, Dream(c)
  PROVE  MemoryInv'
<1>1. /\ MemoryTypeOK /\ EntriesOK /\ FactsOK /\ DreamsOK
      /\ ~cyclesOverlapped => Apart
  BY DEF MemoryInv
<1>2. PICK t \in Dreams : t = cycle[c]
  BY DreamFields
<1>3. DreamOK(t) /\ t.pc = "none"
  BY <1>2, DreamFields DEF Dream
<1>4. t.todo = {} /\ t.clusters = {}
  BY <1>3 DEF DreamOK
<1>5. PICK kept \in SUBSET Entries : kept = Evicted(episodic)
  BY <1>1, EvictedEntries
<1>6. /\ \A g, h \in kept : g.id = h.id => g = h
      /\ \A g \in kept : EntryOK(g) /\ (g.status = "active" => g \in episodic)
      /\ \A e \in episodic :
           e.id \notin EntryIds(kept) /\ (High(e) \/ e.age < Gone(e)) => Covered(e.id)
  BY <1>1, <1>5, EvictedEntries
<1>7. PICK pending : pending = Unconsolidated(kept)
  OBVIOUS
<1>8. pending \subseteq kept /\ \A e \in pending : e.status = "active"
  BY <1>7 DEF Unconsolidated
<1>9. PICK due : due = EntryIds({e \in pending : High(e)})
  OBVIOUS
<1>10. \A o : o \in due <=> \E e \in pending : e.id = o /\ High(e)
  BY <1>9 DEF EntryIds
<1>11. \A e \in pending : e \in Entries /\ e \in episodic /\ e.id \in Through /\ e.status = "active"
  BY <1>6, <1>8 DEF EntryOK
<1>12. due \subseteq Through /\ due \subseteq Observations
  BY <1>10, <1>11 DEF Entries
<1>13. UNCHANGED <<setup, written, working, filtering>>
  BY DEF Dream
<1>14. \A o \in early' : Covered(o)
  <2>1. early' = early \cup {e.id : e \in {e \in episodic :
                     e.id \notin EntryIds(kept) /\ (High(e) \/ e.age < Gone(e))}}
    BY <1>5 DEF Dream
  <2>2. \A o \in early : Covered(o)
    BY <1>1 DEF EntriesOK
  <2>3. QED  BY <1>6, <2>1, <2>2
<1>15. ~cyclesOverlapped => \A i \in DOMAIN semantic : \A e \in pending : e.id \notin semantic[i].sources
  BY <1>1, <1>11 DEF Apart
<1>16. CASE /\ setup.embedder /\ pending # {}
            /\ cycle' = [cycle EXCEPT ![c] = [@ EXCEPT !.pc = "clustering", !.due = due,
                                                       !.todo = pending]]
            /\ episodic' = kept
            /\ cyclesOverlapped' = (cyclesOverlapped \/ UnderWay # {})
            /\ UNCHANGED semantic
  <2>1. PICK u : u = [t EXCEPT !.pc = "clustering", !.due = due, !.todo = pending]
    OBVIOUS
  <2>2. /\ u \in Dreams /\ u.pc = "clustering" /\ u.due = due /\ u.todo = pending
        /\ u.clusters = {} /\ u.skipped = t.skipped
    BY <1>4, <1>8, <1>12, <2>1 DEF Dreams
  <2>3. cycle' = [cycle EXCEPT ![c] = u]
    BY <1>2, <1>16, <2>1
  <2>4. AtHand(u) = pending
    BY <2>2 DEF AtHand
  <2>5. \A e, f \in pending : e.id = f.id => e = f
    BY <1>6, <1>8
  <2>6. DreamOK(u)
    BY <1>16, <2>2, <2>5 DEF DreamOK, ClustersOK
  <2>7. \A o \in due : Owed(u, o)
    BY <1>10, <2>4 DEF Owed
  <2>8. <<>> \in Seq(Facts) /\ semantic' = semantic \o <<>> /\ DOMAIN <<>> = {}
    BY <1>1, <1>16, NothingAdded
  <2>9. episodic' = Marked(kept, {})
    BY <1>16, NothingMarked
  <2>10. cyclesOverlapped' \in BOOLEAN
    BY <1>16
  <2>11. ASSUME ~cyclesOverlapped'
         PROVE  /\ ~cyclesOverlapped /\ \A d, e \in UnderWay' : d = e
                /\ \A i \in DOMAIN semantic : \A o \in semantic[i].sources :
                      \A e \in AtHand(u) : e.id # o
    <3>1. ~cyclesOverlapped /\ UnderWay = {}
      BY <1>16, <2>11
    <3>2. \A d \in Cycles : d # c => cycle'[d] = cycle[d]
      BY <1>1, <2>3 DEF MemoryTypeOK
    <3>3. \A d \in UnderWay' : d = c
      BY <3>1, <3>2 DEF UnderWay
    <3>4. QED  BY <1>15, <2>4, <3>1, <3>3
  <2>12. \A e \in AtHand(u) : e.id \in Through
    BY <1>11, <2>4
  <2> DEFINE N == {}
             L == <<>>
  <2>13. /\ N \in SUBSET Through /\ L \in Seq(Facts) /\ episodic' = Marked(kept, N)
         /\ semantic' = semantic \o L /\ DOMAIN L = {} /\ \A x : x \notin N
    BY <2>8, <2>9
  <2> HIDE DEF N, L
  <2>14. ~cyclesOverlapped' =>
            /\ ~cyclesOverlapped /\ \A d, e \in UnderWay' : d = e
            /\ \A i \in DOMAIN semantic : \A o \in semantic[i].sources :
                  o \notin N /\ \A e \in AtHand(u) : e.id # o
            /\ \A e \in AtHand(u) : e.id \notin N
            /\ \A d \in Cycles \ {c} : \A e \in AtHand(cycle[d]) : e.id \notin N
    BY <2>11, <2>13
  <2>15. UNCHANGED <<setup, written, filtering>> /\ setup.embedder
    BY <1>13, <1>16
  <2>16. \A o \in u.due : Covered(o)' \/ Owed(u, o)
    BY <2>2, <2>7
  <2>17. /\ \A o \in N : Covered(o)'
         /\ \A i \in DOMAIN L : L[i].sources \subseteq N
         /\ \A i, j \in DOMAIN L : L[i].sources \cap L[j].sources # {} => i = j
    BY <2>13
  <2>18. QED  BY <1>6, <1>14, <2>2, <2>3, <2>6, <2>10, <2>12, <2>13, <2>14, <2>15, <2>16,
                 <2>17, PromotedStep
<1>17. CASE /\ ~setup.embedder \/ pending = {}
            /\ cycle' = [cycle EXCEPT ![c] = [@ EXCEPT !.pc = "done", !.due = due]]
            /\ semantic' = semantic \o SetToSeq({Fact({o}, FALSE) : o \in due})
            /\ episodic' = Marked(kept, due)
            /\ UNCHANGED cyclesOverlapped
  <2>1. PICK u : u = [t EXCEPT !.pc = "done", !.due = due]
    OBVIOUS
  <2>2. u \in Dreams /\ u.pc = "done" /\ u.due = due /\ u.todo = {} /\ u.clusters = {}
    BY <1>4, <1>12, <2>1 DEF Dreams
  <2>3. cycle' = [cycle EXCEPT ![c] = u]
    BY <1>2, <1>17, <2>1
  <2>4. DreamOK(u) /\ AtHand(u) = {}
    BY <2>2 DEF DreamOK, ClustersOK, AtHand
  <2>5. PICK F : F = {Fact({o}, FALSE) : o \in due}
    OBVIOUS
  <2>6. F \subseteq Facts
    <3>1. \A o \in due : {o} \subseteq Observations
      BY <1>12
    <3>2. \A o \in due : Fact({o}, FALSE) \in Facts
      BY <3>1 DEF Facts, Fact
    <3>3. QED  BY <2>5, <3>2
  <2>7. IsFiniteSet(F)
    <3>1. IsFiniteSet(due)
      <4>1. NumObservations \in Int /\ 1 \in Int
        BY MemoryAssumption
      <4>2. IsFiniteSet(Observations)
        BY <4>1, FS_Interval DEF Observations
      <4>3. QED  BY <1>12, <4>2, FS_Subset
    <3> DEFINE f == [o \in due |-> Fact({o}, FALSE)]
    <3>2. f \in Surjection(due, F)
      BY <2>5 DEF Surjection
    <3> HIDE DEF f
    <3>3. QED  BY <3>1, <3>2, FS_Surjection
  <2>8. PICK L : L = SetToSeq(F)
    OBVIOUS
  <2>9. /\ L \in Seq(F) /\ \A x : x \in F <=> \E i \in DOMAIN L : L[i] = x
        /\ \A i, j \in DOMAIN L : L[i] = L[j] => i = j
    BY <2>7, <2>8, ListOf
  <2>10. L \in Seq(Facts)
    BY <2>6, <2>9
  <2>11. semantic' = semantic \o L
    BY <1>17, <2>5, <2>8
  <2>12. \A i \in DOMAIN L : \E o \in due : L[i].sources = {o} /\ L[i] = Fact({o}, FALSE)
    BY <2>5, <2>9 DEF Fact
  <2>13. \A i, j \in DOMAIN L : L[i].sources \cap L[j].sources # {} => i = j
    <3> SUFFICES ASSUME NEW i \in DOMAIN L, NEW j \in DOMAIN L,
                        L[i].sources \cap L[j].sources # {}
                 PROVE  i = j
      OBVIOUS
    <3>1. PICK o \in due : L[i].sources = {o} /\ L[i] = Fact({o}, FALSE)
      BY <2>12
    <3>2. PICK p \in due : L[j].sources = {p} /\ L[j] = Fact({p}, FALSE)
      BY <2>12
    <3>3. o = p
      BY <3>1, <3>2
    <3>4. QED  BY <2>9, <3>1, <3>2, <3>3
  <2>14. \A i \in DOMAIN L : L[i].sources \subseteq due
    BY <2>12
  <2>15. \A o \in due : Covered(o)'
    <3> SUFFICES ASSUME NEW o \in due PROVE Covered(o)'
      OBVIOUS
    <3>1. PICK i \in DOMAIN L : L[i] = Fact({o}, FALSE)
      BY <2>5, <2>9
    <3>2. PICK j \in DOMAIN semantic' : semantic'[j] = L[i]
      BY <1>1, <2>10, <2>11, FactsFollow
    <3>3. o \in semantic'[j].sources /\ semantic'[j] \in ToSet(semantic')
      BY <3>1, <3>2 DEF Fact, ToSet
    <3>4. QED  BY <3>3, SimilarIsKindred DEF Covered
  <2>16. ASSUME ~cyclesOverlapped'
         PROVE  /\ ~cyclesOverlapped /\ \A d, e \in UnderWay' : d = e
                /\ \A i \in DOMAIN semantic : \A o \in semantic[i].sources : o \notin due
                /\ \A d \in Cycles \ {c} : \A e \in AtHand(cycle[d]) : e.id \notin due
    <3>1. ~cyclesOverlapped /\ Apart
      BY <1>1, <1>17, <2>16
    <3>2. \A d \in UnderWay' : d \in UnderWay
      BY <1>1, <2>2, <2>3 DEF UnderWay, MemoryTypeOK
    <3>3. \A d, e \in UnderWay' : d = e
      BY <3>1, <3>2 DEF Apart
    <3>4. \A i \in DOMAIN semantic : \A o \in semantic[i].sources : o \notin due
      BY <1>10, <1>15, <3>1
    <3>5. ASSUME NEW d \in Cycles, NEW e \in AtHand(cycle[d]) PROVE e.id \notin due
      <4>1. CASE pending = {}
        BY <1>10, <4>1
      <4>2. CASE ~setup.embedder
        <5>1. UnderWay = {}
          BY <1>1, <4>2 DEF DreamsOK
        <5>2. DreamOK(cycle[d]) /\ cycle[d].pc \in {"none", "done"}
          BY <1>1, <5>1 DEF UnderWay, DreamsOK
        <5>3. QED  BY <3>5, <5>2, QuietDream
      <4>3. QED  BY <1>17, <4>1, <4>2
    <3>6. QED  BY <3>1, <3>3, <3>4, <3>5
  <2>17. cyclesOverlapped' \in BOOLEAN
    BY <1>1, <1>17 DEF MemoryTypeOK
  <2>18. episodic' = Marked(kept, due)
    BY <1>17
  <2>19. QED  BY <1>6, <1>12, <1>13, <1>14, <2>2, <2>3, <2>4, <2>10, <2>11, <2>13, <2>14,
                 <2>15, <2>16, <2>17, <2>18, PromotedStep
<1>18. QED  BY <1>5, <1>7, <1>9, <1>16, <1>17 DEF Dream

LEMMA EmbeddedStep ==
  ASSUME MemoryInv, NEW c \in Cycles, SummaryEmbedded(c)
  PROVE  MemoryInv'
<1>1. /\ MemoryTypeOK /\ EntriesOK /\ FactsOK /\ DreamsOK
      /\ ~cyclesOverlapped => Apart
  BY DEF MemoryInv
<1>2. PICK t \in Dreams : t = cycle[c]
  BY DreamFields
<1>3. DreamOK(t) /\ t.clusters \in SUBSET Clusters /\ t.pc = "embedding" /\ c \in UnderWay
  BY <1>2, DreamFields DEF SummaryEmbedded
<1>4. t.clusters # {} /\ ClustersOK(t.clusters) /\ \A k \in t.clusters : k.members # {}
  BY <1>3 DEF DreamOK, ClustersOK
<1>5. PICK next \in t.clusters : next = First(t.clusters)
  BY <1>3, <1>4, FirstIsOne
<1>6. PICK K \in SUBSET Clusters : K = t.clusters \ {next}
  BY <1>3
<1>7. PICK u : u = Promoting(t, K)
  OBVIOUS
<1>8. u \in Dreams /\ u.due = t.due /\ u.skipped = t.skipped
  BY <1>7, PromotingFields
<1>9. ClustersOK(K)
  BY <1>4, <1>6 DEF ClustersOK
<1>10. DreamOK(u) /\ AtHand(u) = UNION {k.members : k \in K}
  BY <1>7, <1>9, PromotingOK
<1>11. \A e : e \in AtHand(t) <=> \E k \in t.clusters : e \in k.members
  <2>1. t.todo = {}
    BY <1>3 DEF DreamOK
  <2>2. QED  BY <2>1, AtHandIs
<1>12. \A e \in AtHand(t) : e.id \in Through
  BY <1>1, <1>2 DEF DreamsOK
<1>13. PICK ids : ids = EntryIds(next.members)
  OBVIOUS
<1>14. \A o : o \in ids <=> \E e \in next.members : e.id = o
  BY <1>13 DEF EntryIds
<1>15. \A e \in next.members : e \in AtHand(t) /\ e \in Entries
  BY <1>3, <1>11 DEF Clusters
<1>16. ids \in SUBSET Through /\ ids \subseteq Observations
  BY <1>12, <1>14, <1>15 DEF Entries
<1>17. \A e \in AtHand(u) : e \in AtHand(t) /\ e.id \notin ids
  <2> SUFFICES ASSUME NEW e \in AtHand(u) PROVE e \in AtHand(t) /\ e.id \notin ids
    OBVIOUS
  <2>1. PICK k \in t.clusters : e \in k.members /\ k # next
    BY <1>6, <1>10
  <2>2. \A f \in next.members : e.id # f.id
    BY <1>4, <2>1 DEF ClustersOK
  <2>3. QED  BY <1>11, <1>14, <2>1, <2>2
<1>18. \A o, p \in ids : Similar(o, p)
  BY <1>4, <1>14 DEF ClustersOK
<1>19. /\ \/ \E embedded \in BOOLEAN : semantic' = Append(semantic, Fact(ids, embedded))
          \/ Alike(ids) # {} /\ UNCHANGED semantic
       /\ episodic' = Marked(episodic, ids)
       /\ cycle' = [cycle EXCEPT ![c] = u]
       /\ UNCHANGED <<setup, written, working, filtering, early, cyclesOverlapped>>
  BY <1>2, <1>5, <1>6, <1>7, <1>13 DEF SummaryEmbedded, Consolidate
<1>20. PICK L \in Seq(Facts) :
         /\ semantic' = semantic \o L
         /\ \A i \in DOMAIN L : L[i].sources = ids
         /\ \A i, j \in DOMAIN L : i = j
         /\ \A o \in ids : Covered(o)'
  <2>1. ASSUME NEW embedded \in BOOLEAN, semantic' = Append(semantic, Fact(ids, embedded))
        PROVE  \E L \in Seq(Facts) :
                 /\ semantic' = semantic \o L
                 /\ \A i \in DOMAIN L : L[i].sources = ids
                 /\ \A i, j \in DOMAIN L : i = j
                 /\ \A o \in ids : Covered(o)'
    <3>1. PICK f \in Facts : f = Fact(ids, embedded)
      BY <1>16 DEF Facts, Fact
    <3>2. f.sources = ids
      BY <3>1 DEF Fact
    <3>3. PICK L : L = <<f>>
      OBVIOUS
    <3>4. L \in Seq(Facts) /\ DOMAIN L = {1} /\ L[1] = f
      BY <3>3
    <3>5. semantic' = semantic \o L
      BY <1>1, <2>1, <3>1, <3>3, AppendIsConcat DEF MemoryTypeOK
    <3>6. PICK j \in DOMAIN semantic' : semantic'[j] = L[1]
      BY <1>1, <3>4, <3>5, FactsFollow
    <3>7. \A o \in ids : Covered(o)'
      BY <3>2, <3>4, <3>6, SimilarIsKindred DEF Covered, ToSet
    <3>8. QED  BY <3>2, <3>4, <3>5, <3>7
  <2>2. ASSUME Alike(ids) # {}, UNCHANGED semantic
        PROVE  \E L \in Seq(Facts) :
                 /\ semantic' = semantic \o L
                 /\ \A i \in DOMAIN L : L[i].sources = ids
                 /\ \A i, j \in DOMAIN L : i = j
                 /\ \A o \in ids : Covered(o)'
    <3>1. PICK f \in ToSet(semantic) : \E o \in ids, p \in f.sources : Similar(o, p)
      BY <2>2 DEF Alike
    <3>2. PICK o \in ids : \E p \in f.sources : Similar(o, p)
      BY <3>1
    <3>3. PICK p \in f.sources : Similar(o, p)
      BY <3>2
    <3>4. \A q \in ids : Similar(q, p)
      BY <1>18, <3>3, SimilarIsKindred
    <3>5. \A q \in ids : Covered(q)'
      BY <2>2, <3>4 DEF Covered
    <3>6. <<>> \in Seq(Facts) /\ semantic' = semantic \o <<>> /\ DOMAIN <<>> = {}
      BY <1>1, <2>2, NothingAdded
    <3>7. QED  BY <3>5, <3>6
  <2>3. QED  BY <1>19, <2>1, <2>2
<1>21. \A e, f \in episodic : e.id = f.id => e = f
  BY <1>1 DEF EntriesOK
<1>22. \A e \in episodic : EntryOK(e)
  BY <1>1 DEF EntriesOK
<1>23. \A o \in early' : Covered(o)
  BY <1>1, <1>19 DEF EntriesOK
<1>24. \A o \in u.due : Covered(o)' \/ Owed(u, o)
  <2> SUFFICES ASSUME NEW o \in t.due PROVE Covered(o)' \/ Owed(u, o)
    BY <1>8
  <2>1. Covered(o) \/ Owed(t, o)
    BY <1>1, <1>2 DEF DreamsOK
  <2>2. CASE Covered(o)
    BY <1>1, <1>20, <2>2, FactsFollow, CoveredStays
  <2>3. CASE o \in t.skipped
    BY <1>8, <2>3 DEF Owed
  <2>4. CASE \E e \in AtHand(t) : e.id = o /\ High(e)
    <3>1. PICK e \in AtHand(t) : e.id = o /\ High(e)
      BY <2>4
    <3>2. PICK k \in t.clusters : e \in k.members
      BY <1>11
    <3>3. CASE k = next
      BY <1>14, <1>20, <3>1, <3>2, <3>3
    <3>4. CASE k # next
      <4>1. e \in AtHand(u)
        BY <1>6, <1>10, <3>2, <3>4
      <4>2. QED  BY <3>1, <4>1 DEF Owed
    <3>5. QED  BY <3>3, <3>4
  <2>5. QED  BY <2>1, <2>2, <2>3, <2>4 DEF Owed
<1>25. setup.embedder
  BY <1>1, <1>3 DEF DreamsOK
<1>26. ASSUME ~cyclesOverlapped'
       PROVE  /\ ~cyclesOverlapped /\ \A d, e \in UnderWay' : d = e
              /\ \A i \in DOMAIN semantic : \A o \in semantic[i].sources :
                    o \notin ids /\ \A e \in AtHand(u) : e.id # o
              /\ \A e \in AtHand(u) : e.id \notin ids
              /\ \A d \in Cycles \ {c} : \A e \in AtHand(cycle[d]) : e.id \notin ids
  <2>1. ~cyclesOverlapped /\ Apart
    BY <1>1, <1>19, <1>26
  <2>2. \A d \in UnderWay' : d \in UnderWay
    BY <1>1, <1>3, <1>19 DEF UnderWay, MemoryTypeOK
  <2>3. \A i \in DOMAIN semantic : \A e \in AtHand(t) : e.id \notin semantic[i].sources
    BY <1>2, <2>1 DEF Apart
  <2>4. ASSUME NEW d \in Cycles \ {c}, NEW e \in AtHand(cycle[d]) PROVE FALSE
    <3>1. d \notin UnderWay
      BY <1>3, <2>1 DEF Apart
    <3>2. DreamOK(cycle[d]) /\ cycle[d].pc \in {"none", "done"}
      BY <1>1, <3>1 DEF UnderWay, DreamsOK
    <3>3. QED  BY <2>4, <3>2, QuietDream
  <2>5. \A i \in DOMAIN semantic : \A o \in semantic[i].sources : o \notin ids
    BY <1>14, <1>15, <2>3
  <2>6. \A i \in DOMAIN semantic : \A o \in semantic[i].sources : \A e \in AtHand(u) : e.id # o
    BY <1>17, <2>3
  <2>7. \A d, e \in UnderWay' : d = e
    BY <2>1, <2>2 DEF Apart
  <2>8. QED  BY <1>17, <2>1, <2>4, <2>5, <2>6, <2>7
<1>27. \A e \in AtHand(u) : e.id \in Through
  BY <1>12, <1>17
<1>28. episodic \in SUBSET Entries /\ cyclesOverlapped' \in BOOLEAN
  BY <1>1, <1>19 DEF MemoryTypeOK
<1>29. /\ \A i \in DOMAIN L : L[i].sources \subseteq ids
       /\ \A i, j \in DOMAIN L : L[i].sources \cap L[j].sources # {} => i = j
  BY <1>20
<1>30. QED  BY <1>8, <1>10, <1>16, <1>19, <1>20, <1>21, <1>22, <1>23, <1>24, <1>25, <1>26, <1>27,
               <1>28, <1>29, PromotedStep

LEMMA MemoryRests == MemoryInv /\ UNCHANGED memoryVars => MemoryInv'
BY DEF memoryVars, MemoryInv, MemoryTypeOK, EntriesOK, EntryOK, FactsOK, DreamsOK, DreamOK,
       ClustersOK, Owed, AtHand, Apart, UnderWay, Through, Covered

LEMMA MemoryStep == MemoryInv /\ [MemoryNext]_memoryVars => MemoryInv'
<1> SUFFICES ASSUME MemoryInv, [MemoryNext]_memoryVars PROVE MemoryInv'
  OBVIOUS
<1>1. CASE Write
  BY <1>1, ObserveStep
<1>2. CASE Clear
  BY <1>2, ClearStep
<1>3. CASE DayPasses
  BY <1>3, DayStep
<1>4. ASSUME NEW o \in filtering, FilterKeeps(o) \/ FilterDrops(o) PROVE MemoryInv'
  BY <1>4, FilterStep
<1>5. ASSUME NEW c \in Cycles,
             Dream(c) \/ ClusterNext(c) \/ Summarized(c) \/ SummaryIsEmpty(c) \/ SummaryEmbedded(c)
      PROVE  MemoryInv'
  BY <1>5, DreamStep, ClusterStep, SummarizedStep, EmptyStep, EmbeddedStep
<1>6. CASE UNCHANGED memoryVars
  BY <1>6, MemoryRests
<1>7. QED  BY <1>1, <1>2, <1>3, <1>4, <1>5, <1>6 DEF MemoryNext

LEMMA MemoryKeeps == MemoryInv => ObservationsAreKept
<1> SUFFICES ASSUME MemoryInv PROVE ObservationsAreKept
  OBVIOUS
<1>1. EntriesOK /\ DreamsOK /\ (~cyclesOverlapped => Apart)
  BY DEF MemoryInv
<1>2. ObservationsAreAccounted
  BY <1>1 DEF ObservationsAreAccounted, EntriesOK, EntryOK, Apart
<1>3. ASSUME NEW c \in Cycles, cycle[c].pc = "done", NEW o \in cycle[c].due
      PROVE  Covered(o) \/ o \in cycle[c].skipped
  <2>1. DreamOK(cycle[c]) /\ (Covered(o) \/ Owed(cycle[c], o))
    BY <1>1 DEF DreamsOK
  <2>2. AtHand(cycle[c]) = {}
    BY <1>3, <2>1, QuietDream
  <2>3. QED  BY <2>1, <2>2 DEF Owed
<1>4. QED  BY <1>2, <1>3 DEF ObservationsAreKept, HighEntriesArePromoted

\* However many observations are written, filtered and cleared, and however many cycles
\* overlap: what is gone or hidden lives on in a fact or was unimportant and had its
\* times, cycles one by one promote nothing twice, and a cycle that ended has promoted
\* what mattered (ObservationsAreKept).
THEOREM MemoryCorrect == MemorySpec => []ObservationsAreKept
<1>1. MemoryInv /\ [MemoryNext]_memoryVars => MemoryInv'
  BY MemoryStep
<1> QED
  BY <1>1, MemoryInitial, MemoryKeeps, PTL DEF MemorySpec

-----------------------------------------------------------------------------
(***************************************************************************)
(* Recall.                                                                 *)
(***************************************************************************)
Contexts ==
    [queries : Seq(Queries), subs : Seq(Queries),
     complex : {"unknown", "HIGH", "other"}, raw : Seq(Seq(Found)), fused : Seq(Found),
     skipped : BOOLEAN]

RecallTypeOK ==
    /\ context \in Contexts /\ ran \subseteq Stages /\ lastRan \in Stages \cup {"none"}
    /\ recalled \in [given : BOOLEAN, items : Seq(Found)]

\* Each text once, only what was found, and what beats another is before it.
Ranks(ranked, lists) ==
    /\ IsInjective(ranked) /\ ToSet(ranked) \subseteq FoundIn(lists)
    /\ \A i, j \in Found : \A n \in DOMAIN ranked :
          ranked[n] = j /\ Beats(i, j, lists) => \E m \in DOMAIN ranked : m < n /\ ranked[m] = i

\* What the budget leaves keeps it, or leaves nothing of what is too large.
Trimmed ==
    /\ Used(context.fused) <= BudgetTokens
    /\ context.fused = <<>> /\ FoundIn(context.raw) # {} =>
          \E i \in FoundIn(context.raw) : Estimate(i) > BudgetTokens

RecallInv ==
    /\ RecallTypeOK
    /\ "retrieval" \notin ran => context.raw = <<>>
    /\ Ranks(context.fused, context.raw)
    /\ lastRan = "budget" => Trimmed
    /\ recalled.given =>
          recalled.items = IF context.fused # <<>> THEN context.fused ELSE Flat(context.raw)

\* Ranks by the number of those before: each element of a finite set has one of its own.
LEMMA InOrderIs ==
  ASSUME NEW S, IsFiniteSet(S), NEW R,
         \A x \in S : <<x, x>> \notin R,
         \A x, y, z \in S : <<x, y>> \in R /\ <<y, z>> \in R => <<x, z>> \in R,
         \A x, y \in S : x # y => <<x, y>> \in R \/ <<y, x>> \in R
  PROVE  /\ InOrder(S, R) \in Seq(S) /\ IsInjective(InOrder(S, R))
         /\ \A x \in S : \E n \in DOMAIN InOrder(S, R) : InOrder(S, R)[n] = x
         /\ \A m, n \in DOMAIN InOrder(S, R) :
              <<InOrder(S, R)[m], InOrder(S, R)[n]>> \in R => m < n
<1>1. PICK N \in Nat : N = Cardinality(S)
  BY FS_CardinalityType
<1> DEFINE Before(x) == {y \in S : <<y, x>> \in R}
           rank == [x \in S |-> Cardinality(Before(x)) + 1]
<1>2. ASSUME NEW x \in S
      PROVE  /\ IsFiniteSet(Before(x)) /\ Cardinality(Before(x)) \in Nat
             /\ Cardinality(Before(x)) + 1 \in 1 .. N
  <2>1. Before(x) \in SUBSET S /\ Before(x) # S
    OBVIOUS
  <2>2. IsFiniteSet(Before(x)) /\ Cardinality(Before(x)) <= N /\ Cardinality(Before(x)) # N
    BY <1>1, <2>1, FS_Subset
  <2>3. Cardinality(Before(x)) \in Nat
    BY <2>2, FS_CardinalityType
  <2>4. QED  BY <2>2, <2>3
<1>3. ASSUME NEW x \in S, NEW y \in S, <<x, y>> \in R
      PROVE  Cardinality(Before(x)) < Cardinality(Before(y))
  <2>1. Before(x) \in SUBSET Before(y)
    BY <1>3
  <2>2. x \in Before(y) /\ x \notin Before(x)
    BY <1>3
  <2>3. /\ IsFiniteSet(Before(y)) /\ Cardinality(Before(x)) \in Nat
        /\ Cardinality(Before(y)) \in Nat
    BY <1>2
  <2> HIDE DEF Before
  <2>4. Cardinality(Before(x)) <= Cardinality(Before(y))
    BY <2>1, <2>3, FS_Subset
  <2>5. Cardinality(Before(x)) # Cardinality(Before(y))
    BY <2>1, <2>2, <2>3, FS_Subset
  <2>6. QED  BY <2>3, <2>4, <2>5
<1> HIDE DEF Before
<1>4. \A x, y \in S : rank[x] = rank[y] => x = y
  <2> SUFFICES ASSUME NEW x \in S, NEW y \in S, rank[x] = rank[y], x # y PROVE FALSE
    OBVIOUS
  <2>1. Cardinality(Before(x)) \in Nat /\ Cardinality(Before(y)) \in Nat
    BY <1>2
  <2>2. Cardinality(Before(x)) = Cardinality(Before(y))
    BY <2>1
  <2>3. <<x, y>> \in R \/ <<y, x>> \in R
    OBVIOUS
  <2>4. QED  BY <1>3, <2>1, <2>2, <2>3
<1>5. rank \in [S -> 1 .. N] /\ \A x \in S : rank[x] = Cardinality(Before(x)) + 1
  BY <1>2
<1> HIDE DEF rank
<1>6. rank \in Injection(S, 1 .. N)
  BY <1>4, <1>5 DEF Injection, IsInjective
<1>7. IsFiniteSet(1 .. N) /\ Cardinality(1 .. N) = N
  <2>1. 1 \in Int /\ N \in Int
    OBVIOUS
  <2>2. Cardinality(1 .. N) = IF 1 > N THEN 0 ELSE N - 1 + 1
    BY <2>1, FS_Interval
  <2>3. QED  BY <2>1, <2>2, FS_Interval
<1>8. rank \in Surjection(S, 1 .. N)
  BY <1>1, <1>6, <1>7, FS_Injection
<1>9. \A place \in 1 .. N : \E x \in S : rank[x] = place
  BY <1>8 DEF Surjection
<1> DEFINE s == InOrder(S, R)
<1>10. s = [place \in 1 .. N |-> CHOOSE x \in S : Cardinality(Before(x)) = place - 1]
  BY <1>1 DEF InOrder, Before
<1>11. DOMAIN s = 1 .. N /\ \A n \in 1 .. N : s[n] = CHOOSE x \in S : Cardinality(Before(x)) = n - 1
  BY <1>10
<1> HIDE DEF s
<1>12. \A n \in 1 .. N : s[n] \in S /\ rank[s[n]] = n
  <2> SUFFICES ASSUME NEW n \in 1 .. N PROVE s[n] \in S /\ rank[s[n]] = n
    OBVIOUS
  <2>1. PICK x \in S : rank[x] = n
    BY <1>9
  <2>2. Cardinality(Before(x)) \in Nat /\ Cardinality(Before(x)) + 1 = n
    BY <1>2, <1>5, <2>1
  <2>3. Cardinality(Before(x)) = n - 1
    BY <2>2
  <2>4. s[n] \in S /\ Cardinality(Before(s[n])) = n - 1
    BY <1>11, <2>3
  <2>5. QED  BY <1>5, <2>4
<1>13. s \in Seq(S)
  <2>1. s \in [1 .. N -> S]
    BY <1>10, <1>11, <1>12
  <2>2. QED  BY <2>1, SeqDef
<1>14. IsInjective(s)
  BY <1>11, <1>12 DEF IsInjective
<1>15. \A x \in S : \E n \in DOMAIN s : s[n] = x
  <2> SUFFICES ASSUME NEW x \in S PROVE \E n \in DOMAIN s : s[n] = x
    OBVIOUS
  <2>1. rank[x] \in 1 .. N
    BY <1>5
  <2>2. s[rank[x]] \in S /\ rank[s[rank[x]]] = rank[x]
    BY <1>12, <2>1
  <2>3. QED  BY <1>4, <1>11, <2>1, <2>2
<1>16. \A m, n \in DOMAIN s : <<s[m], s[n]>> \in R => m < n
  <2> SUFFICES ASSUME NEW m \in 1 .. N, NEW n \in 1 .. N, <<s[m], s[n]>> \in R PROVE m < n
    BY <1>11
  <2>1. s[m] \in S /\ rank[s[m]] = m /\ s[n] \in S /\ rank[s[n]] = n
    BY <1>12
  <2>2. /\ Cardinality(Before(s[m])) \in Nat /\ Cardinality(Before(s[n])) \in Nat
        /\ Cardinality(Before(s[m])) < Cardinality(Before(s[n]))
    BY <1>2, <1>3, <2>1
  <2>3. QED  BY <1>5, <2>1, <2>2
<1>17. QED  BY <1>13, <1>14, <1>15, <1>16 DEF s

-----------------------------------------------------------------------------
\* Where the texts are.
LEMMA PlacesAre ==
  ASSUME NEW lists, NEW i
  PROVE  \A p : p \in Places(i, lists) <=>
            \E l \in DOMAIN lists : \E n \in DOMAIN lists[l] : lists[l][n] = i /\ p = <<l, n>>
BY DEF Places

LEMMA FoundIs ==
  ASSUME NEW lists
  PROVE  \A i : i \in FoundIn(lists) <=>
            \E l \in DOMAIN lists : \E n \in DOMAIN lists[l] : lists[l][n] = i
BY DEF FoundIn, ToSet

LEMMA PlaceFacts ==
  ASSUME NEW lists \in Seq(Seq(Found)), NEW i, NEW p \in Places(i, lists)
  PROVE  /\ p[1] \in DOMAIN lists /\ p[2] \in DOMAIN lists[p[1]] /\ p = <<p[1], p[2]>>
         /\ p[1] \in Nat /\ p[2] \in Nat \ {0} /\ lists[p[1]][p[2]] = i
         /\ i \in Found /\ i \in FoundIn(lists)
<1>1. PICK l \in DOMAIN lists : \E n \in DOMAIN lists[l] : lists[l][n] = i /\ p = <<l, n>>
  BY PlacesAre
<1>2. PICK n \in DOMAIN lists[l] : lists[l][n] = i /\ p = <<l, n>>
  BY <1>1
<1>3. lists[l] \in Seq(Found)
  OBVIOUS
<1>4. l \in Nat /\ n \in Nat \ {0} /\ lists[l][n] \in Found
  BY <1>3
<1>5. i \in FoundIn(lists)
  BY <1>2, FoundIs
<1>6. QED  BY <1>2, <1>4, <1>5

LEMMA FoundIsFinite ==
  ASSUME NEW lists \in Seq(Seq(Found))
  PROVE  IsFiniteSet(FoundIn(lists)) /\ FoundIn(lists) \subseteq Found
<1>1. PICK N \in Nat : N = Len(lists)
  OBVIOUS
<1>2. DOMAIN lists = 1 .. N /\ \A l \in 1 .. N : lists[l] \in Seq(Found)
  BY <1>1
<1>3. ASSUME NEW s \in Seq(Found) PROVE IsFiniteSet(ToSet(s))
  <2>1. PICK n \in Nat : n = Len(s)
    OBVIOUS
  <2>2. DOMAIN s = 1 .. n
    BY <2>1
  <2>3. IsFiniteSet(1 .. n)
    BY FS_Interval
  <2> DEFINE f == [k \in 1 .. n |-> s[k]]
  <2>4. f \in Surjection(1 .. n, ToSet(s))
    BY <2>2 DEF Surjection, ToSet
  <2> HIDE DEF f
  <2>5. QED  BY <2>3, <2>4, FS_Surjection
<1> DEFINE families == {ToSet(lists[l]) : l \in DOMAIN lists}
           g == [l \in 1 .. N |-> ToSet(lists[l])]
<1>4. g \in Surjection(1 .. N, families)
  BY <1>2 DEF Surjection
<1>5. \A T \in families : IsFiniteSet(T)
  BY <1>2, <1>3
<1>6. FoundIn(lists) = UNION families
  BY DEF FoundIn
<1> HIDE DEF g, families
<1>7. IsFiniteSet(1 .. N)
  BY FS_Interval
<1>8. IsFiniteSet(families)
  BY <1>4, <1>7, FS_Surjection
<1>9. IsFiniteSet(FoundIn(lists))
  BY <1>5, <1>6, <1>8, FS_UNION
<1>10. FoundIn(lists) \subseteq Found
  BY <1>2, FoundIs
<1>11. QED  BY <1>9, <1>10

\* A text that was found was met first somewhere.
LEMMA FirstPlace ==
  ASSUME NEW lists \in Seq(Seq(Found)), NEW i \in FoundIn(lists)
  PROVE  \E p \in Places(i, lists) : \A q \in Places(i, lists) :
            p[1] < q[1] \/ (p[1] = q[1] /\ p[2] <= q[2])
<1> DEFINE L == {l \in DOMAIN lists : \E n \in DOMAIN lists[l] : lists[l][n] = i}
<1>1. L \in SUBSET Nat /\ L # {}
  BY FoundIs
<1>2. PICK l \in L : \A k \in L : l <= k
  BY <1>1, LeastNatural
<1> DEFINE M == {n \in DOMAIN lists[l] : lists[l][n] = i}
<1>3. lists[l] \in Seq(Found)
  BY <1>2
<1>4. M \in SUBSET Nat /\ M # {}
  BY <1>2, <1>3
<1>5. PICK n \in M : \A k \in M : n <= k
  BY <1>4, LeastNatural
<1>6. PICK p : p = <<l, n>>
  OBVIOUS
<1>7. p \in Places(i, lists) /\ p[1] = l /\ p[2] = n
  BY <1>2, <1>5, <1>6, PlacesAre
<1>8. ASSUME NEW q \in Places(i, lists) PROVE p[1] < q[1] \/ (p[1] = q[1] /\ p[2] <= q[2])
  <2>1. /\ q[1] \in DOMAIN lists /\ q[2] \in DOMAIN lists[q[1]] /\ lists[q[1]][q[2]] = i
        /\ q[1] \in Nat /\ q[2] \in Nat
    BY PlaceFacts
  <2>2. q[1] \in L
    BY <2>1
  <2>3. l <= q[1] /\ l \in Nat /\ n \in Nat
    BY <1>1, <1>2, <1>4, <1>5, <2>2
  <2>4. q[1] = l => q[2] \in M
    BY <2>1
  <2>5. q[1] = l => n <= q[2]
    BY <1>5, <2>4
  <2>6. QED  BY <1>7, <2>1, <2>3, <2>5
<1>9. QED  BY <1>7, <1>8

\* What is met sooner is an order of the texts that were found.
LEMMA SoonerIsOrder ==
  ASSUME NEW lists \in Seq(Seq(Found))
  PROVE  /\ \A i : ~Sooner(i, i, lists)
         /\ \A i, j, k : Sooner(i, j, lists) /\ Sooner(j, k, lists) => Sooner(i, k, lists)
         /\ \A i, j \in FoundIn(lists) : i # j => Sooner(i, j, lists) \/ Sooner(j, i, lists)
<1>1. ASSUME NEW i PROVE ~Sooner(i, i, lists)
  <2> SUFFICES ASSUME Sooner(i, i, lists) PROVE FALSE
    OBVIOUS
  <2>1. PICK p \in Places(i, lists) : p[1] < p[1] \/ (p[1] = p[1] /\ p[2] < p[2])
    BY DEF Sooner
  <2>2. p[1] \in Nat /\ p[2] \in Nat
    BY PlaceFacts
  <2>3. QED  BY <2>1, <2>2
<1>2. ASSUME NEW i, NEW j, NEW k, Sooner(i, j, lists), Sooner(j, k, lists)
      PROVE  Sooner(i, k, lists)
  <2>1. PICK p \in Places(i, lists) : \A q \in Places(j, lists) :
            p[1] < q[1] \/ (p[1] = q[1] /\ p[2] < q[2])
    BY <1>2 DEF Sooner
  <2>2. PICK q \in Places(j, lists) : \A r \in Places(k, lists) :
            q[1] < r[1] \/ (q[1] = r[1] /\ q[2] < r[2])
    BY <1>2 DEF Sooner
  <2>3. p[1] \in Nat /\ p[2] \in Nat /\ q[1] \in Nat /\ q[2] \in Nat
    BY PlaceFacts
  <2>4. ASSUME NEW r \in Places(k, lists) PROVE p[1] < r[1] \/ (p[1] = r[1] /\ p[2] < r[2])
    <3>1. r[1] \in Nat /\ r[2] \in Nat
      BY PlaceFacts
    <3>2. q[1] < r[1] \/ (q[1] = r[1] /\ q[2] < r[2])
      BY <2>2
    <3>3. p[1] < q[1] \/ (p[1] = q[1] /\ p[2] < q[2])
      BY <2>1
    <3>4. QED  BY <2>3, <3>1, <3>2, <3>3
  <2>5. QED  BY <2>4 DEF Sooner
<1>3. ASSUME NEW i \in FoundIn(lists), NEW j \in FoundIn(lists), i # j
      PROVE  Sooner(i, j, lists) \/ Sooner(j, i, lists)
  <2>1. PICK p \in Places(i, lists) : \A q \in Places(i, lists) :
            p[1] < q[1] \/ (p[1] = q[1] /\ p[2] <= q[2])
    BY FirstPlace
  <2>2. PICK r \in Places(j, lists) : \A q \in Places(j, lists) :
            r[1] < q[1] \/ (r[1] = q[1] /\ r[2] <= q[2])
    BY FirstPlace
  <2>3. /\ p[1] \in Nat /\ p[2] \in Nat /\ r[1] \in Nat /\ r[2] \in Nat
        /\ lists[p[1]][p[2]] = i /\ lists[r[1]][r[2]] = j
    BY PlaceFacts
  <2>4. ~(p[1] = r[1] /\ p[2] = r[2])
    BY <1>3, <2>3
  <2>5. CASE p[1] < r[1] \/ (p[1] = r[1] /\ p[2] < r[2])
    <3>1. ASSUME NEW q \in Places(j, lists) PROVE p[1] < q[1] \/ (p[1] = q[1] /\ p[2] < q[2])
      <4>1. q[1] \in Nat /\ q[2] \in Nat
        BY PlaceFacts
      <4>2. r[1] < q[1] \/ (r[1] = q[1] /\ r[2] <= q[2])
        BY <2>2
      <4>3. QED  BY <2>3, <2>5, <4>1, <4>2
    <3>2. QED  BY <3>1 DEF Sooner
  <2>6. CASE r[1] < p[1] \/ (r[1] = p[1] /\ r[2] < p[2])
    <3>1. ASSUME NEW q \in Places(i, lists) PROVE r[1] < q[1] \/ (r[1] = q[1] /\ r[2] < q[2])
      <4>1. q[1] \in Nat /\ q[2] \in Nat
        BY PlaceFacts
      <4>2. p[1] < q[1] \/ (p[1] = q[1] /\ p[2] <= q[2])
        BY <2>1
      <4>3. QED  BY <2>3, <2>6, <4>1, <4>2
    <3>2. QED  BY <3>1 DEF Sooner
  <2>7. QED  BY <2>3, <2>4, <2>5, <2>6
<1>4. QED  BY <1>1, <1>2, <1>3

-----------------------------------------------------------------------------
\* The rank decides what a place is worth.
LEMMA QuotientsFall ==
  ASSUME NEW u \in Nat, NEW a \in Nat \ {0}, NEW b \in Nat \ {0}, a <= b
  PROVE  u \div b \in Nat /\ u \div b <= u \div a
<1>1. \A c \in Nat \ {0} :
        u \div c \in Nat /\ c * (u \div c) <= u /\ u < c * (u \div c) + c
  OBVIOUS
<1>2. PICK p, q \in Nat : p = u \div a /\ q = u \div b
  BY <1>1
<1>3. b * q <= u /\ u < a * p + a
  BY <1>1, <1>2
<1>4. ~(p < q)
  <2> SUFFICES ASSUME p < q PROVE FALSE
    OBVIOUS
  <2>1. PICK d \in Nat : q = p + 1 + d
    <3>1. q - p - 1 \in Nat /\ q = p + 1 + (q - p - 1)
      OBVIOUS
    <3>2. QED  BY <3>1
  <2>2. PICK e \in Nat : b = a + e
    <3>1. b - a \in Nat /\ b = a + (b - a)
      OBVIOUS
    <3>2. QED  BY <3>1
  <2>3. b * q = a * p + a + a * d + e * q /\ a * d \in Nat /\ e * q \in Nat /\ a * p \in Nat
    BY <2>1, <2>2
  <2>4. QED  BY <1>3, <2>3
<1>5. QED  BY <1>2, <1>4

LEMMA ReciprocalFalls ==
  ASSUME NEW m \in Nat \ {0}, NEW n \in Nat \ {0}, m <= n
  PROVE  Reciprocal(n) \in Nat /\ Reciprocal(m) \in Nat /\ Reciprocal(n) <= Reciprocal(m)
<1>1. Unit \in Nat /\ FusionK \in Nat
  BY RecallAssumption
<1>2. FusionK + m \in Nat \ {0} /\ FusionK + n \in Nat \ {0} /\ FusionK + m <= FusionK + n
  BY <1>1
<1>3. PICK a, b \in Nat \ {0} : a = FusionK + m /\ b = FusionK + n
  BY <1>2
<1>4. a <= b
  BY <1>2, <1>3
<1>5. Unit \div b \in Nat /\ Unit \div b <= Unit \div a
  BY <1>1, <1>4, QuotientsFall
<1>6. Unit \div a \in Nat
  BY <1>1, QuotientsFall
<1>7. Reciprocal(m) = Unit \div a /\ Reciprocal(n) = Unit \div b
  BY <1>3 DEF Reciprocal
<1>8. QED  BY <1>5, <1>6, <1>7

Units(i, lists) == UNION {{p} \X (1 .. Reciprocal(p[2])) : p \in Places(i, lists)}

LEMMA UnitsAre ==
  ASSUME NEW lists, NEW i
  PROVE  \A u : u \in Units(i, lists) <=>
            \E p \in Places(i, lists) : \E r \in 1 .. Reciprocal(p[2]) : u = <<p, r>>
BY DEF Units

LEMMA UnitsAreFinite ==
  ASSUME NEW lists \in Seq(Seq(Found)), NEW i
  PROVE  IsFiniteSet(Units(i, lists))
<1>1. PICK N \in Nat : N = Len(lists)
  OBVIOUS
<1>2. DOMAIN lists = 1 .. N /\ \A l \in 1 .. N : lists[l] \in Seq(Found)
  BY <1>1
<1> DEFINE all == {{l} \X DOMAIN lists[l] : l \in DOMAIN lists}
           f == [l \in 1 .. N |-> {l} \X DOMAIN lists[l]]
<1>3. f \in Surjection(1 .. N, all)
  BY <1>2 DEF Surjection
<1>4. ASSUME NEW l \in 1 .. N PROVE IsFiniteSet({l} \X DOMAIN lists[l])
  <2>1. PICK n \in Nat : n = Len(lists[l])
    BY <1>2
  <2>2. DOMAIN lists[l] = 1 .. n
    BY <1>2, <2>1
  <2>3. IsFiniteSet(1 .. n)
    BY FS_Interval
  <2>4. IsFiniteSet({l})
    BY FS_Singleton
  <2>5. QED  BY <2>2, <2>3, <2>4, FS_Product
<1>5. \A T \in all : IsFiniteSet(T)
  BY <1>2, <1>4
<1>6. Places(i, lists) \in SUBSET UNION all
  BY PlacesAre
<1> HIDE DEF f, all
<1>7. IsFiniteSet(all)
  BY <1>3, FS_Interval, FS_Surjection
<1>8. IsFiniteSet(Places(i, lists))
  BY <1>5, <1>6, <1>7, FS_UNION, FS_Subset
<1> DEFINE P == Places(i, lists)
           units == {{p} \X (1 .. Reciprocal(p[2])) : p \in P}
           g == [p \in P |-> {p} \X (1 .. Reciprocal(p[2]))]
<1>9. g \in Surjection(P, units)
  BY DEF Surjection
<1>10. ASSUME NEW p \in P PROVE IsFiniteSet({p} \X (1 .. Reciprocal(p[2])))
  <2>1. p[2] \in Nat \ {0}
    BY PlaceFacts
  <2>2. PICK n \in Nat : n = Reciprocal(p[2])
    BY <2>1, ReciprocalFalls
  <2>3. IsFiniteSet(1 .. n)
    BY FS_Interval
  <2>4. IsFiniteSet({p})
    BY FS_Singleton
  <2>5. QED  BY <2>2, <2>3, <2>4, FS_Product
<1>11. \A T \in units : IsFiniteSet(T)
  BY <1>10
<1>12. Units(i, lists) = UNION units
  BY DEF Units
<1> HIDE DEF g, units
<1>13. IsFiniteSet(units)
  BY <1>8, <1>9, FS_Surjection
<1>14. QED  BY <1>11, <1>12, <1>13, FS_UNION

LEMMA ScoreIs ==
  ASSUME NEW lists \in Seq(Seq(Found)), NEW i
  PROVE  Score(i, lists) = Cardinality(Units(i, lists)) /\ Score(i, lists) \in Nat
BY UnitsAreFinite, FS_CardinalityType DEF Score, Units

\* What beats a text is met sooner and scores no less: each place of the other has one
\* before it in the same list.
LEMMA BeatenLater ==
  ASSUME NEW lists \in Seq(Seq(Found)), NEW i, NEW j, Beats(i, j, lists)
  PROVE  /\ i \in FoundIn(lists) /\ j \in FoundIn(lists) /\ Sooner(i, j, lists)
         /\ Score(j, lists) <= Score(i, lists)
<1>1. /\ \A l \in DOMAIN lists : IsInjective(lists[l])
      /\ j \in FoundIn(lists)
      /\ \A l \in DOMAIN lists : \A n \in DOMAIN lists[l] :
            lists[l][n] = j => \E m \in 1 .. n - 1 : lists[l][m] = i
  BY DEF Beats
<1> DEFINE before(q) == CHOOSE m \in 1 .. q[2] - 1 : lists[q[1]][m] = i
           shift(q) == <<q[1], before(q)>>
<1>2. ASSUME NEW q \in Places(j, lists)
      PROVE  /\ before(q) \in Nat \ {0} /\ before(q) < q[2]
             /\ shift(q) \in Places(i, lists)
             /\ shift(q)[1] = q[1] /\ shift(q)[2] = before(q)
  <2>1. /\ q[1] \in DOMAIN lists /\ q[2] \in DOMAIN lists[q[1]] /\ lists[q[1]][q[2]] = j
        /\ q[1] \in Nat /\ q[2] \in Nat \ {0}
    BY PlaceFacts
  <2>2. \E m \in 1 .. q[2] - 1 : lists[q[1]][m] = i
    BY <1>1, <2>1
  <2>3. before(q) \in 1 .. q[2] - 1 /\ lists[q[1]][before(q)] = i
    BY <2>2
  <2>4. lists[q[1]] \in Seq(Found)
    BY <2>1
  <2> HIDE DEF before
  <2>5. before(q) \in Nat \ {0} /\ before(q) < q[2] /\ before(q) \in DOMAIN lists[q[1]]
    BY <2>1, <2>3, <2>4
  <2>6. shift(q) \in Places(i, lists)
    BY <2>1, <2>3, <2>5, PlacesAre
  <2>7. QED  BY <2>5, <2>6
<1> HIDE DEF before
<1>3. PICK q0 : q0 \in Places(j, lists)
  BY <1>1, FirstPlace
<1>4. i \in FoundIn(lists)
  <2>1. shift(q0) \in Places(i, lists)
    BY <1>2, <1>3
  <2> HIDE DEF shift
  <2>2. QED  BY <2>1, PlaceFacts
<1>5. Sooner(i, j, lists)
  <2>1. PICK p \in Places(i, lists) : \A q \in Places(i, lists) :
            p[1] < q[1] \/ (p[1] = q[1] /\ p[2] <= q[2])
    BY <1>4, FirstPlace
  <2>2. p[1] \in Nat /\ p[2] \in Nat
    BY PlaceFacts
  <2>3. ASSUME NEW q \in Places(j, lists) PROVE p[1] < q[1] \/ (p[1] = q[1] /\ p[2] < q[2])
    <3>1. q[1] \in Nat /\ q[2] \in Nat
      BY PlaceFacts
    <3>2. before(q) \in Nat \ {0} /\ before(q) < q[2]
      BY <1>2
    <3>3. p[1] < q[1] \/ (p[1] = q[1] /\ p[2] <= before(q))
      BY <1>2, <2>1
    <3>4. QED  BY <2>2, <3>1, <3>2, <3>3
  <2>4. QED  BY <2>3 DEF Sooner
<1>6. ASSUME NEW q \in Places(j, lists), NEW r \in Places(j, lists), shift(q) = shift(r)
      PROVE  q = r
  <2>1. q[1] = r[1]
    BY <1>6
  <2>2. /\ q[1] \in DOMAIN lists /\ q[2] \in DOMAIN lists[q[1]] /\ r[2] \in DOMAIN lists[r[1]]
        /\ lists[q[1]][q[2]] = j /\ lists[r[1]][r[2]] = j
        /\ q = <<q[1], q[2]>> /\ r = <<r[1], r[2]>>
    BY PlaceFacts
  <2>3. q[2] = r[2]
    BY <1>1, <2>1, <2>2 DEF IsInjective
  <2>4. QED  BY <2>1, <2>2, <2>3
<1> HIDE DEF shift
<1> DEFINE move == [u \in Units(j, lists) |-> <<shift(u[1]), u[2]>>]
<1>7. ASSUME NEW u \in Units(j, lists)
      PROVE  /\ u[1] \in Places(j, lists) /\ u = <<u[1], u[2]>>
             /\ <<shift(u[1]), u[2]>> \in Units(i, lists)
  <2>1. PICK q \in Places(j, lists) : \E r \in 1 .. Reciprocal(q[2]) : u = <<q, r>>
    BY UnitsAre
  <2>2. PICK r \in 1 .. Reciprocal(q[2]) : u = <<q, r>>
    BY <2>1
  <2>3. /\ before(q) \in Nat \ {0} /\ before(q) < q[2] /\ shift(q) \in Places(i, lists)
        /\ shift(q)[2] = before(q)
    BY <1>2
  <2>4. q[2] \in Nat \ {0}
    BY PlaceFacts
  <2>5. /\ Reciprocal(q[2]) \in Nat /\ Reciprocal(before(q)) \in Nat
        /\ Reciprocal(q[2]) <= Reciprocal(before(q))
    BY <2>3, <2>4, ReciprocalFalls
  <2>6. r \in 1 .. Reciprocal(shift(q)[2])
    BY <2>3, <2>5
  <2>7. <<shift(q), r>> \in Units(i, lists)
    BY <2>3, <2>6, UnitsAre
  <2>8. QED  BY <2>2, <2>7
<1>8. move \in Injection(Units(j, lists), Units(i, lists))
  <2>1. move \in [Units(j, lists) -> Units(i, lists)]
    BY <1>7
  <2>2. \A u, v \in Units(j, lists) : move[u] = move[v] => u = v
    <3> SUFFICES ASSUME NEW u \in Units(j, lists), NEW v \in Units(j, lists), move[u] = move[v]
                 PROVE  u = v
      OBVIOUS
    <3>1. shift(u[1]) = shift(v[1]) /\ u[2] = v[2]
      OBVIOUS
    <3>2. u[1] = v[1]
      BY <1>6, <1>7, <3>1
    <3>3. QED  BY <1>7, <3>1, <3>2
  <2>3. QED  BY <2>1, <2>2 DEF Injection, IsInjective
<1> HIDE DEF move
<1>9. Cardinality(Units(j, lists)) <= Cardinality(Units(i, lists))
  BY <1>8, UnitsAreFinite, FS_Injection
<1>10. QED  BY <1>1, <1>4, <1>5, <1>9, ScoreIs

-----------------------------------------------------------------------------
\* Any order that puts what beats a text before it gives a ranking of all that was found.
LEMMA OrderRanks ==
  ASSUME NEW lists \in Seq(Seq(Found)), NEW R,
         \A x \in FoundIn(lists) : <<x, x>> \notin R,
         \A x, y, z \in FoundIn(lists) : <<x, y>> \in R /\ <<y, z>> \in R => <<x, z>> \in R,
         \A x, y \in FoundIn(lists) : x # y => <<x, y>> \in R \/ <<y, x>> \in R,
         \A i, j \in Found : Beats(i, j, lists) => <<i, j>> \in R
  PROVE  /\ InOrder(FoundIn(lists), R) \in Seq(Found)
         /\ Ranks(InOrder(FoundIn(lists), R), lists)
         /\ ToSet(InOrder(FoundIn(lists), R)) = FoundIn(lists)
<1>1. PICK S : S = FoundIn(lists)
  OBVIOUS
<1>2. IsFiniteSet(S) /\ S \subseteq Found
  BY <1>1, FoundIsFinite
<1>3. PICK s : s = InOrder(S, R)
  OBVIOUS
<1>4. /\ s \in Seq(S) /\ IsInjective(s)
      /\ \A x \in S : \E n \in DOMAIN s : s[n] = x
      /\ \A m, n \in DOMAIN s : <<s[m], s[n]>> \in R => m < n
  <2>1. /\ \A x \in S : <<x, x>> \notin R
        /\ \A x, y, z \in S : <<x, y>> \in R /\ <<y, z>> \in R => <<x, z>> \in R
        /\ \A x, y \in S : x # y => <<x, y>> \in R \/ <<y, x>> \in R
    BY <1>1
  <2>2. /\ InOrder(S, R) \in Seq(S) /\ IsInjective(InOrder(S, R))
        /\ \A x \in S : \E n \in DOMAIN InOrder(S, R) : InOrder(S, R)[n] = x
        /\ \A m, n \in DOMAIN InOrder(S, R) :
              <<InOrder(S, R)[m], InOrder(S, R)[n]>> \in R => m < n
    BY <1>2, <2>1, InOrderIs
  <2>3. QED  BY <1>3, <2>2
<1>5. \A n \in DOMAIN s : s[n] \in S
  BY <1>4
<1>6. s \in Seq(Found)
  <2>1. PICK n \in Nat : n = Len(s)
    BY <1>4
  <2>2. s \in [1 .. n -> Found]
    BY <1>2, <1>4, <1>5, <2>1
  <2>3. QED  BY <2>2, SeqDef
<1>7. ToSet(s) = S
  BY <1>4, <1>5 DEF ToSet
<1>8. ASSUME NEW i \in Found, NEW j \in Found, NEW n \in DOMAIN s, s[n] = j, Beats(i, j, lists)
      PROVE  \E m \in DOMAIN s : m < n /\ s[m] = i
  <2>1. i \in S
    BY <1>1, <1>8, BeatenLater
  <2>2. PICK m \in DOMAIN s : s[m] = i
    BY <1>4, <2>1
  <2>3. <<s[m], s[n]>> \in R
    BY <1>8, <2>2
  <2>4. QED  BY <1>4, <2>2, <2>3
<1>9. Ranks(s, lists)
  BY <1>1, <1>4, <1>7, <1>8 DEF Ranks
<1>10. QED  BY <1>1, <1>3, <1>6, <1>7, <1>9

LEMMA FlatRanks ==
  ASSUME NEW lists \in Seq(Seq(Found))
  PROVE  Flat(lists) \in Seq(Found) /\ Ranks(Flat(lists), lists) /\ ToSet(Flat(lists)) = FoundIn(lists)
<1>1. PICK R : R = {p \in Found \X Found : Sooner(p[1], p[2], lists)}
  OBVIOUS
<1>2. \A x, y \in Found : <<x, y>> \in R <=> Sooner(x, y, lists)
  BY <1>1
<1>3. FoundIn(lists) \subseteq Found
  BY FoundIsFinite
<1>4. /\ \A x \in FoundIn(lists) : <<x, x>> \notin R
      /\ \A x, y, z \in FoundIn(lists) : <<x, y>> \in R /\ <<y, z>> \in R => <<x, z>> \in R
      /\ \A x, y \in FoundIn(lists) : x # y => <<x, y>> \in R \/ <<y, x>> \in R
  BY <1>2, <1>3, SoonerIsOrder
<1>5. \A i, j \in Found : Beats(i, j, lists) => <<i, j>> \in R
  BY <1>2, BeatenLater
<1>6. Flat(lists) = InOrder(FoundIn(lists), R)
  BY <1>1 DEF Flat
<1>7. QED  BY <1>4, <1>5, <1>6, OrderRanks

LEMMA FusedRanks ==
  ASSUME NEW lists \in Seq(Seq(Found))
  PROVE  Fused(lists) \in Seq(Found) /\ Ranks(Fused(lists), lists)
<1>1. PICK score : score = [i \in Found |-> Score(i, lists)]
  OBVIOUS
<1>2. PICK R : R = {p \in Found \X Found :
                      \/ score[p[1]] > score[p[2]]
                      \/ score[p[1]] = score[p[2]] /\ Sooner(p[1], p[2], lists)}
  OBVIOUS
<1>3. \A x, y \in Found : <<x, y>> \in R <=>
         score[x] > score[y] \/ (score[x] = score[y] /\ Sooner(x, y, lists))
  BY <1>2
<1>4. \A x \in Found : score[x] \in Nat /\ score[x] = Score(x, lists)
  BY <1>1, ScoreIs
<1>5. FoundIn(lists) \subseteq Found
  BY FoundIsFinite
<1>6. \A x \in FoundIn(lists) : <<x, x>> \notin R
  BY <1>3, <1>4, <1>5, SoonerIsOrder
<1>7. \A x, y, z \in FoundIn(lists) : <<x, y>> \in R /\ <<y, z>> \in R => <<x, z>> \in R
  <2> SUFFICES ASSUME NEW x \in Found, NEW y \in Found, NEW z \in Found,
                      <<x, y>> \in R, <<y, z>> \in R
               PROVE  <<x, z>> \in R
    BY <1>5
  <2>1. score[x] \in Nat /\ score[y] \in Nat /\ score[z] \in Nat
    BY <1>4
  <2>2. score[x] > score[y] \/ (score[x] = score[y] /\ Sooner(x, y, lists))
    BY <1>3
  <2>3. score[y] > score[z] \/ (score[y] = score[z] /\ Sooner(y, z, lists))
    BY <1>3
  <2>4. Sooner(x, y, lists) /\ Sooner(y, z, lists) => Sooner(x, z, lists)
    BY SoonerIsOrder
  <2>5. score[x] > score[z] \/ (score[x] = score[z] /\ Sooner(x, z, lists))
    BY <2>1, <2>2, <2>3, <2>4
  <2>6. QED  BY <1>3, <2>5
<1>8. \A x, y \in FoundIn(lists) : x # y => <<x, y>> \in R \/ <<y, x>> \in R
  <2> SUFFICES ASSUME NEW x \in FoundIn(lists), NEW y \in FoundIn(lists), x # y
               PROVE  <<x, y>> \in R \/ <<y, x>> \in R
    OBVIOUS
  <2>1. x \in Found /\ y \in Found
    BY <1>5
  <2>2. score[x] \in Nat /\ score[y] \in Nat
    BY <1>4, <2>1
  <2>3. Sooner(x, y, lists) \/ Sooner(y, x, lists)
    BY SoonerIsOrder
  <2>4. \/ score[x] > score[y] \/ (score[x] = score[y] /\ Sooner(x, y, lists))
        \/ score[y] > score[x] \/ (score[y] = score[x] /\ Sooner(y, x, lists))
    BY <2>2, <2>3
  <2>5. QED  BY <1>3, <2>1, <2>4
<1>9. ASSUME NEW i \in Found, NEW j \in Found, Beats(i, j, lists) PROVE <<i, j>> \in R
  <2>1. Sooner(i, j, lists) /\ Score(j, lists) <= Score(i, lists)
    BY <1>9, BeatenLater
  <2>2. score[j] <= score[i] /\ score[j] \in Nat /\ score[i] \in Nat
    BY <1>4, <2>1
  <2>3. QED  BY <1>3, <2>1, <2>2
<1>10. Fused(lists) = InOrder(FoundIn(lists), R)
  BY <1>1, <1>2 DEF Fused
<1>11. QED  BY <1>6, <1>7, <1>8, <1>9, <1>10, OrderRanks

\* A beginning of a ranking is one.
LEMMA FirstOfIs ==
  ASSUME NEW T, NEW s \in Seq(T), NEW n \in 0 .. Len(s)
  PROVE  /\ FirstOf(s, n) \in Seq(T) /\ Len(FirstOf(s, n)) = n
         /\ DOMAIN FirstOf(s, n) = 1 .. n
         /\ \A m \in 1 .. n : FirstOf(s, n)[m] = s[m]
<1>1. Len(s) \in Nat /\ n \in Nat /\ n <= Len(s) /\ ~(Len(s) < n)
  OBVIOUS
<1>2. FirstOf(s, n) = SubSeq(s, 1, n)
  BY <1>1 DEF FirstOf
<1>3. DOMAIN s = 1 .. Len(s)
  OBVIOUS
<1>4. SubSeq(s, 1, n) = [m \in 1 .. n |-> s[m]]
  BY <1>1, <1>3
<1>5. \A m \in 1 .. n : s[m] \in T
  BY <1>1, <1>3
<1>6. [m \in 1 .. n |-> s[m]] \in [1 .. n -> T]
  BY <1>5
<1>7. [m \in 1 .. n |-> s[m]] \in Seq(T)
  BY <1>1, <1>6, SeqDef
<1>8. FirstOf(s, n) = [m \in 1 .. n |-> s[m]]
  BY <1>2, <1>4
<1> DEFINE f == [m \in 1 .. n |-> s[m]]
<1>9. f \in Seq(T) /\ DOMAIN f = 1 .. n /\ \A m \in 1 .. n : f[m] = s[m]
  BY <1>7
<1> HIDE DEF f
<1>10. Len(f) = n
  BY <1>1, <1>9
<1>11. QED  BY <1>8, <1>9, <1>10 DEF f

LEMMA BeginningRanks ==
  ASSUME NEW lists, NEW s \in Seq(Found), Ranks(s, lists), NEW n \in 0 .. Len(s)
  PROVE  Ranks(FirstOf(s, n), lists)
<1>1. PICK t : t = FirstOf(s, n)
  OBVIOUS
<1>2. DOMAIN t = 1 .. n /\ \A m \in 1 .. n : t[m] = s[m]
  BY <1>1, FirstOfIs
<1>3. 1 .. n \subseteq DOMAIN s /\ n \in Nat
  OBVIOUS
<1>4. IsInjective(t)
  BY <1>2, <1>3 DEF Ranks, IsInjective
<1>5. ToSet(t) \subseteq FoundIn(lists)
  BY <1>2, <1>3 DEF Ranks, ToSet
<1>6. ASSUME NEW i \in Found, NEW j \in Found, NEW k \in DOMAIN t, t[k] = j, Beats(i, j, lists)
      PROVE  \E m \in DOMAIN t : m < k /\ t[m] = i
  <2>1. k \in DOMAIN s /\ s[k] = j
    BY <1>2, <1>3, <1>6
  <2>2. PICK m \in DOMAIN s : m < k /\ s[m] = i
    BY <1>6, <2>1 DEF Ranks
  <2>3. m \in 1 .. n
    BY <1>2, <1>3, <2>2
  <2>4. QED  BY <1>2, <2>2, <2>3
<1>7. QED  BY <1>1, <1>4, <1>5, <1>6 DEF Ranks

\* What is kept keeps the budget, and what does not fit was too large at once.
LEMMA KeptIs ==
  ASSUME NEW s \in Seq(Found)
  PROVE  \E n \in 0 .. Len(s) :
            /\ Kept(s) = FirstOf(s, n) /\ Used(Kept(s)) <= BudgetTokens
            /\ n = 0 /\ s # <<>> => Estimate(s[1]) > BudgetTokens
<1>1. PICK N \in Nat : N = Len(s)
  OBVIOUS
<1>2. BudgetTokens \in Nat /\ Words \in [Found -> Nat]
  BY RecallAssumption
<1> DEFINE fits == {n \in 0 .. Len(s) : Used(FirstOf(s, n)) <= BudgetTokens}
<1>3. 0 \in fits
  <2>1. DOMAIN FirstOf(s, 0) = 1 .. 0
    BY <1>1, FirstOfIs
  <2>2. UNION {{n} \X (1 .. Estimate(FirstOf(s, 0)[n])) : n \in DOMAIN FirstOf(s, 0)} = {}
    BY <2>1
  <2>3. Used(FirstOf(s, 0)) = 0
    BY <2>2, FS_EmptySet DEF Used
  <2>4. QED  BY <1>1, <1>2, <2>3
<1>4. fits \in SUBSET Nat /\ \A n \in fits : n <= N
  BY <1>1
<1>5. fits # {} /\ fits \in SUBSET (0 .. N)
  BY <1>1, <1>3
<1> HIDE DEF fits
<1>6. IsFiniteSet(fits)
  <2>1. IsFiniteSet(0 .. N)
    BY FS_Interval
  <2>2. QED  BY <1>5, <2>1, FS_Subset
<1>7. PICK n : n = Max(fits)
  OBVIOUS
<1>8. n \in fits /\ \A m \in fits : m <= n
  BY <1>4, <1>5, <1>6, <1>7, GreatestNatural
<1>9. Kept(s) = FirstOf(s, n)
  BY <1>7 DEF Kept, fits
<1>10. n \in 0 .. Len(s) /\ Used(Kept(s)) <= BudgetTokens
  BY <1>8, <1>9 DEF fits
<1>11. ASSUME n = 0, s # <<>> PROVE Estimate(s[1]) > BudgetTokens
  <2>1. N >= 1
    BY <1>1, <1>11
  <2>2. 1 \in 0 .. Len(s) /\ 1 \notin fits
    BY <1>1, <1>8, <1>11, <2>1
  <2>3. ~(Used(FirstOf(s, 1)) <= BudgetTokens)
    BY <2>2 DEF fits
  <2>4. PICK t : t = FirstOf(s, 1)
    OBVIOUS
  <2>5. DOMAIN t = 1 .. 1 /\ t[1] = s[1]
    <3>1. PICK one \in 0 .. Len(s) : one = 1
      BY <2>2
    <3>2. /\ DOMAIN FirstOf(s, one) = 1 .. one
          /\ \A m \in 1 .. one : FirstOf(s, one)[m] = s[m]
      BY FirstOfIs
    <3>3. DOMAIN t = 1 .. 1 /\ \A m \in 1 .. 1 : t[m] = s[m]
      BY <2>4, <3>1, <3>2
    <3>4. 1 \in 1 .. 1
      OBVIOUS
    <3>5. QED  BY <3>3, <3>4
  <2>6. s[1] \in Found
    BY <1>1, <2>1
  <2>7. PICK w \in Nat : w = Words[s[1]]
    BY <1>2, <2>6
  <2>8. PICK e \in Nat : e = Estimate(s[1])
    BY <2>7 DEF Estimate
  <2>9. UNION {{k} \X (1 .. Estimate(t[k])) : k \in DOMAIN t} = {1} \X (1 .. e)
    BY <2>5, <2>8
  <2>10. Cardinality(1 .. e) = e /\ IsFiniteSet(1 .. e)
    <3>1. 1 \in Int /\ e \in Int
      OBVIOUS
    <3>2. Cardinality(1 .. e) = IF 1 > e THEN 0 ELSE e - 1 + 1
      BY <3>1, FS_Interval
    <3>3. QED  BY <3>1, <3>2, FS_Interval
  <2>11. IsFiniteSet({1}) /\ Cardinality({1}) = 1
    BY FS_Singleton
  <2>12. Cardinality({1} \X (1 .. e)) = 1 * e
    BY <2>10, <2>11, FS_Product
  <2>13. Used(t) = e
    <3>1. Used(t) = Cardinality({1} \X (1 .. e))
      BY <2>9 DEF Used
    <3>2. 1 * e = e
      OBVIOUS
    <3>3. QED  BY <2>12, <3>1, <3>2
  <2>14. QED  BY <1>2, <2>3, <2>4, <2>8, <2>13
<1>12. QED  BY <1>9, <1>10, <1>11

\* Each key once: a sequence of what was asked.
LEMMA OncePerIs ==
  ASSUME NEW key, NEW T, NEW s \in Seq(T)
  PROVE  OncePer(key, s) \in Seq(T)
<1>1. PICK first : first = {n \in DOMAIN s : \A m \in 1 .. n - 1 : key[s[m]] # key[s[n]]}
  OBVIOUS
<1>2. PICK R : R = {p \in first \X first : p[1] < p[2]}
  OBVIOUS
<1>3. PICK N \in Nat : N = Len(s)
  OBVIOUS
<1>4. DOMAIN s = 1 .. N
  BY <1>3
<1>5. first \in SUBSET (1 .. N)
  BY <1>1, <1>4
<1>6. IsFiniteSet(first)
  <2>1. IsFiniteSet(1 .. N)
    BY FS_Interval
  <2>2. QED  BY <1>5, <2>1, FS_Subset
<1>7. \A x, y \in first : <<x, y>> \in R <=> x < y
  BY <1>2
<1>8. \A x \in first : x \in Nat
  BY <1>5
<1>9. /\ \A x \in first : <<x, x>> \notin R
      /\ \A x, y, z \in first : <<x, y>> \in R /\ <<y, z>> \in R => <<x, z>> \in R
      /\ \A x, y \in first : x # y => <<x, y>> \in R \/ <<y, x>> \in R
  BY <1>7, <1>8
<1>10. PICK order : order = InOrder(first, R)
  OBVIOUS
<1>11. order \in Seq(first)
  BY <1>6, <1>9, <1>10, InOrderIs
<1>12. PICK M \in Nat : M = Len(order)
  BY <1>11
<1>13. DOMAIN order = 1 .. M /\ \A k \in 1 .. M : order[k] \in first
  BY <1>11, <1>12
<1>14. ASSUME NEW k \in 1 .. M PROVE s[order[k]] \in T
  <2>1. order[k] \in DOMAIN s
    BY <1>4, <1>5, <1>13
  <2>2. \A m \in DOMAIN s : s[m] \in T
    OBVIOUS
  <2> QED  BY <2>1, <2>2
<1>15. OncePer(key, s) = [place \in 1 .. M |-> s[order[place]]]
  BY <1>1, <1>2, <1>10, <1>13 DEF OncePer
<1>16. [place \in 1 .. M |-> s[order[place]]] \in [1 .. M -> T]
  BY <1>14
<1>17. QED  BY <1>15, <1>16, SeqDef

LEMMA BoundedSequences ==
  ASSUME NEW T, NEW n \in Nat
  PROVE  SeqOf(T, n) \subseteq Seq(T)
<1> SUFFICES ASSUME NEW s \in SeqOf(T, n) PROVE s \in Seq(T)
  OBVIOUS
<1>1. PICK m \in 0 .. n : s \in [1 .. m -> T]
  BY DEF SeqOf
<1>2. QED  BY <1>1, SeqDef

LEMMA ExpandedIs ==
  ASSUME NEW variants \in Seq(Queries)
  PROVE  Expanded(variants) \in Seq(Queries)
<1>1. NumVariants + 1 \in Nat /\ Original \in Queries
  BY RecallAssumption
<1>2. PICK n \in Nat : n = NumVariants + 1
  BY <1>1
<1>3. <<Original>> \o variants \in Seq(Queries)
  BY <1>1
<1>4. PICK s \in Seq(Queries) : s = OncePer(KeyOf, <<Original>> \o variants)
  BY <1>3, OncePerIs
<1>5. Len(s) \in Nat /\ Len(s) \in 0 .. Len(s)
  OBVIOUS
<1>6. CASE Len(s) < n
  <2>1. FirstOf(s, n) = FirstOf(s, Len(s))
    BY <1>5, <1>6 DEF FirstOf
  <2>2. FirstOf(s, Len(s)) \in Seq(Queries)
    BY <1>5, FirstOfIs
  <2>3. QED  BY <1>2, <1>4, <2>1, <2>2 DEF Expanded
<1>7. CASE ~(Len(s) < n)
  <2>1. n \in 0 .. Len(s)
    BY <1>5, <1>7
  <2>2. FirstOf(s, n) \in Seq(Queries)
    BY <2>1, FirstOfIs
  <2>3. QED  BY <1>2, <1>4, <2>2 DEF Expanded
<1>8. QED  BY <1>6, <1>7

\* The ranking that would be answered now.
Ranking == IF context.fused # <<>> THEN context.fused ELSE Flat(context.raw)

LEMMA RankingRanks ==
  ASSUME RecallInv
  PROVE  /\ Ranking \in Seq(Found) /\ Ranks(Ranking, context.raw)
         /\ FoundIn(context.raw) # {} => Ranking # <<>>
<1>1. context.raw \in Seq(Seq(Found)) /\ context.fused \in Seq(Found)
  BY DEF RecallInv, RecallTypeOK, Contexts
<1>2. CASE context.fused # <<>>
  BY <1>1, <1>2 DEF RecallInv, Ranking
<1>3. CASE context.fused = <<>>
  <2>1. Ranking = Flat(context.raw)
    BY <1>3 DEF Ranking
  <2>2. /\ Flat(context.raw) \in Seq(Found) /\ Ranks(Flat(context.raw), context.raw)
        /\ ToSet(Flat(context.raw)) = FoundIn(context.raw)
    BY <1>1, FlatRanks
  <2>3. FoundIn(context.raw) # {} => Flat(context.raw) # <<>>
    BY <2>2 DEF ToSet
  <2>4. QED  BY <2>1, <2>2, <2>3
<1>4. QED  BY <1>2, <1>3

\* A stage that ranks what it leaves, and finds nothing unless it is the retrieval.
LEMMA StageKeeps ==
  ASSUME RecallInv, NEW s \in Stages, NEW after \in Contexts, Stage(s, after),
         s # "retrieval" => after.raw = context.raw,
         Ranks(after.fused, after.raw),
         s = "budget" => Trimmed'
  PROVE  RecallInv'
<1>1. context' = after /\ ran' = ran \cup {s} /\ lastRan' = s /\ recalled' = recalled
  BY DEF Stage
<1>2. ~recalled.given
  BY DEF Stage
<1>3. RecallTypeOK'
  BY <1>1 DEF RecallInv, RecallTypeOK
<1>4. "retrieval" \notin ran' => context'.raw = <<>>
  <2>1. "retrieval" \notin ran' => s # "retrieval" /\ "retrieval" \notin ran
    BY <1>1
  <2>2. QED  BY <1>1, <2>1 DEF RecallInv
<1>5. Ranks(context'.fused, context'.raw)
  BY <1>1
<1>6. lastRan' = "budget" => Trimmed'
  BY <1>1
<1>7. ~recalled'.given
  BY <1>1, <1>2
<1>8. QED  BY <1>3, <1>4, <1>5, <1>6, <1>7 DEF RecallInv

LEMMA RecallStep ==
  ASSUME RecallInv, [RecallNext]_recallVars
  PROVE  RecallInv'
<1>1. /\ context \in Contexts /\ context.queries \in Seq(Queries) /\ context.subs \in Seq(Queries)
      /\ context.raw \in Seq(Seq(Found)) /\ context.fused \in Seq(Found)
  BY DEF RecallInv, RecallTypeOK, Contexts
<1>2. Ranks(context.fused, context.raw)
  BY DEF RecallInv
<1>3. ASSUME NEW s \in Stages \ {"budget"}, Stage(s, context) PROVE RecallInv'
  BY <1>1, <1>2, <1>3, StageKeeps
<1>4. CASE IntentFilter
  <2>1. CASE \E c \in {"unknown", "HIGH", "other"}, skip \in BOOLEAN :
               Stage("intent", [context EXCEPT !.complex = c, !.skipped = skip])
    <3>1. PICK c \in {"unknown", "HIGH", "other"}, skip \in BOOLEAN :
               Stage("intent", [context EXCEPT !.complex = c, !.skipped = skip])
      BY <2>1
    <3>2. PICK after : after = [context EXCEPT !.complex = c, !.skipped = skip]
      OBVIOUS
    <3>3. after \in Contexts /\ after.raw = context.raw /\ after.fused = context.fused
      BY <1>1, <3>2 DEF Contexts
    <3>4. Stage("intent", after) /\ "intent" \in Stages
      BY <3>1, <3>2 DEF Stages
    <3>5. Ranks(after.fused, after.raw)
      BY <1>2, <3>3
    <3>6. QED  BY <3>3, <3>4, <3>5, StageKeeps
  <2>2. CASE Stage("intent", context)
    BY <1>3, <2>2 DEF Stages
  <2>3. QED  BY <1>4, <2>1, <2>2 DEF IntentFilter
<1>5. CASE Expansion
  <2>1. CASE \E variants \in SeqOf(Queries, NumVariants + 1) :
               Stage("expansion", [context EXCEPT !.queries = Expanded(variants)])
    <3>1. PICK variants \in SeqOf(Queries, NumVariants + 1) :
               Stage("expansion", [context EXCEPT !.queries = Expanded(variants)])
      BY <2>1
    <3>2. NumVariants + 1 \in Nat
      BY RecallAssumption
    <3>3. Expanded(variants) \in Seq(Queries)
      BY <3>2, BoundedSequences, ExpandedIs
    <3>4. PICK after : after = [context EXCEPT !.queries = Expanded(variants)]
      OBVIOUS
    <3>5. after \in Contexts /\ after.raw = context.raw /\ after.fused = context.fused
      BY <1>1, <3>3, <3>4 DEF Contexts
    <3>6. Stage("expansion", after) /\ "expansion" \in Stages
      BY <3>1, <3>4 DEF Stages
    <3>7. Ranks(after.fused, after.raw)
      BY <1>2, <3>5
    <3>8. QED  BY <3>5, <3>6, <3>7, StageKeeps
  <2>2. CASE Stage("expansion", context)
    BY <1>3, <2>2 DEF Stages
  <2>3. QED  BY <1>5, <2>1, <2>2 DEF Expansion
<1>6. CASE Decomposition
  <2>1. CASE \E parts \in SeqOf(Queries \ {Original}, MaxSubqueries) :
               Stage("decomposition", [context EXCEPT !.subs = parts])
    <3>1. PICK parts \in SeqOf(Queries \ {Original}, MaxSubqueries) :
               Stage("decomposition", [context EXCEPT !.subs = parts])
      BY <2>1
    <3>2. MaxSubqueries \in Nat
      BY RecallAssumption
    <3>3. PICK rest : rest = Queries \ {Original}
      OBVIOUS
    <3>4. parts \in Seq(rest)
      BY <3>2, <3>3, BoundedSequences
    <3>5. PICK n \in Nat : parts \in [1 .. n -> rest]
      BY <3>4, SeqDef
    <3>6. parts \in [1 .. n -> Queries]
      BY <3>3, <3>5
    <3>7. parts \in Seq(Queries)
      BY <3>6, SeqDef
    <3>8. PICK after : after = [context EXCEPT !.subs = parts]
      OBVIOUS
    <3>9. after \in Contexts /\ after.raw = context.raw /\ after.fused = context.fused
      BY <1>1, <3>7, <3>8 DEF Contexts
    <3>10. Stage("decomposition", after) /\ "decomposition" \in Stages
      BY <3>1, <3>8 DEF Stages
    <3>11. Ranks(after.fused, after.raw)
      BY <1>2, <3>9
    <3>12. QED  BY <3>9, <3>10, <3>11, StageKeeps
  <2>2. CASE Stage("decomposition", context)
    BY <1>3, <2>2 DEF Stages
  <2>3. QED  BY <1>6, <2>1, <2>2 DEF Decomposition
<1>7. CASE Retrieval
  <2>1. PICK asked : asked = OncePer(KeyOf, context.queries \o context.subs)
    OBVIOUS
  <2>2. PICK lists \in [DOMAIN asked -> SeqOf(Found, TopK)] :
           Stage("retrieval", [context EXCEPT !.raw = @ \o lists])
    BY <1>7, <2>1 DEF Retrieval
  <2>3. context.queries \o context.subs \in Seq(Queries)
    BY <1>1
  <2>4. asked \in Seq(Queries)
    BY <2>1, <2>3, OncePerIs
  <2>5. PICK M \in Nat : DOMAIN asked = 1 .. M
    BY <2>4
  <2>6. TopK \in Nat
    BY RecallAssumption
  <2>7. SeqOf(Found, TopK) \subseteq Seq(Found)
    BY <2>6, BoundedSequences
  <2>8. lists \in [1 .. M -> Seq(Found)]
    BY <2>5, <2>7
  <2>9. lists \in Seq(Seq(Found))
    BY <2>8, SeqDef
  <2>10. context.raw \o lists \in Seq(Seq(Found))
    BY <1>1, <2>9
  <2>11. PICK after : after = [context EXCEPT !.raw = @ \o lists]
    OBVIOUS
  <2>12. after \in Contexts /\ after.fused = context.fused
    BY <1>1, <2>10, <2>11 DEF Contexts
  <2>13. Stage("retrieval", after) /\ "retrieval" \in Stages /\ "retrieval" \notin ran
    BY <2>2, <2>11 DEF Stages, Stage
  <2>14. context.raw = <<>>
    BY <2>13 DEF RecallInv
  <2>15. FoundIn(context.raw) = {}
    BY <2>14, FoundIs
  <2>16. context.fused = <<>>
    <3>1. ToSet(context.fused) = {}
      BY <1>2, <2>15 DEF Ranks
    <3>2. DOMAIN context.fused = {}
      BY <3>1 DEF ToSet
    <3>3. PICK n \in Nat : n = Len(context.fused)
      BY <1>1
    <3>4. DOMAIN context.fused = 1 .. n
      BY <1>1, <3>3
    <3>5. n = 0
      <4>1. 1 \notin 1 .. n
        BY <3>2, <3>4
      <4>2. QED  BY <4>1
    <3>6. QED  BY <1>1, <3>3, <3>5, EmptySeq
  <2>17. Ranks(after.fused, after.raw)
    BY <2>12, <2>16 DEF Ranks, IsInjective, ToSet
  <2>18. QED  BY <2>12, <2>13, <2>17, StageKeeps
<1>8. CASE Fusion
  <2>1. CASE context.raw = <<>>
    <3>1. Stage("fusion", context)
      BY <1>8, <2>1 DEF Fusion
    <3>2. QED  BY <1>3, <3>1 DEF Stages
  <2>2. CASE context.raw # <<>>
    <3>1. PICK after : after = [context EXCEPT !.fused = Fused(context.raw)]
      OBVIOUS
    <3>2. Fused(context.raw) \in Seq(Found) /\ Ranks(Fused(context.raw), context.raw)
      BY <1>1, FusedRanks
    <3>3. after \in Contexts /\ after.raw = context.raw /\ after.fused = Fused(context.raw)
      BY <1>1, <3>1, <3>2 DEF Contexts
    <3>4. Stage("fusion", after) /\ "fusion" \in Stages
      BY <1>8, <2>2, <3>1 DEF Fusion, Stages
    <3>5. Ranks(after.fused, after.raw)
      BY <3>2, <3>3
    <3>6. QED  BY <3>3, <3>4, <3>5, StageKeeps
  <2>3. QED  BY <2>1, <2>2
<1>9. CASE TokenBudget
  <2>1. PICK source : source = Ranking
    OBVIOUS
  <2>2. PICK after : after = [context EXCEPT !.fused = Kept(source)]
    OBVIOUS
  <2>3. Stage("budget", after) /\ "budget" \in Stages
    BY <1>9, <2>1, <2>2 DEF TokenBudget, Ranking, Stages
  <2>4. /\ source \in Seq(Found) /\ Ranks(source, context.raw)
        /\ FoundIn(context.raw) # {} => source # <<>>
    BY <2>1, RankingRanks
  <2>5. PICK n \in 0 .. Len(source) :
           /\ Kept(source) = FirstOf(source, n) /\ Used(Kept(source)) <= BudgetTokens
           /\ n = 0 /\ source # <<>> => Estimate(source[1]) > BudgetTokens
    BY <2>4, KeptIs
  <2>6. /\ Kept(source) \in Seq(Found) /\ Len(Kept(source)) = n
        /\ Ranks(Kept(source), context.raw)
    <3>1. FirstOf(source, n) \in Seq(Found) /\ Len(FirstOf(source, n)) = n
      BY <2>4, FirstOfIs
    <3>2. Ranks(FirstOf(source, n), context.raw)
      BY <2>4, BeginningRanks
    <3>3. QED  BY <2>5, <3>1, <3>2
  <2>7. after \in Contexts /\ after.raw = context.raw /\ after.fused = Kept(source)
    BY <1>1, <2>2, <2>6 DEF Contexts
  <2>8. context' = after
    BY <2>3 DEF Stage
  <2>9. ASSUME Kept(source) = <<>>, FoundIn(context.raw) # {}
        PROVE  \E i \in FoundIn(context.raw) : Estimate(i) > BudgetTokens
    <3>1. n = 0
      BY <2>6, <2>9
    <3>2. source # <<>> /\ Estimate(source[1]) > BudgetTokens
      BY <2>4, <2>5, <2>9, <3>1
    <3>3. 1 \in DOMAIN source
      BY <2>4, <3>2
    <3>4. source[1] \in ToSet(source)
      BY <3>3 DEF ToSet
    <3>5. QED  BY <2>4, <3>2, <3>4 DEF Ranks
  <2>10. Trimmed'
    BY <2>5, <2>7, <2>8, <2>9 DEF Trimmed
  <2>11. Ranks(after.fused, after.raw)
    BY <2>6, <2>7
  <2>12. QED  BY <2>3, <2>7, <2>10, <2>11, StageKeeps
<1>10. CASE Materialize
  <2>1. recalled' = [given |-> TRUE, items |-> Ranking] /\ UNCHANGED <<context, ran, lastRan>>
    BY <1>10 DEF Materialize, Ranking
  <2>2. Ranking \in Seq(Found)
    BY RankingRanks
  <2>3. RecallTypeOK'
    BY <2>1, <2>2 DEF RecallInv, RecallTypeOK
  <2>4. Trimmed' = Trimmed /\ Ranks(context'.fused, context'.raw)
    BY <1>2, <2>1 DEF Trimmed
  <2>5. recalled'.items = IF context'.fused # <<>> THEN context'.fused ELSE Flat(context'.raw)
    BY <2>1 DEF Ranking
  <2>6. "retrieval" \notin ran' => context'.raw = <<>>
    BY <2>1 DEF RecallInv
  <2>7. lastRan' = "budget" => Trimmed'
    BY <2>1, <2>4 DEF RecallInv
  <2>8. QED  BY <2>3, <2>4, <2>5, <2>6, <2>7 DEF RecallInv
<1>11. CASE UNCHANGED recallVars
  <2>1. context' = context /\ ran' = ran /\ lastRan' = lastRan /\ recalled' = recalled
    BY <1>11 DEF recallVars
  <2>2. Trimmed' = Trimmed /\ RecallTypeOK' = RecallTypeOK
    BY <2>1 DEF Trimmed, RecallTypeOK
  <2>3. QED  BY <2>1, <2>2 DEF RecallInv
<1>12. QED
  BY <1>4, <1>5, <1>6, <1>7, <1>8, <1>9, <1>10, <1>11 DEF RecallNext

LEMMA RecallStarts ==
  ASSUME RecallInit
  PROVE  RecallInv
<1>1. Original \in Queries
  BY RecallAssumption
<1>2. /\ context = NewContext /\ ran = {} /\ lastRan = "none" /\ recalled = NothingYet
  BY DEF RecallInit
<1>3. NewContext \in Contexts
  BY <1>1 DEF NewContext, Contexts
<1>4. RecallTypeOK
  BY <1>2, <1>3 DEF RecallTypeOK, NothingYet
<1>5. context.raw = <<>> /\ context.fused = <<>>
  BY <1>2 DEF NewContext
<1>6. Ranks(context.fused, context.raw)
  BY <1>5 DEF Ranks, IsInjective, ToSet
<1>7. QED  BY <1>2, <1>4, <1>5, <1>6 DEF RecallInv, NothingYet

LEMMA RecallSays ==
  ASSUME RecallInv
  PROVE  AnswerIsRanked
<1> SUFFICES ASSUME recalled.given PROVE AnswerIsRanked
  BY DEF AnswerIsRanked
<1>1. PICK ranked : ranked = recalled.items
  OBVIOUS
<1>2. ranked = Ranking
  BY <1>1 DEF RecallInv, Ranking
<1>3. ranked \in Seq(Found) /\ Ranks(ranked, context.raw)
  BY <1>2, RankingRanks
<1>4. /\ IsInjective(ranked) /\ ToSet(ranked) \subseteq FoundIn(context.raw)
      /\ \A i, j \in Found : \A n \in DOMAIN ranked :
            ranked[n] = j /\ Beats(i, j, context.raw) => \E m \in DOMAIN ranked : m < n /\ ranked[m] = i
  BY <1>3 DEF Ranks
<1> DEFINE place(i) == CHOOSE n \in DOMAIN ranked : ranked[n] = i
<1>5. ASSUME NEW n \in DOMAIN ranked PROVE place(ranked[n]) = n
  <2>1. place(ranked[n]) \in DOMAIN ranked /\ ranked[place(ranked[n])] = ranked[n]
    OBVIOUS
  <2>2. QED  BY <1>4, <2>1 DEF IsInjective
<1>6. ASSUME NEW i \in Found, NEW j \in Found, Beats(i, j, context.raw), j \in ToSet(ranked)
      PROVE  i \in ToSet(ranked) /\ place(i) < place(j)
  <2>1. PICK n \in DOMAIN ranked : ranked[n] = j
    BY <1>6 DEF ToSet
  <2>2. PICK m \in DOMAIN ranked : m < n /\ ranked[m] = i
    BY <1>4, <1>6, <2>1
  <2>3. place(i) = m /\ place(j) = n
    BY <1>5, <2>1, <2>2
  <2> HIDE DEF place
  <2>4. i \in ToSet(ranked)
    BY <2>2 DEF ToSet
  <2>5. QED  BY <2>2, <2>3, <2>4
<1>7. ASSUME lastRan = "budget", context.fused # <<>> PROVE Used(ranked) <= BudgetTokens
  BY <1>2, <1>7 DEF RecallInv, Trimmed, Ranking
<1>8. ASSUME lastRan = "budget", context.fused = <<>>, ranked # <<>>
      PROVE  \E i \in ToSet(ranked) : Estimate(i) > BudgetTokens
  <2>1. ranked = Flat(context.raw) /\ context.raw \in Seq(Seq(Found))
    BY <1>2, <1>8 DEF Ranking, RecallInv, RecallTypeOK, Contexts
  <2>2. ToSet(ranked) = FoundIn(context.raw)
    BY <2>1, FlatRanks
  <2>3. 1 \in DOMAIN ranked
    BY <1>3, <1>8
  <2>4. ToSet(ranked) # {}
    BY <2>3 DEF ToSet
  <2>5. QED  BY <1>8, <2>2, <2>4 DEF RecallInv, Trimmed
<1> HIDE DEF place
<1>9. /\ IsInjective(ranked) /\ ToSet(ranked) \subseteq FoundIn(context.raw)
      /\ \A i, j \in Found : Beats(i, j, context.raw) /\ j \in ToSet(ranked) =>
            i \in ToSet(ranked) /\ place(i) < place(j)
      /\ lastRan = "budget" /\ context.fused # <<>> => Used(ranked) <= BudgetTokens
      /\ lastRan = "budget" /\ context.fused = <<>> /\ ranked # <<>> =>
            \E i \in ToSet(ranked) : Estimate(i) > BudgetTokens
  BY <1>4, <1>6, <1>7, <1>8
<1>10. QED  BY <1>1, <1>9 DEF AnswerIsRanked, place

\* Whatever stages a pipeline has and whichever of them fail, the answer holds each text
\* once, a text that beats another in every list comes before it, and a last budget is
\* kept (RecallPipeline.recall).
THEOREM RecallCorrect == RecallSpec => []AnswerIsRanked
<1>1. RecallInit => RecallInv
  BY RecallStarts
<1>2. RecallInv /\ [RecallNext]_recallVars => RecallInv'
  BY RecallStep
<1>3. RecallInv => AnswerIsRanked
  BY RecallSays
<1>4. QED  BY <1>1, <1>2, <1>3, PTL DEF RecallSpec
=============================================================================
