--------------------------- MODULE ConnectionPool ---------------------------
(*******************************************************************************)
(* The asyncpg pool that all PostgreSQL stores of a process share, one per     *)
(* DSN (get_pool), and the stores' operations as its clients.  The first       *)
(* operation of a store creates its table, on a connection of its own:         *)
(* the key-value, session, profile and state stores before they take one for   *)
(* the statement, a collection store while it holds that one.                  *)
(*******************************************************************************)
EXTENDS Naturals, FiniteSets

CONSTANTS Stores,
          Nested,      \* the collection stores
          Clients,
          PoolSize,    \* max_size
          NoStore

ASSUME PoolAssumption == /\ Nested \subseteq Stores /\ NoStore \notin Stores
                         /\ PoolSize \in Nat \ {0} /\ IsFiniteSet(Clients)

VARIABLES cachedPool,   \* the pool in the cache, 0 for none
          madePools,    \* pools created so far
          tableReady,   \* _ready of each store
          client

poolVars == <<cachedPool, madePools, tableReady, client>>

NoOperation == [pc    |-> "idle",   \* "asking", "creating" (a pool), "waiting" (in acquire),
                                    \* "holding" (a connection)
                store |-> NoStore,
                goal  |-> "none",   \* of the next connection: "ensure" or "work"
                pool  |-> 0,        \* that it has asked for
                held  |-> {}]       \* <<goal, pool>> of each connection it has

PoolInit ==
    /\ cachedPool = 0 /\ madePools = 0
    /\ tableReady = [s \in Stores |-> FALSE]
    /\ client = [c \in Clients |-> NoOperation]

BecomeClient(c, op) == client' = [client EXCEPT ![c] = op]

Connections(p) == {x \in Clients \X {"ensure", "work"} : <<x[2], p>> \in client[x[1]].held}

\* Mutant: every store takes the connection of its statement first.
FirstGoalNested(s) == "work"

\* What an operation wants its first connection for.
FirstGoal(s) == IF s \in Nested \/ tableReady[s] THEN "work" ELSE "ensure"

Start(c) ==
    /\ client[c].pc = "idle"
    /\ \E s \in Stores :
          BecomeClient(c, [NoOperation EXCEPT !.pc = "asking", !.store = s, !.goal = FirstGoal(s)])
    /\ UNCHANGED <<cachedPool, madePools, tableReady>>

\* get_pool: the cached one, or a new one, which takes a while to connect.
AskPool(c) ==
    /\ client[c].pc = "asking"
    /\ BecomeClient(c, [client[c] EXCEPT !.pc = IF cachedPool = 0 THEN "creating" ELSE "waiting",
                                         !.pool = cachedPool])
    /\ UNCHANGED <<cachedPool, madePools, tableReady>>

PoolCreated(c) ==
    /\ client[c].pc = "creating"
    /\ madePools' = madePools + 1 /\ cachedPool' = madePools + 1
    /\ BecomeClient(c, [client[c] EXCEPT !.pc = "waiting", !.pool = madePools + 1])
    /\ UNCHANGED tableReady

\* With a connection for its statement, an operation whose table is not ready asks for
\* another.
Acquire(c) ==
    LET op == client[c]
    IN  /\ op.pc = "waiting" /\ Cardinality(Connections(op.pool)) < PoolSize
        /\ BecomeClient(c, [op EXCEPT
               !.held = @ \union {<<op.goal, op.pool>>},
               !.pc   = IF op.goal = "work" /\ ~tableReady[op.store] THEN "asking" ELSE "holding",
               !.goal = IF op.goal = "work" /\ ~tableReady[op.store] THEN "ensure" ELSE @])
        /\ UNCHANGED <<cachedPool, madePools, tableReady>>

\* The table is there; the statement follows, or the connection for it.
TableEnsured(c) ==
    LET op == client[c]
        holdsAnother == \E h \in op.held : h[1] = "work"
    IN  /\ op.pc = "holding" /\ op.goal = "ensure"
        /\ tableReady' = [tableReady EXCEPT ![op.store] = TRUE]
        /\ BecomeClient(c, [op EXCEPT !.held = {h \in @ : h[1] = "work"},
                                      !.goal = "work",
                                      !.pc   = IF holdsAnother THEN "holding" ELSE "asking"])
        /\ UNCHANGED <<cachedPool, madePools>>

\* The statement is done, or it or the creation of a table fails: every connection goes
\* back.  A caller may also give up.
Finish(c) ==
    /\ client[c].pc \in {"holding", "waiting", "creating"}
    /\ BecomeClient(c, NoOperation)
    /\ UNCHANGED <<cachedPool, madePools, tableReady>>

PoolNext ==
    \E c \in Clients : \/ Start(c) \/ AskPool(c) \/ PoolCreated(c) \/ Acquire(c)
                       \/ TableEnsured(c) \/ Finish(c)

PoolSpec == PoolInit /\ [][PoolNext]_poolVars

-----------------------------------------------------------------------------
Waits(c, p) == client[c].pc = "waiting" /\ client[c].pool = p

\* A pool is exhausted for good when each of its connections is held by an operation
\* that waits for another.  It takes as many overlapping operations of collection stores
\* that found no table as the pool has connections (five), no fewer: no other mix of
\* stores, pools made twice, failures and callers that give up leads there (append,
\* _ensure_table and get_pool).
OnlyFirstUseWedgesPool ==
    \A p \in 1 .. madePools :
        LET holders == {c \in Clients : \E h \in client[c].held : h[2] = p}
            stuck   == /\ Cardinality(Connections(p)) = PoolSize
                       /\ \A c \in holders : Waits(c, p)
        IN  stuck => /\ Cardinality(holders) = PoolSize
                     /\ \A c \in holders : client[c].store \in Nested
=============================================================================
