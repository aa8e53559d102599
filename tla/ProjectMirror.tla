---------------------------- MODULE ProjectMirror ----------------------------
(********************************************************************************)
(* External projects of the evaluation API (ryuu_eval/http/router.py): suites   *)
(* that another deployment serves, a snapshot of their list in a file, and      *)
(* the copy of their cases that POST /projects/{id}/sync makes.                 *)
(*                                                                              *)
(* One external project.  A request waits for each answer of the remote one,    *)
(* which changes, goes away and comes back meanwhile; what it does with an      *)
(* answer is one step.  A case is known by its suite and its id; what is in     *)
(* it is left out, and so is metadata other than its source.                    *)
(********************************************************************************)
EXTENDS Naturals, FiniteSets

CONSTANTS
    RemoteSuites, \* suite ids of the external project
    RemoteIds,    \* case ids
    Visitors,     \* requests that are under way at a time
    MaxEdits,     \* bound: changes on the other side and by local users
    MaxVisits,    \* bound: requests
    Unknown

ASSUME ProjectMirrorAssumption ==
    /\ MaxEdits \in Nat /\ MaxVisits \in Nat
    /\ Unknown \notin RemoteSuites

VARIABLES
    remote,  \* the other deployment: whether it answers, its suites and cases
    served,  \* history: every list of suites it has had
    cached,  \* projects/<id>.json: a list of suites, or Unknown
    local,   \* case files in cases_dir: "none", "ui" or "remote"
    visit,   \* the requests
    edits, visits

mirrorVars == <<remote, served, cached, local, visit, edits, visits>>

-----------------------------------------------------------------------------
CaseKeys == RemoteSuites \X RemoteIds
NoVisit == [op |-> "none", suite |-> Unknown, overwrite |-> FALSE, at |-> "start",
            reply |-> Unknown, answer |-> Unknown,
            left |-> {}, synced |-> {}, errors |-> {}, fetched |-> {}, seen |-> {}]

MirrorInit ==
    /\ remote = [up |-> TRUE, suites |-> RemoteSuites, cases |-> [s \in RemoteSuites |-> {}]]
    /\ served = {RemoteSuites}
    /\ cached = Unknown
    /\ local = [k \in CaseKeys |-> "none"]
    /\ visit = [v \in Visitors |-> NoVisit]
    /\ edits = 0 /\ visits = 0

-----------------------------------------------------------------------------
(* The other deployment and the users of this one.                              *)

Edit ==
    /\ edits < MaxEdits
    /\ edits' = edits + 1
    /\ UNCHANGED visits

RemoteGoesOrComes ==
    /\ Edit
    /\ remote' = [remote EXCEPT !.up = ~@]
    /\ UNCHANGED <<served, cached, local, visit>>

RemoteSuiteChanges(s) ==
    LET suites == IF s \in remote.suites THEN remote.suites \ {s} ELSE remote.suites \cup {s}
    IN  /\ Edit
        /\ remote' = [remote EXCEPT !.suites = suites, !.cases[s] = {}]
        /\ served' = served \cup {suites}
        /\ visit' = [v \in Visitors |-> IF visit[v].op = "none" THEN NoVisit
                                         ELSE [visit[v] EXCEPT !.seen = @ \cup {suites}]]
        /\ UNCHANGED <<cached, local>>

RemoteCaseAdded(s, i) ==
    /\ s \in remote.suites /\ Edit
    /\ remote' = [remote EXCEPT !.cases[s] = @ \cup {i}]
    /\ UNCHANGED <<served, cached, local, visit>>

\* A case is created or deleted here; a deleted one is no business of a sync.
LocalCaseChanges(k) ==
    /\ Edit
    /\ local' = [local EXCEPT ![k] = IF @ = "none" THEN "ui" ELSE "none"]
    /\ visit' = [v \in Visitors |-> [visit[v] EXCEPT !.fetched = @ \ {k}]]
    /\ UNCHANGED <<remote, served, cached>>

-----------------------------------------------------------------------------
(* The requests.                                                                *)

Visit(v) ==
    /\ visit[v] = NoVisit /\ visits < MaxVisits
    /\ visits' = visits + 1
    /\ \E op \in {"project", "suite", "sync"}, s \in RemoteSuites \cup {Unknown}, sure \in BOOLEAN :
          /\ (sure => op = "sync") /\ (op = "suite" <=> s # Unknown)
          /\ visit' = [visit EXCEPT ![v] = [NoVisit EXCEPT
                !.op = op, !.suite = s, !.overwrite = sure, !.at = "list",
                !.seen = {remote.suites}]]
    /\ UNCHANGED <<remote, served, cached, local, edits>>

\* The suite whose cases a sync asks for next, in the order of the list.
NextSuite(v) == CHOOSE s \in visit[v].left : TRUE

\* What the other deployment says: its suites, one of them, or the cases of one;
\* Unknown when it cannot be reached or answers with an error.
RemoteReplies(v) ==
    /\ visit[v].reply = Unknown
    /\ \/ visit[v].at = "list"
       \/ visit[v].at = "cases" /\ visit[v].left # {}
    /\ visit' = [visit EXCEPT
          ![v].reply = IF ~remote.up THEN [ok |-> FALSE, set |-> {}]
                       ELSE [ok |-> TRUE, set |-> IF visit[v].at = "list" THEN remote.suites
                                                  ELSE remote.cases[NextSuite(v)]]]
    /\ UNCHANGED <<remote, served, cached, local, edits, visits>>

MirrorAnswers(v, code, stale, suites) ==
    visit' = [visit EXCEPT ![v].at = "done",
                           ![v].answer = [code |-> code, stale |-> stale, suites |-> suites]]

\* _write_project_cache is best effort; a write that fails leaves half a file.
WriteProjectCache(suites) == cached' \in {suites, cached, Unknown}

\* {**cached, "stale": True}
ServeCached(v) == MirrorAnswers(v, 200, TRUE, cached)

GetProject(v) ==
    /\ visit[v].op = "project" /\ visit[v].at = "list" /\ visit[v].reply # Unknown
    /\ \/ /\ visit[v].reply.ok
          /\ WriteProjectCache(visit[v].reply.set)
          /\ MirrorAnswers(v, 200, FALSE, visit[v].reply.set)
       \/ /\ ~visit[v].reply.ok /\ cached # Unknown
          /\ ServeCached(v)
          /\ UNCHANGED cached
       \/ /\ ~visit[v].reply.ok /\ cached = Unknown
          /\ MirrorAnswers(v, 502, FALSE, {})
          /\ UNCHANGED cached
    /\ UNCHANGED <<remote, served, local, edits, visits>>

GetProjectSuite(v) ==
    LET here == visit[v].suite \in visit[v].reply.set
        kept == cached # Unknown /\ visit[v].suite \in cached
    IN  /\ visit[v].op = "suite" /\ visit[v].at = "list" /\ visit[v].reply # Unknown
        /\ \/ /\ visit[v].reply.ok
              /\ MirrorAnswers(v, IF here THEN 200 ELSE 404, FALSE, visit[v].reply.set)
           \/ ~visit[v].reply.ok /\ kept /\ ServeCached(v)
           \/ ~visit[v].reply.ok /\ ~kept /\ MirrorAnswers(v, 502, FALSE, {})
        /\ UNCHANGED <<remote, served, cached, local, edits, visits>>

\* sync_project up to the first suite.
SyncList(v) ==
    /\ visit[v].op = "sync" /\ visit[v].at = "list" /\ visit[v].reply # Unknown
    /\ \/ /\ ~visit[v].reply.ok
          /\ MirrorAnswers(v, 502, FALSE, {})
          /\ UNCHANGED cached
       \/ /\ visit[v].reply.ok
          /\ WriteProjectCache(visit[v].reply.set)
          /\ visit' = [visit EXCEPT ![v].at = "cases", ![v].left = visit[v].reply.set,
                                    ![v].reply = Unknown]
    /\ UNCHANGED <<remote, served, local, edits, visits>>

\* Mutant of Copied: nothing new is written unless overwrite is set.
CopiedIfSure(v, s) ==
    [k \in CaseKeys |->
        IF k[1] = s /\ k[2] \in visit[v].reply.set /\ visit[v].overwrite
        THEN "remote" ELSE local[k]]

\* The cases of a suite are written, unless there is one and overwrite is not set.
Copied(v, s) ==
    [k \in CaseKeys |->
        IF k[1] = s /\ k[2] \in visit[v].reply.set /\ (local[k] = "none" \/ visit[v].overwrite)
        THEN "remote" ELSE local[k]]

\* One suite of the list; its failure is noted and the next one is tried.
SyncSuite(v) ==
    LET s == NextSuite(v)
        gone == [visit[v] EXCEPT !.left = @ \ {s}, !.reply = Unknown]
    IN  /\ visit[v].at = "cases" /\ visit[v].reply # Unknown
        /\ \/ /\ ~visit[v].reply.ok
              /\ visit' = [visit EXCEPT ![v] = [gone EXCEPT !.errors = @ \cup {s}]]
              /\ UNCHANGED local
           \/ /\ visit[v].reply.ok
              /\ local' = Copied(v, s)
              /\ visit' = [visit EXCEPT ![v] = [gone EXCEPT !.synced = @ \cup {s},
                               !.fetched = @ \cup {s} \X visit[v].reply.set]]
        /\ UNCHANGED <<remote, served, cached, edits, visits>>

SyncEnds(v) ==
    /\ visit[v].at = "cases" /\ visit[v].left = {}
    /\ MirrorAnswers(v, 200, FALSE, visit[v].synced)
    /\ UNCHANGED <<remote, served, cached, local, edits, visits>>

Leave(v) ==
    /\ visit[v].at = "done"
    /\ visit' = [visit EXCEPT ![v] = NoVisit]
    /\ UNCHANGED <<remote, served, cached, local, edits, visits>>

MirrorNext ==
    \/ RemoteGoesOrComes
    \/ \E s \in RemoteSuites : RemoteSuiteChanges(s) \/ \E i \in RemoteIds : RemoteCaseAdded(s, i)
    \/ \E k \in CaseKeys : LocalCaseChanges(k)
    \/ \E v \in Visitors : \/ Visit(v) \/ RemoteReplies(v) \/ GetProject(v)
                           \/ GetProjectSuite(v) \/ SyncList(v) \/ SyncSuite(v)
                           \/ SyncEnds(v) \/ Leave(v)

MirrorSpec == MirrorInit /\ [][MirrorNext]_mirrorVars

-----------------------------------------------------------------------------
(* Properties.                                                                  *)

Ok(v) == visit[v].at = "done" /\ visit[v].answer.code = 200

\* A page that is not called stale shows suites the other deployment had while
\* the request ran; one that is shows suites it has had at some time, however
\* requests overtook each other on their way to the snapshot.
StaleIsSaid ==
    \A v \in Visitors : Ok(v) /\ visit[v].op # "sync" =>
        visit[v].answer.suites \in IF visit[v].answer.stale THEN served ELSE visit[v].seen

\* "After a successful sync the project is fully runnable offline": each suite
\* that the report lists has every case that was fetched, one made here in its
\* place, or lost it to a user since; a suite it does not list is an error.
SyncedSuitesAreWhole ==
    \A v \in Visitors : Ok(v) /\ visit[v].op = "sync" =>
        /\ \A k \in visit[v].fetched : local[k] # "none"
        /\ (visit[v].synced \cup visit[v].errors) \in visit[v].seen
        /\ visit[v].synced \cap visit[v].errors = {}

MirrorIsHonest == StaleIsSaid /\ SyncedSuitesAreWhole

=============================================================================
