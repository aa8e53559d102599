---------------------------- MODULE SkillManager ----------------------------
(*******************************************************************************)
(* Skills of the assistant: SkillManager, its catalog and skills.yaml, the     *)
(* MCPToolset with its clients and their server processes, the agents that     *)
(* were built with its tools, and the OAuth login of a skill.                  *)
(*                                                                             *)
(* A call is one use of a skill tool by the language model.  It runs as a      *)
(* coroutine; others run wherever it awaits a server, a login or a process.    *)
(* Reading and writing skills.yaml is synchronous.  A read may fail, for once  *)
(* or until somebody repairs the file; so may a write, which truncates the     *)
(* file first.  A call that is cancelled (the turn was stopped) leaves         *)
(* everything as it stands: the handlers of the code catch Exception, which a  *)
(* cancellation is not.                                                        *)
(*                                                                             *)
(* A client is the skill and the call that made it.                            *)
(*******************************************************************************)
EXTENDS Naturals, FiniteSets

CONSTANTS Skills,       \* the catalog
          OAuthSkills,  \* those with an auth_command
          Calls,        \* bound of the run
          Boot,         \* start_all, which makes clients too
          None,
          MaxRestarts   \* bound of the run

ASSUME SkillAssumption ==
    /\ OAuthSkills \subseteq Skills
    /\ Boot \notin Calls /\ None \notin Calls /\ MaxRestarts \in Nat

VARIABLES yaml,       \* skills that skills.yaml has an entry for
          lost,       \* history: skills whose entry a write for another one
                      \* dropped, or is not what their own last write was for
          clients,    \* MCPToolset.clients
          procs,      \* the clients whose server process runs
          tools,      \* the clients whose tools MCPToolset offers
          cached,     \* those whose tools the cached agents hold, or None
          creds,      \* the skills whose stored tokens work
          pending,    \* the login flow of the pending file of each skill
          codes,      \* login flows the user has approved
          logins,     \* calls whose auth_command runs
          call,       \* where each call is, see NoCall
          restarts,
          told,       \* history: what the last call on a skill reported
          disturbed   \* history: skills of overlapping or cancelled calls

login   == <<creds, pending, codes, logins>>
toolset == <<clients, procs, tools, cached>>
file    == <<yaml, lost>>
history == <<told, disturbed>>
vars    == <<yaml, lost, clients, procs, tools, cached, creds, pending, codes, logins,
             call, restarts, told, disturbed>>

NoCall == [pc |-> "new", op |-> "install", skill |-> None,
           flow |-> None,    \* of the pasted URL
           todo |-> {},      \* servers of skills.yaml still to add
           touches |-> {}]   \* skills it works on

Over     == {"new", "done"}
UnderWay == {c \in Calls : call[c].pc \notin Over}

HasServer(s) == \E k \in clients : k[1] = s
Client(c)    == <<call[c].skill, c>>
OfSkill(s)   == {k \in clients : k[1] = s}

Init ==
    /\ yaml = {} /\ lost = {}
    /\ clients = {} /\ procs = {} /\ tools = {} /\ cached = None
    /\ creds = {} /\ pending = [s \in Skills |-> None] /\ codes = {} /\ logins = {}
    /\ call = [c \in Calls |-> NoCall]
    /\ restarts = 0
    /\ told = [s \in Skills |-> "nothing"] /\ disturbed = {}

Become(c, t) == call' = [call EXCEPT ![c] = t]
Goto(c, l)   == Become(c, [call[c] EXCEPT !.pc = l])
End(c)       == Become(c, [NoCall EXCEPT !.pc = "done"])

(*******************************************************************************)
(* skills.yaml.  A write for skill s is to keep its entry or to drop it.       *)
(*******************************************************************************)
Rewrite(s, keep, entries) ==
    /\ yaml' = entries
    /\ lost' = {r \in Skills : IF r = s THEN (s \in entries) # keep
                               ELSE r \in lost \/ r \in yaml \ entries}

\* _read_yaml starts afresh when it cannot read the file.
Readings == {yaml, {}}

\* _persist_skill_to_yaml
Persist(s) == \E read \in Readings : Rewrite(s, TRUE, read \cup {s})

\* _remove_skill_from_yaml writes only if it has read the entry.
Remove(s) ==
    \E read \in Readings : Rewrite(s, FALSE, IF s \in read THEN read \ {s} ELSE yaml)

\* They raise: before the file is touched (it may not be a mapping), or with what
\* was written of it until then.
WriteFails(s, keep) ==
    \/ Rewrite(s, keep, yaml)
    \/ /\ keep \/ s \in yaml
       /\ \E cut \in SUBSET Skills :
             Rewrite(s, keep, (IF keep THEN yaml \cup {s} ELSE yaml \ {s}) \ cut)

\* What the model tells the user, and what it has to forget when it asks again.
Report(s, what) == told' = [told EXCEPT ![s] = what]

Begin(touches) ==
    /\ disturbed' = disturbed \cup (touches \cap UNION {call[c].touches : c \in UnderWay})
    /\ told' = [s \in Skills |-> IF s \in touches THEN "nothing" ELSE told[s]]

(*******************************************************************************)
(* MCPToolset.add_server puts the client in the list, then starts its server   *)
(* and asks for its tools.                                                     *)
(*******************************************************************************)
\* Mutant: a skill that is there already is added again.
AddServerTwice(c, t) ==
    /\ clients' = clients \cup {<<t.skill, c>>}
    /\ Become(c, [t EXCEPT !.pc = "starting"])

AddServer(c, t) ==
    /\ ~HasServer(t.skill)
    /\ clients' = clients \cup {<<t.skill, c>>}
    /\ Become(c, [t EXCEPT !.pc = "starting"])

(*******************************************************************************)
(* MCPToolset.remove_server takes the client and its tools out, then stops     *)
(* the server.                                                                 *)
(*******************************************************************************)
RemoveServer(c, t) ==
    /\ HasServer(t.skill)
    /\ \E k \in OfSkill(t.skill) :
          /\ clients' = clients \ {k} /\ tools' = tools \ {k}
          /\ Become(c, [t EXCEPT !.pc = "stopping", !.flow = k])

(*******************************************************************************)
(* install_skill.  Everything is checked, the entry is written, and then the   *)
(* server is started.                                                          *)
(*******************************************************************************)
Install(c, s) ==
    LET t == [NoCall EXCEPT !.op = "install", !.skill = s, !.touches = {s}] IN
    /\ call[c].pc = "new" /\ Begin({s})
    /\ \/ Persist(s) /\ AddServer(c, t)
       \/ ~HasServer(s) /\ WriteFails(s, TRUE) /\ End(c) /\ UNCHANGED clients
       \/ End(c) /\ UNCHANGED <<file, clients>>   \* a check
    /\ UNCHANGED <<procs, tools, cached, login, restarts>>

Uninstall(c, s) ==
    LET t == [NoCall EXCEPT !.op = "uninstall", !.skill = s, !.touches = {s}] IN
    /\ call[c].pc = "new" /\ Begin({s})
    /\ \/ RemoveServer(c, t)
       \/ ~HasServer(s) /\ End(c) /\ UNCHANGED <<clients, tools>>
    /\ UNCHANGED <<file, procs, cached, login, restarts>>

\* reauth_skill stops the server, so that it lets go of its token file.
Reauth(c, s) ==
    LET t == [NoCall EXCEPT !.op = "reauth", !.skill = s, !.touches = {s}] IN
    /\ call[c].pc = "new" /\ s \in OAuthSkills /\ Begin({s})
    /\ \/ RemoveServer(c, t)
       \/ /\ ~HasServer(s)
          /\ Become(c, [t EXCEPT !.pc = "killing"])
          /\ UNCHANGED <<clients, tools>>
    /\ UNCHANGED <<file, procs, cached, login, restarts>>

\* _kill_stale_auth_procs: the logins that do not have the name of the skill in
\* their command stay.
OtherLogins(s) == {d \in logins : call[d].skill # s /\ pending[s] # d}

\* Logins of the same skill are killed; then the login starts a flow of its own.
StartLogin(c) ==
    LET s == call[c].skill IN
    /\ call[c].pc = "killing"
    /\ logins' = OtherLogins(s) \cup {c}
    /\ pending' = [pending EXCEPT ![s] = c]
    /\ Goto(c, "authorizing")
    /\ UNCHANGED <<file, toolset, creds, codes, restarts, history>>

\* The user logs in with the page of a flow, now or much later, on any device.
Approve(f) ==
    /\ \E s \in OAuthSkills : pending[s] = f
    /\ codes' = codes \cup {f}
    /\ UNCHANGED <<file, toolset, creds, pending, logins, call, restarts, history>>

\* The callback reached the login process: it has the tokens.
Exchange(s, f) ==
    /\ codes' = codes \ {f} /\ creds' = creds \cup {s}
    /\ pending' = [pending EXCEPT ![s] = None]

\* The tokens are there: render the configuration and add the server anew.
Respawn(c) ==
    \/ AddServer(c, call[c])
    \/ End(c) /\ UNCHANGED clients   \* not rendered, or added meanwhile

LoginSucceeds(c) ==
    /\ call[c].pc = "authorizing" /\ c \in logins \cap codes
    /\ Exchange(call[c].skill, c) /\ logins' = logins \ {c}
    /\ Respawn(c)
    /\ UNCHANGED <<file, procs, tools, cached, restarts, history>>

\* It was killed, refused, or its time is over.
LoginFails(c) ==
    /\ call[c].pc = "authorizing"
    /\ End(c) /\ logins' = logins \ {c}
    /\ UNCHANGED <<file, toolset, creds, pending, codes, restarts, history>>

\* complete_oauth: the URL the user pasted belongs to some flow of the skill.
Complete(c, s, f) ==
    LET t == [NoCall EXCEPT !.op = "complete", !.skill = s, !.touches = {s}] IN
    /\ call[c].pc = "new" /\ s \in OAuthSkills /\ Begin({s})
    /\ \/ /\ pending[s] = f /\ f \in codes
          /\ Exchange(s, f)
          /\ \/ RemoveServer(c, t)
             \/ AddServer(c, t) /\ UNCHANGED tools
             \/ End(c) /\ UNCHANGED <<clients, tools>>
       \/ End(c) /\ UNCHANGED <<clients, tools, creds, pending, codes>>
    /\ UNCHANGED <<file, procs, cached, logins, restarts>>

\* Tokens expire, and the service may refuse to refresh them.
Expire(s) ==
    /\ s \in creds /\ creds' = creds \ {s}
    /\ UNCHANGED <<file, toolset, pending, codes, logins, call, restarts, history>>

(*******************************************************************************)
(* reload_skills adds, one after the other, the servers of skills.yaml that    *)
(* the toolset does not have.  The user may have edited the file; it raises if *)
(* that cannot be read.                                                        *)
(*******************************************************************************)
Reload(c) ==
    /\ call[c].pc = "new"
    /\ \/ Begin({}) /\ End(c)
       \/ /\ Begin(yaml)
          /\ Become(c, [NoCall EXCEPT !.pc = "reloading", !.op = "reload",
                                      !.todo = yaml, !.touches = yaml])
    /\ UNCHANGED <<file, toolset, login, restarts>>

ReloadNext(c) ==
    /\ call[c].pc = "reloading"
    /\ \/ \E s \in call[c].todo :
             LET t == [call[c] EXCEPT !.skill = s, !.todo = @ \ {s}] IN
             \/ AddServer(c, t)
             \/ HasServer(s) /\ Become(c, t) /\ UNCHANGED clients
       \/ call[c].todo = {} /\ End(c) /\ UNCHANGED clients
    /\ UNCHANGED <<file, procs, tools, cached, login, restarts, history>>

EditYaml(s) ==
    /\ s \notin yaml /\ Begin({s})
    /\ Rewrite(s, TRUE, yaml \cup {s})
    /\ UNCHANGED <<toolset, login, call, restarts>>

\* _notify_listeners: the handler drops its cached agents.
Notify == cached' = None

(*******************************************************************************)
(* The server starts and lists its tools; they are added, the listener drops   *)
(* the cached agents, and the call reports; after a login it writes the entry  *)
(* first, and only warns if that fails.                                        *)
(*******************************************************************************)
StartServer(c) ==
    /\ call[c].pc = "starting"
    /\ call[c].skill \in OAuthSkills => call[c].skill \in creds
    /\ procs' = procs \cup {Client(c)}
    /\ Goto(c, "listing")
    /\ UNCHANGED <<file, clients, tools, cached, login, restarts, history>>

ListTools(c) ==
    LET s == call[c].skill IN
    /\ call[c].pc = "listing"
    /\ tools' = tools \cup {Client(c)} /\ Notify
    /\ CASE call[c].op = "reload"  -> Goto(c, "reloading") /\ UNCHANGED <<file, told>>
         [] call[c].op = "install" -> End(c) /\ Report(s, "installed") /\ UNCHANGED file
         [] OTHER -> /\ End(c) /\ Report(s, "installed")
                     /\ Persist(s) \/ WriteFails(s, TRUE)
    /\ UNCHANGED <<clients, procs, login, restarts, disturbed>>

\* add_server raises; install_skill takes its entry out of the file again.
AddFailed(c) ==
    CASE call[c].op = "reload"  -> Goto(c, "reloading") /\ UNCHANGED file
      [] call[c].op = "install" -> /\ End(c)
                                   /\ Remove(call[c].skill) \/ WriteFails(call[c].skill, FALSE)
      [] OTHER                  -> End(c) /\ UNCHANGED file

StartFails(c) ==
    /\ call[c].pc = "starting"
    /\ clients' = clients \ {Client(c)}
    /\ AddFailed(c)
    /\ UNCHANGED <<procs, tools, cached, login, restarts, history>>

ListingFails(c) ==
    /\ call[c].pc = "listing"
    /\ clients' = clients \ {Client(c)}
    /\ Goto(c, "undoing")
    /\ UNCHANGED <<file, procs, tools, cached, login, restarts, history>>

Undo(c) ==
    /\ call[c].pc = "undoing"
    /\ procs' = procs \ {Client(c)}
    /\ AddFailed(c)
    /\ UNCHANGED <<clients, tools, cached, login, restarts, history>>

AfterStop(c) ==
    LET s == call[c].skill IN
    \/ /\ call[c].op = "uninstall" /\ UNCHANGED clients
       /\ \/ Remove(s) /\ Report(s, "uninstalled") /\ End(c)
          \/ WriteFails(s, FALSE) /\ End(c) /\ UNCHANGED told
    \/ call[c].op = "reauth" /\ Goto(c, "killing") /\ UNCHANGED <<file, clients, told>>
    \/ call[c].op = "complete" /\ Respawn(c) /\ UNCHANGED <<file, told>>

StopServer(c) ==
    /\ call[c].pc = "stopping"
    /\ procs' = procs \ {call[c].flow}
    /\ Notify /\ AfterStop(c)
    /\ UNCHANGED <<tools, login, restarts, disturbed>>

\* A turn builds its agent with the tools of the moment (RyuuHandler._get_agent).
BuildAgent ==
    /\ cached = None /\ cached' = tools
    /\ UNCHANGED <<file, clients, procs, tools, login, call, restarts, history>>

\* The turn of the call is stopped.  A server it was starting or stopping may
\* run or not, and the process of a login lives on.
Cancel(c) ==
    /\ c \in UnderWay
    /\ disturbed' = disturbed \cup call[c].touches
    /\ End(c)
    /\ \/ UNCHANGED procs
       \/ call[c].pc = "starting" /\ procs' = procs \cup {Client(c)}
       \/ call[c].pc = "stopping" /\ procs' = procs \ {call[c].flow}
    /\ UNCHANGED <<file, clients, tools, cached, login, restarts, told>>

LoginAlone(c) ==
    /\ c \in logins \ UnderWay
    /\ logins' = logins \ {c}
    /\ \/ \E s \in Skills : pending[s] = c /\ c \in codes /\ Exchange(s, c)
       \/ UNCHANGED <<creds, pending, codes>>
    /\ UNCHANGED <<file, toolset, call, restarts, history>>

(*******************************************************************************)
(* The bot ends, and its servers with it.  A new one reads skills.yaml and     *)
(* start_all starts what it can; a client that fails to start stays in the     *)
(* list.  It does not start with a file that it cannot read.                   *)
(*******************************************************************************)
Restart ==
    LET booted == {<<s, Boot>> : s \in yaml} IN
    /\ restarts < MaxRestarts
    /\ restarts' = restarts + 1
    /\ clients' = booted
    /\ \E up \in SUBSET {k \in booted : k[1] \in OAuthSkills => k[1] \in creds} :
          procs' = up /\ \E listed \in SUBSET up : tools' = listed
    /\ cached' = None
    /\ call' = [c \in Calls |-> IF c \in UnderWay THEN [NoCall EXCEPT !.pc = "done"]
                                ELSE call[c]]
    /\ UNCHANGED <<file, login, history>>

\* The tools of SkillManagerToolset, which the model may call with any skill and
\* any arguments; the two that list skills change nothing.
ManageTool(c) ==
    \/ Reload(c)
    \/ \E s \in Skills : Install(c, s) \/ Uninstall(c, s)

LoginTool(c) ==
    \E s \in Skills : \/ Reauth(c, s)
                      \/ \E f \in Calls : Complete(c, s, f)

Step(c) ==
    \/ ManageTool(c) \/ LoginTool(c)
    \/ StartLogin(c) \/ LoginSucceeds(c) \/ LoginFails(c) \/ ReloadNext(c)
    \/ StartServer(c) \/ ListTools(c) \/ StartFails(c) \/ ListingFails(c)
    \/ Undo(c) \/ StopServer(c) \/ Cancel(c)

Next ==
    \/ \E c \in Calls : Step(c) \/ Approve(c) \/ LoginAlone(c)
    \/ \E s \in Skills : Expire(s) \/ EditYaml(s)
    \/ BuildAgent \/ Restart

Spec == Init /\ [][Next]_vars

-----------------------------------------------------------------------------
\* A skill has one client at most, however calls overlap or are cancelled: two
\* would answer to the same tool names, and only one could be uninstalled
\* (has_server and the append of MCPToolset.add_server have no await between).
OneClientPerSkill == \A j, k \in clients : j[1] = k[1] => j = k

\* Between calls, tools and server processes belong to clients of the list, and
\* a login or installation that failed half-way has left none behind: for a
\* skill whose calls did not overlap and were not cut off, whatever calls on
\* other skills did meanwhile (add_server's rollback, remove_server).
NothingLeftBehind ==
    \A k \in tools \cup procs :
        \/ k \in clients
        \/ k[1] \in disturbed
        \/ \E c \in UnderWay : k[1] \in call[c].touches

\* What a call reported is what skills.yaml says, across restarts, failed calls
\* and interleaved calls on other skills, until the next call on the skill: an
\* installed skill comes back with the next start and an uninstalled one does
\* not (_persist_skill_to_yaml, _remove_skill_from_yaml).  It is otherwise only
\* where a write for the skill failed under a login that reports success all the
\* same, a removal could not read the file, or a write for another skill was cut
\* off or started afresh from a file that could not be read.
ReportIsPersisted ==
    \A s \in Skills \ disturbed :
        /\ told[s] = "installed" => s \in lost \/ s \in yaml
        /\ told[s] = "uninstalled" => s \in lost \/ (s \notin yaml /\ ~HasServer(s))

\* What is left of a call, done or undone, is what it reported: in the processes and
\* tools and in skills.yaml (both of the above).
CallsLeaveWhatTheySay == NothingLeftBehind /\ ReportIsPersisted

\* A cached agent holds the tools the toolset offers, no others and no fewer,
\* but while a server is being stopped: an agent built before an installation
\* would go on without its tools (add_listener, _on_mcp_tools_changed).
CachedAgentIsCurrent ==
    cached # None =>
        \A k \in (cached \ tools) \cup (tools \ cached) :
            \/ k[1] \in disturbed
            \/ \E c \in UnderWay : call[c].pc = "stopping" /\ call[c].skill = k[1]

\* Clients, tools, skills.yaml and the cached agent agree, and with what the calls
\* reported (the three of them).
SkillsAgree == OneClientPerSkill /\ CallsLeaveWhatTheySay /\ CachedAgentIsCurrent
=============================================================================
