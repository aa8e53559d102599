------------------------ MODULE SkillManagerProofs ------------------------
(*****************************************************************************)
(* What calls on skills leave behind is what they reported, for any number   *)
(* of skills, calls and restarts.                                            *)
(*                                                                           *)
(* The argument is ownership: a skill that is not disturbed is worked on by  *)
(* one call at most, so that a step of that call is judged by what it does   *)
(* to this skill and to itself (AtSkill), and by what it leaves alone        *)
(* (WorksOn).                                                                *)
(*****************************************************************************)
EXTENDS SkillManager, TLAPS

Keys    == Skills \X (Calls \cup {Boot})
Ops     == {"install", "uninstall", "reauth", "complete", "reload"}
OnSkill == {"starting", "listing", "undoing", "stopping", "killing", "authorizing"}
Awaits  == Over \cup OnSkill \cup {"reloading"}
Records ==
    [pc : Awaits, op : Ops, skill : Skills \cup {None},
     flow : Keys \cup {None}, todo : SUBSET Skills, touches : SUBSET Skills]

SkillTypeOK ==
    /\ yaml \in SUBSET Skills /\ lost \in SUBSET Skills
    /\ clients \in SUBSET Keys /\ procs \in SUBSET Keys /\ tools \in SUBSET Keys
    /\ cached \in (SUBSET Keys) \cup {None}
    /\ creds \in SUBSET Skills /\ pending \in [Skills -> Calls \cup {None}]
    /\ codes \in SUBSET Calls /\ logins \in SUBSET Calls
    /\ call \in [Calls -> Records]
    /\ restarts \in 0 .. MaxRestarts
    /\ told \in [Skills -> {"nothing", "installed", "uninstalled"}]
    /\ disturbed \in SUBSET Skills

\* A call works on a skill that it touches, and a call that is over touches none.
CallOk(c) ==
    /\ call[c].pc \in Over => call[c].touches = {}
    /\ call[c].pc \in OnSkill => call[c].skill \in call[c].touches
    /\ call[c].op = "reload" => call[c].todo \subseteq call[c].touches
    /\ call[c].pc = "reloading" => call[c].op = "reload"
    /\ call[c].pc \in {"stopping", "killing", "authorizing"} =>
         call[c].op \notin {"install", "reload"}
    /\ call[c].pc = "stopping" =>
         call[c].flow \in Keys /\ call[c].flow[1] = call[c].skill

CallsTouch == \A c \in Calls : CallOk(c)

OneCallPerSkill ==
    \A c, d \in Calls : c # d => call[c].touches \cap call[d].touches \subseteq disturbed

\* Call c is taking k away: its skill has left the list.
Takes(c, k) ==
    /\ call[c].skill = k[1]
    /\ \/ call[c].pc = "undoing" /\ k = Client(c)
       \/ call[c].pc = "stopping" /\ k = call[c].flow

Leftovers ==
    \A k \in tools \cup procs :
        k \in clients \/ k[1] \in disturbed \/ \E c \in Calls : Takes(c, k)

\* How far call c has got with its skill.
Progress(c) ==
    /\ call[c].pc = "starting" => Client(c) \in clients \ (procs \cup tools)
    /\ call[c].pc = "listing"  => Client(c) \in clients \ tools
    /\ call[c].pc = "undoing"  => Client(c) \notin tools
    /\ call[c].pc = "stopping" => call[c].flow \notin tools /\ ~HasServer(call[c].skill)
    /\ call[c].pc \in {"starting", "listing"} /\ call[c].op = "install" =>
         call[c].skill \in lost \cup yaml

CallsProgress == \A c \in Calls : call[c].skill \notin disturbed => Progress(c)

NothingToldYet ==
    \A c \in Calls : \A s \in call[c].touches \ disturbed : told[s] = "nothing"

SkillInv ==
    /\ SkillTypeOK /\ CallsTouch /\ OneCallPerSkill /\ OneClientPerSkill /\ Leftovers
    /\ CallsProgress /\ NothingToldYet /\ ReportIsPersisted /\ CachedAgentIsCurrent

\* What holds of skill s when no call but c works on it.
AtSkill(c, s) ==
    /\ \A k \in tools \cup procs : k[1] = s => k \in clients \/ Takes(c, k)
    /\ call[c].skill = s => Progress(c)
    /\ s \in call[c].touches => told[s] = "nothing"
    /\ told[s] = "installed" => s \in lost \/ s \in yaml
    /\ told[s] = "uninstalled" => s \in lost \/ (s \notin yaml /\ ~HasServer(s))
    /\ cached # None =>
         \A k \in (cached \ tools) \cup (tools \ cached) :
             k[1] = s => call[c].pc = "stopping" /\ call[c].skill = s

\* A step of call c.
IsStepOf(c) ==
    /\ call' \in [Calls -> Records]
    /\ \A d \in Calls \ {c} : call'[d] = call[d]

\* The entry of r stays as it is, or is lost.
EntryStays(r) == r \in lost' \/ (r \notin lost /\ (r \in yaml' <=> r \in yaml))

\* What a write for skill s, or a failed one, does to skills.yaml: keep says whether
\* it was to keep the entry.
WritesFor(s, keep) ==
    /\ yaml' \in SUBSET Skills /\ lost' \in SUBSET Skills
    /\ s \notin lost' => (s \in yaml' <=> keep)
    /\ \A r \in Skills : r # s => EntryStays(r)

\* A step of call c on skill s leaves all other skills as they are.
WorksOn(c, s) ==
    /\ IsStepOf(c)
    /\ call[c].pc \in OnSkill => call[c].skill = s
    /\ call'[c].pc \in OnSkill => call'[c].skill = s
    /\ call'[c].touches \subseteq call[c].touches \cup {s}
    /\ disturbed \subseteq disturbed'
    /\ \A d \in Calls \ {c} : s \in call[d].touches => s \in disturbed'
    /\ \A k \in Keys : k[1] # s =>
         /\ k \in clients' <=> k \in clients
         /\ k \in procs' <=> k \in procs
         /\ k \in tools' <=> k \in tools
    /\ \A r \in Skills : r # s => EntryStays(r) /\ told'[r] = told[r]
    /\ cached' = None \/ cached' = cached

-----------------------------------------------------------------------------
\* The fields of the record of a call that goes on at l.
LEMMA GoesOnRecord ==
    ASSUME NEW t \in Records, NEW l \in Awaits
    PROVE  LET u == [t EXCEPT !.pc = l] IN
           /\ u \in Records /\ u.pc = l /\ u.op = t.op /\ u.skill = t.skill
           /\ u.flow = t.flow /\ u.todo = t.todo /\ u.touches = t.touches
BY DEF Records

\* A call that has not begun has a record like the others.
LEMMA NoCallRecord == NoCall \in Records
BY DEF Records, NoCall, Awaits, Over, Ops

\* A call that begins to work on s.
LEMMA BegunRecord ==
    ASSUME NEW op \in Ops, NEW s \in Skills
    PROVE  LET u == [NoCall EXCEPT !.op = op, !.skill = s, !.touches = {s}] IN
           u \in Records /\ u.op = op /\ u.skill = s /\ u.todo = {} /\ u.touches = {s}
BY NoCallRecord DEF Records, NoCall

\* A call that stops the server of client k.
LEMMA StopsRecord ==
    ASSUME NEW t \in Records, NEW k \in Keys
    PROVE  LET u == [t EXCEPT !.pc = "stopping", !.flow = k] IN
           /\ u \in Records /\ u.pc = "stopping" /\ u.op = t.op /\ u.skill = t.skill
           /\ u.flow = k /\ u.todo = t.todo /\ u.touches = t.touches
BY DEF Records, Awaits, OnSkill

\* A reload that goes on with skill s.
LEMMA ReloadRecord ==
    ASSUME NEW t \in Records, NEW s \in t.todo
    PROVE  LET u == [t EXCEPT !.skill = s, !.todo = @ \ {s}] IN
           /\ u \in Records /\ u.pc = t.pc /\ u.op = t.op /\ u.skill = s
           /\ u.todo = t.todo \ {s} /\ u.touches = t.touches
BY DEF Records

\* The record of one call is replaced.
LEMMA BecomeStep ==
    ASSUME SkillTypeOK, NEW c \in Calls, NEW t \in Records, Become(c, t)
    PROVE  IsStepOf(c) /\ call'[c] = t
BY DEF SkillTypeOK, Become, IsStepOf

\* A call that goes on keeps its work.
LEMMA GotoStep ==
    ASSUME SkillTypeOK, NEW c \in Calls, NEW l \in Awaits, Goto(c, l)
    PROVE  /\ IsStepOf(c)
           /\ call'[c].pc = l /\ call'[c].op = call[c].op
           /\ call'[c].skill = call[c].skill /\ call'[c].flow = call[c].flow
           /\ call'[c].todo = call[c].todo /\ call'[c].touches = call[c].touches
<1>1. call[c] \in Records
  BY DEF SkillTypeOK
<1>2. [call[c] EXCEPT !.pc = l] \in Records
  BY <1>1, GoesOnRecord
<1>3. IsStepOf(c) /\ call'[c] = [call[c] EXCEPT !.pc = l]
  BY <1>2, BecomeStep DEF Goto
<1>4. QED  BY <1>1, <1>3, GoesOnRecord

\* A call that ends lets go of everything.
LEMMA EndStep ==
    ASSUME SkillTypeOK, NEW c \in Calls, End(c)
    PROVE  /\ IsStepOf(c)
           /\ call'[c].pc = "done" /\ call'[c].touches = {} /\ call'[c].todo = {}
           /\ CallOk(c)'
<1>1. [NoCall EXCEPT !.pc = "done"] \in Records
  BY NoCallRecord, GoesOnRecord DEF Awaits, Over
<1>2. IsStepOf(c) /\ call'[c] = [NoCall EXCEPT !.pc = "done"]
  BY <1>1, BecomeStep DEF End
<1>3. call'[c].pc = "done" /\ call'[c].touches = {} /\ call'[c].todo = {} /\ call'[c].op = "install"
  BY <1>2 DEF NoCall
<1>4. QED  BY <1>2, <1>3 DEF CallOk, Over, OnSkill

-----------------------------------------------------------------------------
\* A file as it is, or less than the entries it had, with that of s or without it.
LEMMA RewriteStep ==
    ASSUME SkillTypeOK, NEW s \in Skills, NEW keep \in BOOLEAN, NEW entries \in SUBSET Skills,
           entries \subseteq yaml \cup {s}, Rewrite(s, keep, entries)
    PROVE  WritesFor(s, keep)
BY DEF SkillTypeOK, Rewrite, WritesFor, EntryStays

\* _persist_skill_to_yaml, done or failed.
LEMMA PersistStep ==
    ASSUME SkillTypeOK, NEW s \in Skills, Persist(s) \/ WriteFails(s, TRUE)
    PROVE  WritesFor(s, TRUE)
<1>1. CASE Persist(s)
  <2>1. PICK read \in {yaml, {}} : Rewrite(s, TRUE, read \cup {s})
    BY <1>1 DEF Persist, Readings
  <2>2. read \cup {s} \in SUBSET Skills /\ read \cup {s} \subseteq yaml \cup {s}
    BY <2>1 DEF SkillTypeOK
  <2>3. QED  BY <2>1, <2>2, RewriteStep
<1>2. CASE WriteFails(s, TRUE)
  <2>1. PICK entries \in SUBSET Skills :
          entries \subseteq yaml \cup {s} /\ Rewrite(s, TRUE, entries)
    BY <1>2 DEF WriteFails, SkillTypeOK
  <2>2. QED  BY <2>1, RewriteStep
<1>3. QED  BY <1>1, <1>2

\* _remove_skill_from_yaml, done or failed.
LEMMA DropStep ==
    ASSUME SkillTypeOK, NEW s \in Skills, Remove(s) \/ WriteFails(s, FALSE)
    PROVE  WritesFor(s, FALSE)
<1>1. PICK entries \in SUBSET Skills :
        entries \subseteq yaml \cup {s} /\ Rewrite(s, FALSE, entries)
  <2>1. CASE Remove(s)
    BY <2>1 DEF Remove, Readings, SkillTypeOK
  <2>2. CASE WriteFails(s, FALSE)
    BY <2>2 DEF WriteFails, SkillTypeOK
  <2>3. QED  BY <2>1, <2>2
<1>2. QED  BY <1>1, RewriteStep

-----------------------------------------------------------------------------
\* A skill that nobody disturbed and no call but c works on.
LEMMA OwnSkill ==
    ASSUME SkillInv, NEW c \in Calls, NEW s \in Skills \ disturbed,
           \A d \in Calls \ {c} : s \notin call[d].touches
    PROVE  AtSkill(c, s)
<1>1. \A d \in Calls \ {c} : call[d].pc \in OnSkill => call[d].skill # s
  BY DEF SkillInv, CallsTouch, CallOk
<1>2. \A k \in tools \cup procs : k[1] = s => k \in clients \/ Takes(c, k)
  BY <1>1 DEF SkillInv, Leftovers, Takes, OnSkill
<1>3. call[c].skill = s => Progress(c)
  BY DEF SkillInv, CallsProgress
<1>4. s \in call[c].touches => told[s] = "nothing"
  BY DEF SkillInv, NothingToldYet
<1>5. /\ told[s] = "installed" => s \in lost \/ s \in yaml
      /\ told[s] = "uninstalled" => s \in lost \/ (s \notin yaml /\ ~HasServer(s))
  BY DEF SkillInv, ReportIsPersisted
<1>6. cached # None =>
         \A k \in (cached \ tools) \cup (tools \ cached) :
             k[1] = s => call[c].pc = "stopping" /\ call[c].skill = s
  BY <1>1 DEF SkillInv, CachedAgentIsCurrent, OnSkill, UnderWay
<1>7. QED  BY <1>2, <1>3, <1>4, <1>5, <1>6 DEF AtSkill

\* A skill of two calls is disturbed.
LEMMA SharedSkill ==
    ASSUME SkillInv, NEW c \in Calls, NEW s \in call[c].touches,
           NEW d \in Calls \ {c}, s \in call[d].touches
    PROVE  s \in disturbed
BY DEF SkillInv, OneCallPerSkill

\* A step of call c on skill s keeps the invariant if it keeps it at c and s.
LEMMA WorkStep ==
    ASSUME SkillInv, SkillTypeOK', NEW c \in Calls, NEW s \in Skills,
           WorksOn(c, s), CallOk(c)',
           s \notin disturbed' => AtSkill(c, s)',
           \A j, k \in clients' : j[1] = s /\ k[1] = s => j = k
    PROVE  SkillInv'
<1>1. CallsTouch'
  BY DEF SkillInv, CallsTouch, CallOk, WorksOn, IsStepOf
<1>2. OneCallPerSkill'
  BY DEF SkillInv, OneCallPerSkill, WorksOn, IsStepOf
<1>3. OneClientPerSkill'
  BY DEF SkillInv, SkillTypeOK, OneClientPerSkill, WorksOn
<1>4. Leftovers'
  <2> SUFFICES ASSUME NEW k \in tools' \cup procs', k[1] \notin disturbed'
               PROVE  k \in clients' \/ \E d \in Calls : Takes(d, k)'
    BY DEF Leftovers
  <2>1. k \in Keys
    BY DEF SkillTypeOK
  <2>2. CASE k[1] = s
    BY <2>2 DEF AtSkill
  <2>3. CASE k[1] # s
    <3>1. k \in tools \cup procs /\ (k \in clients <=> k \in clients') /\ k[1] \notin disturbed
      BY <2>1, <2>3 DEF WorksOn
    <3>2. CASE k \notin clients
      <4>1. PICK d \in Calls : Takes(d, k)
        BY <3>1, <3>2 DEF SkillInv, Leftovers
      <4>2. d # c
        BY <2>3, <4>1 DEF Takes, WorksOn, OnSkill
      <4>3. Takes(d, k)'
        BY <4>1, <4>2 DEF Takes, Client, WorksOn, IsStepOf
      <4>4. QED  BY <4>3
    <3>3. QED  BY <3>1, <3>2
  <2>4. QED  BY <2>2, <2>3
<1>5. CallsProgress'
  <2> SUFFICES ASSUME NEW d \in Calls, call'[d].skill \notin disturbed' PROVE Progress(d)'
    BY DEF CallsProgress
  <2>1. CASE call'[d].pc \notin OnSkill
    BY <2>1 DEF Progress, OnSkill
  <2>2. CASE d = c /\ call'[d].pc \in OnSkill
    BY <2>2 DEF WorksOn, AtSkill
  <2>3. CASE d # c /\ call'[d].pc \in OnSkill
    <3>1. call'[d] = call[d]
      BY <2>3 DEF WorksOn, IsStepOf
    <3>2. call[d].skill \in call[d].touches /\ call[d].skill \in Skills
      BY <2>3, <3>1 DEF SkillInv, CallsTouch, CallOk, SkillTypeOK, Records
    <3>3. call[d].skill # s /\ call[d].skill \notin disturbed
      BY <2>3, <3>1, <3>2 DEF WorksOn
    <3>4. Progress(d)
      BY <3>3 DEF SkillInv, CallsProgress
    <3>5. Client(d) \in Keys /\ Client(d)[1] # s /\ Client(d)' = Client(d)
      BY <3>1, <3>2, <3>3 DEF Client, Keys
    <3>6. /\ Client(d) \in clients' <=> Client(d) \in clients
          /\ Client(d) \in procs' <=> Client(d) \in procs
          /\ Client(d) \in tools' <=> Client(d) \in tools
      BY <3>5 DEF WorksOn
    <3>7. call[d].pc = "stopping" => (call[d].flow \in tools' <=> call[d].flow \in tools)
      BY <3>3 DEF SkillInv, CallsTouch, CallOk, WorksOn
    <3>8. HasServer(call[d].skill)' <=> HasServer(call[d].skill)
      BY <3>1, <3>3 DEF HasServer, WorksOn, SkillInv, SkillTypeOK
    <3>9. call[d].skill \in lost \cup yaml => call[d].skill \in lost' \cup yaml'
      BY <3>2, <3>3 DEF WorksOn, EntryStays
    <3>10. QED  BY <3>1, <3>4, <3>5, <3>6, <3>7, <3>8, <3>9 DEF Progress
  <2>4. QED  BY <2>1, <2>2, <2>3
<1>6. NothingToldYet'
  <2> SUFFICES ASSUME NEW d \in Calls, NEW r \in call'[d].touches \ disturbed'
               PROVE  told'[r] = "nothing"
    BY DEF NothingToldYet
  <2>1. r \in Skills
    BY DEF SkillTypeOK, Records
  <2>2. CASE r = s
    BY <2>2 DEF WorksOn, IsStepOf, AtSkill
  <2>3. CASE r # s
    <3>1. r \in call[d].touches \ disturbed
      BY <2>3 DEF WorksOn, IsStepOf
    <3>2. QED  BY <2>1, <2>3, <3>1 DEF WorksOn, SkillInv, NothingToldYet
  <2>4. QED  BY <2>2, <2>3
<1>7. ReportIsPersisted'
  <2> SUFFICES ASSUME NEW r \in Skills \ disturbed'
               PROVE  /\ told'[r] = "installed" => r \in lost' \/ r \in yaml'
                      /\ told'[r] = "uninstalled" =>
                           r \in lost' \/ (r \notin yaml' /\ ~HasServer(r)')
    BY DEF ReportIsPersisted
  <2>1. CASE r = s
    BY <2>1 DEF AtSkill
  <2>2. CASE r # s
    <3>1. HasServer(r)' <=> HasServer(r)
      BY <2>2 DEF HasServer, WorksOn, SkillInv, SkillTypeOK
    <3>2. QED  BY <2>2, <3>1 DEF WorksOn, EntryStays, SkillInv, ReportIsPersisted
  <2>3. QED  BY <2>1, <2>2
<1>8. CachedAgentIsCurrent'
  <2> SUFFICES ASSUME cached' # None,
                      NEW k \in (cached' \ tools') \cup (tools' \ cached'),
                      k[1] \notin disturbed'
               PROVE  \E d \in UnderWay' : call'[d].pc = "stopping" /\ call'[d].skill = k[1]
    BY DEF CachedAgentIsCurrent
  <2>1. k \in Keys /\ cached' = cached
    BY DEF SkillTypeOK, WorksOn
  <2>2. CASE k[1] = s
    <3>1. call'[c].pc = "stopping" /\ call'[c].skill = s
      BY <2>2 DEF AtSkill
    <3>2. QED  BY <2>2, <3>1 DEF UnderWay, Over
  <2>3. CASE k[1] # s
    <3>1. k \in (cached \ tools) \cup (tools \ cached) /\ k[1] \notin disturbed
      BY <2>1, <2>3 DEF WorksOn
    <3>2. PICK d \in UnderWay : call[d].pc = "stopping" /\ call[d].skill = k[1]
      BY <2>1, <3>1 DEF SkillInv, CachedAgentIsCurrent
    <3>3. d \in Calls /\ d # c
      BY <2>3, <3>2 DEF UnderWay, WorksOn, OnSkill
    <3>4. QED  BY <3>2, <3>3 DEF UnderWay, WorksOn, IsStepOf
  <2>4. QED  BY <2>2, <2>3
<1>9. QED
  BY <1>1, <1>2, <1>3, <1>4, <1>5, <1>6, <1>7, <1>8 DEF SkillInv

\* A call at work on a skill.
LEMMA AtWork ==
    ASSUME SkillInv, NEW c \in Calls, call[c].pc \in OnSkill
    PROVE  /\ call[c].skill \in Skills /\ call[c].skill \in call[c].touches
           /\ call[c] \in Records /\ Client(c) \in Keys
           /\ \A d \in Calls \ {c} :
                call[c].skill \in call[d].touches => call[c].skill \in disturbed
           /\ call[c].skill \notin disturbed =>
                AtSkill(c, call[c].skill) /\ told[call[c].skill] = "nothing"
<1>1. call[c] \in Records /\ call[c].skill \in call[c].touches /\ call[c].skill \in Skills
  BY DEF SkillInv, SkillTypeOK, CallsTouch, CallOk, Records
<1>2. Client(c) \in Keys
  BY <1>1 DEF Client, Keys
<1>3. \A d \in Calls \ {c} :
        call[c].skill \in call[d].touches => call[c].skill \in disturbed
  BY <1>1, SharedSkill
<1>4. ASSUME call[c].skill \notin disturbed
      PROVE  AtSkill(c, call[c].skill) /\ told[call[c].skill] = "nothing"
  BY <1>1, <1>3, <1>4, OwnSkill DEF SkillInv, NothingToldYet
<1>5. QED  BY <1>1, <1>2, <1>3, <1>4

\* Places of a call that vouch for a client.
Vouching == {"starting", "listing", "undoing", "stopping"}

\* A step that changes no client, process, tool or entry keeps the invariant if the
\* call is at none of those places.
LEMMA QuietStep ==
    ASSUME SkillInv, SkillTypeOK', NEW c \in Calls, IsStepOf(c), CallOk(c)',
           UNCHANGED <<clients, procs, tools, cached, yaml, lost>>,
           call[c].pc \in Vouching => call[c].skill \in disturbed',
           call'[c].pc \notin Vouching,
           disturbed \subseteq disturbed',
           \A d \in Calls \ {c} :
             call'[c].touches \cap call[d].touches \subseteq disturbed',
           \A r \in Skills : told'[r] = told[r] \/ told'[r] = "nothing",
           \A r \in call'[c].touches : told'[r] = "nothing" \/ r \in disturbed'
    PROVE  SkillInv'
<1>1. CallsTouch'
  BY DEF SkillInv, CallsTouch, CallOk, IsStepOf
<1>2. OneCallPerSkill'
  BY DEF SkillInv, OneCallPerSkill, IsStepOf
<1>3. OneClientPerSkill'
  BY DEF SkillInv, OneClientPerSkill
<1>4. Leftovers'
  <2> SUFFICES ASSUME NEW k \in tools \cup procs, k[1] \notin disturbed'
               PROVE  k \in clients \/ \E d \in Calls : Takes(d, k)'
    BY DEF Leftovers
  <2>1. CASE k \notin clients
    <3>1. PICK d \in Calls : Takes(d, k)
      BY <2>1 DEF SkillInv, Leftovers
    <3>2. d # c
      BY <3>1 DEF Takes, Vouching
    <3>3. QED  BY <3>1, <3>2 DEF Takes, Client, IsStepOf
  <2>2. QED  BY <2>1
<1>5. CallsProgress'
  <2> SUFFICES ASSUME NEW d \in Calls, call'[d].skill \notin disturbed' PROVE Progress(d)'
    BY DEF CallsProgress
  <2>1. CASE d = c
    BY <2>1 DEF Progress, Vouching
  <2>2. CASE d # c
    <3>1. call'[d] = call[d] /\ Progress(d)
      BY <2>2 DEF IsStepOf, SkillInv, CallsProgress
    <3>2. QED  BY <3>1 DEF Progress, Client, HasServer
  <2>3. QED  BY <2>1, <2>2
<1>6. NothingToldYet'
  <2> SUFFICES ASSUME NEW d \in Calls, NEW r \in call'[d].touches \ disturbed'
               PROVE  told'[r] = "nothing"
    BY DEF NothingToldYet
  <2>1. r \in Skills
    BY DEF SkillTypeOK, Records
  <2>2. CASE d # c
    <3>1. told[r] = "nothing"
      BY <2>2 DEF IsStepOf, SkillInv, NothingToldYet
    <3>2. QED  BY <2>1, <3>1
  <2>3. QED  BY <2>2
<1>7. ReportIsPersisted'
  BY DEF SkillInv, ReportIsPersisted, HasServer
<1>8. CachedAgentIsCurrent'
  <2> SUFFICES ASSUME cached # None, NEW k \in (cached \ tools) \cup (tools \ cached),
                      k[1] \notin disturbed'
               PROVE  \E d \in UnderWay' : call'[d].pc = "stopping" /\ call'[d].skill = k[1]
    BY DEF CachedAgentIsCurrent
  <2>1. PICK d \in UnderWay : call[d].pc = "stopping" /\ call[d].skill = k[1]
    BY DEF SkillInv, CachedAgentIsCurrent
  <2>2. d \in Calls /\ d # c
    BY <2>1 DEF UnderWay, Vouching
  <2>3. QED  BY <2>1, <2>2 DEF UnderWay, IsStepOf
<1>9. QED
  BY <1>1, <1>2, <1>3, <1>4, <1>5, <1>6, <1>7, <1>8 DEF SkillInv

\* A call that ends leaves the rest as it is.
LEMMA QuietEnd ==
    ASSUME SkillInv, SkillTypeOK', NEW c \in Calls, End(c),
           UNCHANGED <<clients, procs, tools, cached, yaml, lost>>,
           call[c].pc \in Vouching => call[c].skill \in disturbed',
           disturbed \subseteq disturbed',
           \A r \in Skills : told'[r] = told[r] \/ told'[r] = "nothing"
    PROVE  SkillInv'
<1>1. IsStepOf(c) /\ call'[c].pc = "done" /\ call'[c].touches = {} /\ CallOk(c)'
  BY EndStep DEF SkillInv
<1>2. QED  BY <1>1, QuietStep DEF Over, Vouching

\* A server that is added: its client is new to the list and its skill has no other.
LEMMA AddedClient ==
    ASSUME SkillTypeOK, NEW c \in Calls, NEW t \in Records, t.skill \in Skills, AddServer(c, t)
    PROVE  /\ ~HasServer(t.skill) /\ clients' = clients \cup {<<t.skill, c>>}
           /\ clients' \in SUBSET Keys
           /\ IsStepOf(c) /\ call'[c].pc = "starting" /\ call'[c].op = t.op
           /\ call'[c].skill = t.skill /\ call'[c].todo = t.todo
           /\ call'[c].touches = t.touches
<1>1. [t EXCEPT !.pc = "starting"] \in Records
  BY GoesOnRecord DEF Awaits, OnSkill
<1>2. IsStepOf(c) /\ call'[c] = [t EXCEPT !.pc = "starting"]
  BY <1>1, BecomeStep DEF AddServer
<1>3. clients' \in SUBSET Keys
  BY DEF AddServer, SkillTypeOK, Keys
<1>4. QED  BY <1>2, <1>3, GoesOnRecord DEF AddServer, Awaits, OnSkill

\* Call c adds the server of skill s.
LEMMA AddStep ==
    ASSUME SkillInv, SkillTypeOK', NEW c \in Calls, NEW s \in Skills, NEW t \in Records,
           t.skill = s, s \in t.touches, t.touches \subseteq call[c].touches \cup {s},
           t.op = "reload" => t.todo \subseteq t.touches,
           call[c].pc \in OnSkill => call[c].skill = s,
           AddServer(c, t),
           disturbed \subseteq disturbed',
           \A d \in Calls \ {c} : s \in call[d].touches => s \in disturbed',
           UNCHANGED tools, procs' \subseteq procs,
           \A k \in procs \ procs' : k[1] = s,
           s \notin disturbed' => \A k \in procs' \cup tools : ~Takes(c, k),
           cached' = None \/ (cached' = cached /\ call[c].pc # "stopping"),
           \A r \in Skills : r # s => EntryStays(r) /\ told'[r] = told[r],
           s \notin disturbed' => told'[s] = "nothing",
           t.op = "install" => s \in lost' \cup yaml'
    PROVE  SkillInv'
<1>1. SkillTypeOK
  BY DEF SkillInv
<1>2. /\ ~HasServer(s) /\ clients' = clients \cup {<<s, c>>}
      /\ IsStepOf(c) /\ call'[c].pc = "starting" /\ call'[c].op = t.op
      /\ call'[c].skill = s /\ call'[c].todo = t.todo /\ call'[c].touches = t.touches
  BY <1>1, AddedClient
<1>3. WorksOn(c, s)
  BY <1>2 DEF WorksOn, EntryStays
<1>4. CallOk(c)'
  BY <1>2 DEF CallOk, Over
<1>5. \A j, k \in clients' : j[1] = s /\ k[1] = s => j = k
  BY <1>2 DEF HasServer
<1>6. ASSUME s \notin disturbed' PROVE AtSkill(c, s)'
  <2>1. AtSkill(c, s)
    BY <1>6, OwnSkill
  <2>2. \A k \in tools' \cup procs' : k[1] = s => k \in clients
    BY <1>6, <2>1 DEF AtSkill
  <2>3. \A k \in tools' \cup procs' : k[1] # s
    BY <1>2, <2>2 DEF HasServer
  <2>4. Client(c)' = <<s, c>> /\ Client(c)' \notin tools' \cup procs'
    BY <1>2, <2>3 DEF Client
  <2>5. Progress(c)'
    BY <1>2, <2>4 DEF Progress
  <2>6. cached' # None =>
          \A k \in (cached' \ tools') \cup (tools' \ cached') : k[1] # s
    BY <2>1 DEF AtSkill
  <2>7. QED  BY <1>6, <2>3, <2>5, <2>6 DEF AtSkill
<1>7. QED  BY <1>3, <1>4, <1>5, <1>6, WorkStep

\* A call that begins: who works on the skill already is disturbed.
LEMMA BeginStep ==
    ASSUME SkillInv, NEW c \in Calls, NEW s \in Skills, call[c].pc = "new", Begin({s})
    PROVE  /\ call[c].touches = {}
           /\ disturbed \subseteq disturbed' /\ disturbed' \in SUBSET Skills
           /\ told' \in [Skills -> {"nothing", "installed", "uninstalled"}]
           /\ \A d \in Calls \ {c} : s \in call[d].touches => s \in disturbed'
           /\ \A r \in Skills : r # s => told'[r] = told[r]
           /\ told'[s] = "nothing"
<1>1. SkillTypeOK /\ CallsTouch
  BY DEF SkillInv
<1>2. \A d \in Calls : call[d].pc \in Over => call[d].touches = {}
  BY <1>1 DEF CallsTouch, CallOk
<1>3. \A d \in Calls : s \in call[d].touches => d \in UnderWay
  BY <1>2 DEF UnderWay
<1>4. QED  BY <1>1, <1>2, <1>3 DEF Begin, SkillTypeOK, Over

\* A call begins with taking the client of skill s out.
LEMMA RemoveStep ==
    ASSUME SkillInv, NEW c \in Calls, NEW s \in Skills, NEW t \in Records,
           t.skill = s, t.touches = {s}, t.op \notin {"install", "reload"}, call[c].pc = "new",
           Begin({s}), RemoveServer(c, t), UNCHANGED <<yaml, lost, procs, cached, restarts>>,
           creds' \in SUBSET Skills, pending' \in [Skills -> Calls \cup {None}],
           codes' \in SUBSET Calls, logins' \in SUBSET Calls
    PROVE  SkillInv'
<1>1. SkillTypeOK
  BY DEF SkillInv
<1>2. PICK k \in OfSkill(s) :
        /\ clients' = clients \ {k} /\ tools' = tools \ {k}
        /\ Become(c, [t EXCEPT !.pc = "stopping", !.flow = k])
  BY DEF RemoveServer
<1>3. k \in clients /\ k \in Keys /\ k[1] = s
  BY <1>1, <1>2 DEF OfSkill, SkillTypeOK
<1>4. [t EXCEPT !.pc = "stopping", !.flow = k] \in Records
  BY <1>3, StopsRecord
<1>5. IsStepOf(c) /\ call'[c] = [t EXCEPT !.pc = "stopping", !.flow = k]
  BY <1>1, <1>2, <1>4, BecomeStep
<1>6. /\ call'[c].pc = "stopping" /\ call'[c].op = t.op /\ call'[c].skill = s
      /\ call'[c].flow = k /\ call'[c].touches = {s}
  <2> DEFINE u == [t EXCEPT !.pc = "stopping", !.flow = k]
  <2>1. /\ u.pc = "stopping" /\ u.op = t.op /\ u.skill = t.skill
        /\ u.flow = k /\ u.touches = t.touches
    BY <1>3, StopsRecord, ZenonT(40)
  <2>2. call'[c] = u
    BY <1>5
  <2> HIDE DEF u
  <2>3. QED  BY <2>1, <2>2
<1>7. /\ disturbed \subseteq disturbed' /\ disturbed' \in SUBSET Skills
      /\ told' \in [Skills -> {"nothing", "installed", "uninstalled"}]
      /\ \A d \in Calls \ {c} : s \in call[d].touches => s \in disturbed'
      /\ \A r \in Skills : r # s => told'[r] = told[r]
      /\ told'[s] = "nothing"
  BY BeginStep
<1>8. SkillTypeOK'
  BY <1>1, <1>2, <1>5, <1>7 DEF SkillTypeOK, IsStepOf
<1>9. WorksOn(c, s)
  BY <1>2, <1>3, <1>5, <1>6, <1>7 DEF WorksOn, EntryStays, OnSkill
<1>10. CallOk(c)'
  BY <1>3, <1>6 DEF CallOk, Over
<1>11. \A j \in clients : j[1] = s => j = k
  BY <1>3 DEF SkillInv, OneClientPerSkill
<1>12. ASSUME s \notin disturbed' PROVE AtSkill(c, s)'
  <2>1. AtSkill(c, s)
    BY <1>7, <1>12, OwnSkill
  <2>2. \A j \in tools \cup procs : j[1] = s => j = k
    BY <1>11, <2>1 DEF AtSkill, Takes
  <2>3. \A j \in tools' \cup procs' : j[1] = s => Takes(c, j)'
    BY <1>2, <1>3, <1>6, <2>2 DEF Takes
  <2>4. ~HasServer(s)'
    BY <1>2, <1>11 DEF HasServer
  <2>5. Progress(c)'
    BY <1>2, <1>6, <2>4 DEF Progress, HasServer
  <2>6. QED  BY <1>6, <1>7, <2>3, <2>5 DEF AtSkill
<1>13. \A i, j \in clients' : i[1] = s /\ j[1] = s => i = j
  BY <1>2, <1>11
<1>14. QED  BY <1>8, <1>9, <1>10, <1>12, <1>13, WorkStep

-----------------------------------------------------------------------------
\* install_skill writes the entry and adds the server, or fails a check or the write.
LEMMA InstallStep ==
    ASSUME SkillInv, NEW c \in Calls, NEW s \in Skills, Install(c, s)
    PROVE  SkillInv'
<1> DEFINE t == [NoCall EXCEPT !.op = "install", !.skill = s, !.touches = {s}]
<1>1. SkillTypeOK /\ call[c].pc = "new" /\ Begin({s})
  BY DEF SkillInv, Install
<1>2. /\ call[c].touches = {} /\ disturbed \subseteq disturbed' /\ disturbed' \in SUBSET Skills
      /\ told' \in [Skills -> {"nothing", "installed", "uninstalled"}]
      /\ \A d \in Calls \ {c} : s \in call[d].touches => s \in disturbed'
      /\ \A r \in Skills : r # s => told'[r] = told[r]
      /\ told'[s] = "nothing"
  BY <1>1, BeginStep
<1>3. UNCHANGED <<procs, tools, cached, creds, pending, codes, logins, restarts>>
  BY DEF Install, login
<1>4. t \in Records /\ t.op = "install" /\ t.skill = s /\ t.touches = {s}
  BY BegunRecord DEF Ops
<1>5. CASE Persist(s) /\ AddServer(c, t)
  <2> HIDE DEF t
  <2>1. IsStepOf(c) /\ clients' \in SUBSET Keys
    BY <1>1, <1>4, <1>5, AddedClient
  <2>2. /\ yaml' \in SUBSET Skills /\ lost' \in SUBSET Skills /\ s \in lost' \cup yaml'
        /\ \A r \in Skills : r # s => EntryStays(r)
    BY <1>1, <1>5, PersistStep DEF WritesFor
  <2>3. SkillTypeOK'
    BY <1>1, <1>2, <1>3, <2>1, <2>2 DEF SkillTypeOK, IsStepOf
  <2>4. \A k \in procs \cup tools : ~Takes(c, k)
    BY <1>1 DEF Takes
  <2>5. QED
    BY <1>1, <1>2, <1>3, <1>4, <1>5, <2>2, <2>3, <2>4, AddStep DEF OnSkill
<1>6. CASE End(c) /\ WriteFails(s, TRUE) /\ UNCHANGED clients
  <2>1. "done" \in Over /\ "done" \notin OnSkill
    BY DEF Over, OnSkill
  <2>2. IsStepOf(c) /\ call'[c].pc = "done" /\ call'[c].touches = {} /\ CallOk(c)'
    BY <1>1, <1>6, <2>1, EndStep
  <2>3. /\ yaml' \in SUBSET Skills /\ lost' \in SUBSET Skills
        /\ \A r \in Skills : r # s => EntryStays(r)
    BY <1>1, <1>6, PersistStep DEF WritesFor
  <2>4. SkillTypeOK'
    BY <1>1, <1>2, <1>3, <1>6, <2>2, <2>3 DEF SkillTypeOK, IsStepOf
  <2>5. WorksOn(c, s)
    BY <1>1, <1>2, <1>3, <1>6, <2>1, <2>2, <2>3 DEF WorksOn, EntryStays, OnSkill
  <2>6. \A j, k \in clients' : j[1] = s /\ k[1] = s => j = k
    BY <1>6 DEF SkillInv, OneClientPerSkill
  <2>7. ASSUME s \notin disturbed' PROVE AtSkill(c, s)'
    <3>1. AtSkill(c, s)
      BY <1>2, <2>7, OwnSkill
    <3>2. \A k \in tools' \cup procs' : k[1] = s => k \in clients'
      BY <1>1, <1>3, <1>6, <3>1 DEF AtSkill, Takes
    <3>3. Progress(c)'
      BY <2>2 DEF Progress
    <3>4. cached' # None =>
            \A k \in (cached' \ tools') \cup (tools' \ cached') : k[1] # s
      BY <1>1, <1>3, <3>1 DEF AtSkill
    <3>5. QED  BY <1>2, <3>2, <3>3, <3>4 DEF AtSkill
  <2>8. QED  BY <2>2, <2>4, <2>5, <2>6, <2>7, WorkStep
<1>7. CASE End(c) /\ UNCHANGED <<yaml, lost, clients>>
  <2>1. "done" \in Over
    BY DEF Over
  <2>2. IsStepOf(c)
    BY <1>1, <1>7, <2>1, EndStep
  <2>3. SkillTypeOK'
    BY <1>1, <1>2, <1>3, <1>7, <2>2 DEF SkillTypeOK, IsStepOf
  <2>4. \A r \in Skills : told'[r] = told[r] \/ told'[r] = "nothing"
    BY <1>2
  <2>5. QED  BY <1>1, <1>2, <1>3, <1>7, <2>1, <2>3, <2>4, QuietEnd DEF Vouching
<1>8. QED  BY <1>5, <1>6, <1>7 DEF Install, file

\* uninstall_skill takes the client out, or finds none.
LEMMA UninstallStep ==
    ASSUME SkillInv, NEW c \in Calls, NEW s \in Skills, Uninstall(c, s)
    PROVE  SkillInv'
<1> DEFINE t == [NoCall EXCEPT !.op = "uninstall", !.skill = s, !.touches = {s}]
<1>1. SkillTypeOK /\ call[c].pc = "new" /\ Begin({s})
  BY DEF SkillInv, Uninstall
<1>2. /\ UNCHANGED <<yaml, lost, procs, cached, creds, pending, codes, logins, restarts>>
      /\ creds' \in SUBSET Skills /\ pending' \in [Skills -> Calls \cup {None}]
      /\ codes' \in SUBSET Calls /\ logins' \in SUBSET Calls
  BY <1>1 DEF Uninstall, login, file, SkillTypeOK
<1>3. t \in Records /\ t.op = "uninstall" /\ t.skill = s /\ t.touches = {s}
  BY BegunRecord DEF Ops
<1>4. CASE RemoveServer(c, t)
  <2> HIDE DEF t
  <2>1. QED  BY <1>1, <1>2, <1>3, <1>4, RemoveStep
<1>5. CASE End(c) /\ UNCHANGED <<clients, tools>>
  <2>1. "done" \in Over
    BY DEF Over
  <2>2. /\ disturbed \subseteq disturbed' /\ disturbed' \in SUBSET Skills
        /\ told' \in [Skills -> {"nothing", "installed", "uninstalled"}]
        /\ \A r \in Skills : told'[r] = told[r] \/ told'[r] = "nothing"
    BY <1>1, BeginStep
  <2>3. IsStepOf(c)
    BY <1>1, <1>5, <2>1, EndStep
  <2>4. SkillTypeOK'
    BY <1>1, <1>2, <1>5, <2>2, <2>3 DEF SkillTypeOK, IsStepOf
  <2>5. QED  BY <1>1, <1>2, <1>5, <2>1, <2>2, <2>4, QuietEnd DEF Vouching
<1>6. QED  BY <1>4, <1>5 DEF Uninstall

\* reload_skills reads which servers skills.yaml names.
LEMMA ReloadStep ==
    ASSUME SkillInv, NEW c \in Calls, Reload(c)
    PROVE  SkillInv'
<1> DEFINE t == [NoCall EXCEPT !.pc = "reloading", !.op = "reload",
                               !.todo = yaml, !.touches = yaml]
<1>1. SkillTypeOK /\ CallsTouch /\ call[c].pc = "new"
  BY DEF SkillInv, Reload
<1>2. UNCHANGED <<yaml, lost, clients, procs, tools, cached, creds, pending, codes, logins,
                  restarts>>
  BY DEF Reload, login, toolset, file
<1>3. CASE Begin({}) /\ End(c)
  <2>1. "done" \in Over
    BY DEF Over
  <2>2. IsStepOf(c)
    BY <1>1, <1>3, <2>1, EndStep
  <2>3. /\ disturbed \subseteq disturbed' /\ disturbed' \in SUBSET Skills
        /\ told' \in [Skills -> {"nothing", "installed", "uninstalled"}]
        /\ \A r \in Skills : told'[r] = told[r] \/ told'[r] = "nothing"
    BY <1>1, <1>3 DEF Begin, SkillTypeOK
  <2>4. SkillTypeOK'
    BY <1>1, <1>2, <2>2, <2>3 DEF SkillTypeOK, IsStepOf
  <2>5. QED  BY <1>1, <1>2, <1>3, <2>1, <2>3, <2>4, QuietEnd DEF Vouching
<1>4. CASE Begin(yaml) /\ Become(c, t)
  <2>1. /\ t \in Records /\ t.pc = "reloading" /\ t.op = "reload"
        /\ t.todo = yaml /\ t.touches = yaml
    BY <1>1, NoCallRecord DEF Records, NoCall, Ops, Awaits, SkillTypeOK
  <2> HIDE DEF t
  <2>2. IsStepOf(c) /\ call'[c] = t
    BY <1>1, <1>4, <2>1, BecomeStep
  <2>3. \A d \in Calls : call[d].touches # {} => d \in UnderWay
    BY <1>1 DEF CallsTouch, CallOk, UnderWay
  <2>4. /\ disturbed \subseteq disturbed' /\ disturbed' \in SUBSET Skills
        /\ told' \in [Skills -> {"nothing", "installed", "uninstalled"}]
        /\ \A r \in Skills : told'[r] = told[r] \/ told'[r] = "nothing"
        /\ \A r \in yaml : told'[r] = "nothing"
        /\ \A d \in Calls : yaml \cap call[d].touches \subseteq disturbed'
    BY <1>1, <1>4, <2>3 DEF Begin, SkillTypeOK
  <2>5. SkillTypeOK'
    BY <1>1, <1>2, <2>2, <2>4 DEF SkillTypeOK, IsStepOf
  <2>6. CallOk(c)' /\ call'[c].pc \notin Vouching /\ call[c].pc \notin Vouching
    BY <1>1, <2>1, <2>2 DEF CallOk, Over, OnSkill, Vouching
  <2>7. call'[c].touches = yaml
    BY <2>1, <2>2
  <2>8. QED  BY <1>2, <2>2, <2>4, <2>5, <2>6, <2>7, QuietStep
<1>5. QED  BY <1>3, <1>4 DEF Reload

\* reload_skills goes on with the next server, passes one that is there, or ends.
LEMMA ReloadNextStep ==
    ASSUME SkillInv, NEW c \in Calls, ReloadNext(c)
    PROVE  SkillInv'
<1>1. /\ SkillTypeOK /\ call[c] \in Records /\ CallOk(c)
      /\ call[c].pc = "reloading" /\ call[c].op = "reload"
  BY DEF SkillInv, SkillTypeOK, CallsTouch, CallOk, ReloadNext
<1>2. UNCHANGED <<yaml, lost, procs, tools, cached, creds, pending, codes, logins, restarts,
                  told, disturbed>>
  BY DEF ReloadNext, login, history, file
<1>3. \A r \in call[c].touches : r \in Skills /\ (told[r] = "nothing" \/ r \in disturbed)
  BY <1>1 DEF SkillInv, NothingToldYet, Records
<1>4. \A d \in Calls \ {c} : call[c].touches \cap call[d].touches \subseteq disturbed
  BY DEF SkillInv, OneCallPerSkill
<1>5. ASSUME NEW s \in call[c].todo,
             \/ AddServer(c, [call[c] EXCEPT !.skill = s, !.todo = @ \ {s}])
             \/ Become(c, [call[c] EXCEPT !.skill = s, !.todo = @ \ {s}]) /\ UNCHANGED clients
      PROVE  SkillInv'
  <2> DEFINE t == [call[c] EXCEPT !.skill = s, !.todo = @ \ {s}]
  <2>1. /\ t \in Records /\ t.pc = "reloading" /\ t.op = "reload" /\ t.skill = s
        /\ t.todo = call[c].todo \ {s} /\ t.touches = call[c].touches
    BY <1>1, ReloadRecord
  <2>2. s \in call[c].touches /\ s \in Skills /\ t.todo \subseteq t.touches
    BY <1>1, <1>3, <2>1 DEF CallOk
  <2>3. AddServer(c, t) \/ (Become(c, t) /\ UNCHANGED clients)
    BY <1>5
  <2> HIDE DEF t
  <2>4. CASE AddServer(c, t)
    <3>1. IsStepOf(c) /\ clients' \in SUBSET Keys
      BY <1>1, <2>1, <2>2, <2>4, AddedClient
    <3>2. SkillTypeOK'
      BY <1>1, <1>2, <3>1 DEF SkillTypeOK, IsStepOf
    <3>3. \A k \in procs \cup tools : ~Takes(c, k)
      BY <1>1 DEF Takes
    <3>4. \A d \in Calls \ {c} : s \in call[d].touches => s \in disturbed
      BY <1>4, <2>2
    <3>5. /\ call[c].pc \notin OnSkill /\ call[c].pc # "stopping" /\ t.op # "install"
          /\ t.touches \subseteq call[c].touches \cup {s} /\ s \in t.touches
          /\ s \notin disturbed => told[s] = "nothing"
      BY <1>1, <1>3, <2>1, <2>2 DEF OnSkill
    <3>6. \A r \in Skills : r # s => EntryStays(r) /\ told'[r] = told[r]
      BY <1>2 DEF EntryStays
    <3>7. QED  BY <1>2, <2>1, <2>2, <2>4, <3>2, <3>3, <3>4, <3>5, <3>6, AddStep
  <2>5. CASE Become(c, t) /\ UNCHANGED clients
    <3>1. IsStepOf(c) /\ call'[c] = t
      BY <1>1, <2>1, <2>5, BecomeStep
    <3>2. SkillTypeOK'
      BY <1>1, <1>2, <2>5, <3>1 DEF SkillTypeOK, IsStepOf
    <3>3. CallOk(c)' /\ call[c].pc \notin Vouching /\ call'[c].pc \notin Vouching
      BY <1>1, <2>1, <2>2, <3>1 DEF CallOk, Over, OnSkill, Vouching
    <3>4. call'[c].touches = call[c].touches
      BY <2>1, <3>1
    <3>5. QED  BY <1>2, <1>3, <1>4, <2>5, <3>1, <3>2, <3>3, <3>4, QuietStep
  <2>6. QED  BY <2>3, <2>4, <2>5
<1>6. CASE call[c].todo = {} /\ End(c) /\ UNCHANGED clients
  <2>1. "done" \in Over
    BY DEF Over
  <2>2. IsStepOf(c)
    BY <1>1, <1>6, <2>1, EndStep
  <2>3. SkillTypeOK'
    BY <1>1, <1>2, <1>6, <2>2 DEF SkillTypeOK, IsStepOf
  <2>4. QED  BY <1>1, <1>2, <1>6, <2>1, <2>3, QuietEnd DEF Vouching
<1>7. QED  BY <1>5, <1>6 DEF ReloadNext

-----------------------------------------------------------------------------
\* reauth_skill takes the client out, or goes on to the login at once.
LEMMA ReauthStep ==
    ASSUME SkillInv, NEW c \in Calls, NEW s \in Skills, Reauth(c, s)
    PROVE  SkillInv'
<1> DEFINE t == [NoCall EXCEPT !.op = "reauth", !.skill = s, !.touches = {s}]
<1>1. SkillTypeOK /\ call[c].pc = "new" /\ Begin({s})
  BY DEF SkillInv, Reauth
<1>2. /\ UNCHANGED <<yaml, lost, procs, cached, creds, pending, codes, logins, restarts>>
      /\ creds' \in SUBSET Skills /\ pending' \in [Skills -> Calls \cup {None}]
      /\ codes' \in SUBSET Calls /\ logins' \in SUBSET Calls
  BY <1>1 DEF Reauth, login, file, SkillTypeOK
<1>3. /\ t \in Records /\ t.op = "reauth" /\ t.skill = s
      /\ t.touches = {s} /\ t.todo = {}
  BY BegunRecord DEF Ops
<1>4. \/ RemoveServer(c, t)
      \/ Become(c, [t EXCEPT !.pc = "killing"]) /\ UNCHANGED <<clients, tools>>
  BY DEF Reauth
<1> HIDE DEF t
<1>5. CASE RemoveServer(c, t)
  BY <1>1, <1>2, <1>3, <1>5, RemoveStep
<1>6. CASE Become(c, [t EXCEPT !.pc = "killing"]) /\ UNCHANGED <<clients, tools>>
  <2> DEFINE u == [t EXCEPT !.pc = "killing"]
  <2>1. /\ u \in Records /\ u.pc = "killing" /\ u.op = "reauth" /\ u.skill = s
        /\ u.touches = {s} /\ u.todo = {}
    BY <1>3, GoesOnRecord DEF Awaits, OnSkill
  <2>2. Become(c, u)
    BY <1>6
  <2> HIDE DEF u
  <2>3. IsStepOf(c) /\ call'[c] = u
    BY <1>1, <2>1, <2>2, BecomeStep
  <2>4. /\ disturbed \subseteq disturbed' /\ disturbed' \in SUBSET Skills
        /\ told' \in [Skills -> {"nothing", "installed", "uninstalled"}]
        /\ \A d \in Calls \ {c} : s \in call[d].touches => s \in disturbed'
        /\ \A r \in Skills : told'[r] = told[r] \/ told'[r] = "nothing"
        /\ told'[s] = "nothing"
    BY <1>1, BeginStep
  <2>5. SkillTypeOK'
    BY <1>1, <1>2, <1>6, <2>3, <2>4 DEF SkillTypeOK, IsStepOf
  <2>6. CallOk(c)' /\ call[c].pc \notin Vouching /\ call'[c].pc \notin Vouching
    BY <1>1, <2>1, <2>3 DEF CallOk, Over, OnSkill, Vouching
  <2>7. call'[c].touches = {s}
    BY <2>1, <2>3
  <2>8. QED  BY <1>2, <1>6, <2>3, <2>4, <2>5, <2>6, <2>7, QuietStep
<1>7. QED  BY <1>4, <1>5, <1>6

\* The login is started.
LEMMA StartLoginStep ==
    ASSUME SkillInv, NEW c \in Calls, StartLogin(c)
    PROVE  SkillInv'
<1>1. SkillTypeOK /\ call[c].pc = "killing" /\ CallOk(c) /\ call[c] \in Records
  BY DEF SkillInv, SkillTypeOK, StartLogin, CallsTouch
<1>2. UNCHANGED <<yaml, lost, clients, procs, tools, cached, creds, codes, restarts, told, disturbed>>
  BY DEF StartLogin, toolset, history, file
<1>3. call[c].skill \in Skills /\ call[c].skill \in call[c].touches
  BY <1>1, AtWork DEF OnSkill
<1>4. "authorizing" \in Awaits
  BY DEF Awaits, OnSkill
<1>5. /\ IsStepOf(c)
      /\ call'[c].pc = "authorizing" /\ call'[c].op = call[c].op
      /\ call'[c].skill = call[c].skill /\ call'[c].touches = call[c].touches
      /\ call'[c].todo = call[c].todo
  BY <1>1, <1>4, GotoStep DEF StartLogin
<1>6. pending' \in [Skills -> Calls \cup {None}] /\ logins' \in SUBSET Calls
  BY <1>1 DEF StartLogin, OtherLogins, SkillTypeOK
<1>7. SkillTypeOK'
  BY <1>1, <1>2, <1>5, <1>6 DEF SkillTypeOK, IsStepOf
<1>8. CallOk(c)' /\ call[c].pc \notin Vouching /\ call'[c].pc \notin Vouching
  BY <1>1, <1>3, <1>5 DEF CallOk, Over, OnSkill, Vouching
<1>9. \A r \in call[c].touches : told[r] = "nothing" \/ r \in disturbed
  BY DEF SkillInv, NothingToldYet
<1>10. \A d \in Calls \ {c} : call[c].touches \cap call[d].touches \subseteq disturbed
  BY DEF SkillInv, OneCallPerSkill
<1>11. QED  BY <1>2, <1>5, <1>7, <1>8, <1>9, <1>10, QuietStep

\* The tokens of a login are there.
LEMMA ExchangeType ==
    ASSUME SkillTypeOK, NEW s \in Skills, NEW f \in Calls, Exchange(s, f)
    PROVE  /\ codes' \in SUBSET Calls /\ creds' \in SUBSET Skills
           /\ pending' \in [Skills -> Calls \cup {None}]
BY DEF Exchange, SkillTypeOK

\* The login has its tokens, and the server is added anew.
LEMMA LoginSucceedsStep ==
    ASSUME SkillInv, NEW c \in Calls, LoginSucceeds(c)
    PROVE  SkillInv'
<1> DEFINE s == call[c].skill
<1>1. SkillTypeOK /\ call[c].pc = "authorizing" /\ CallOk(c)
  BY DEF SkillInv, LoginSucceeds, CallsTouch
<1>2. /\ s \in Skills /\ s \in call[c].touches /\ call[c] \in Records
      /\ \A d \in Calls \ {c} : s \in call[d].touches => s \in disturbed
      /\ s \notin disturbed => told[s] = "nothing"
  BY <1>1, AtWork DEF OnSkill
<1>3. UNCHANGED <<yaml, lost, procs, tools, cached, restarts, told, disturbed>>
  BY DEF LoginSucceeds, history, file
<1>4. /\ codes' \in SUBSET Calls /\ creds' \in SUBSET Skills
      /\ pending' \in [Skills -> Calls \cup {None}] /\ logins' \in SUBSET Calls
  BY <1>1, <1>2, ExchangeType DEF LoginSucceeds, SkillTypeOK
<1>5. CASE AddServer(c, call[c])
  <2>1. IsStepOf(c) /\ clients' \in SUBSET Keys
    BY <1>1, <1>2, <1>5, AddedClient
  <2>2. SkillTypeOK'
    BY <1>1, <1>3, <1>4, <2>1 DEF SkillTypeOK, IsStepOf
  <2>3. \A k \in procs \cup tools : ~Takes(c, k)
    BY <1>1 DEF Takes
  <2>4. call[c].op \notin {"install", "reload"}
    BY <1>1 DEF CallOk
  <2>5. \A r \in Skills : r # s => EntryStays(r) /\ told'[r] = told[r]
    BY <1>3 DEF EntryStays
  <2>6. QED  BY <1>1, <1>2, <1>3, <1>5, <2>2, <2>3, <2>4, <2>5, AddStep
<1>6. CASE End(c) /\ UNCHANGED clients
  <2>1. "done" \in Over
    BY DEF Over
  <2>2. IsStepOf(c)
    BY <1>1, <1>6, <2>1, EndStep
  <2>3. SkillTypeOK'
    BY <1>1, <1>3, <1>4, <1>6, <2>2 DEF SkillTypeOK, IsStepOf
  <2>4. QED  BY <1>1, <1>3, <1>6, <2>1, <2>3, QuietEnd DEF Vouching
<1>7. QED  BY <1>5, <1>6 DEF LoginSucceeds, Respawn

\* The login is over without tokens.
LEMMA LoginFailsStep ==
    ASSUME SkillInv, NEW c \in Calls, LoginFails(c)
    PROVE  SkillInv'
<1>1. SkillTypeOK /\ call[c].pc = "authorizing" /\ End(c)
  BY DEF SkillInv, LoginFails
<1>2. /\ UNCHANGED <<yaml, lost, clients, procs, tools, cached, creds, pending, codes, restarts,
                     told, disturbed>>
      /\ logins' \in SUBSET Calls
  BY <1>1 DEF LoginFails, toolset, history, file, SkillTypeOK
<1>3. "done" \in Over
  BY DEF Over
<1>4. IsStepOf(c)
  BY <1>1, <1>3, EndStep
<1>5. SkillTypeOK'
  BY <1>1, <1>2, <1>4 DEF SkillTypeOK, IsStepOf
<1>6. QED  BY <1>1, <1>2, <1>3, <1>5, QuietEnd DEF Vouching

\* complete_oauth brings the tokens and replaces the client, if there is one.
LEMMA CompleteStep ==
    ASSUME SkillInv, NEW c \in Calls, NEW s \in Skills, NEW f \in Calls, Complete(c, s, f)
    PROVE  SkillInv'
<1> DEFINE t == [NoCall EXCEPT !.op = "complete", !.skill = s, !.touches = {s}]
<1>1. SkillTypeOK /\ call[c].pc = "new" /\ Begin({s})
  BY DEF SkillInv, Complete
<1>2. UNCHANGED <<yaml, lost, procs, cached, logins, restarts>> /\ logins' \in SUBSET Calls
  BY <1>1 DEF Complete, file, SkillTypeOK
<1>3. Exchange(s, f) \/ UNCHANGED <<creds, pending, codes>>
  BY DEF Complete
<1>4. /\ creds' \in SUBSET Skills /\ pending' \in [Skills -> Calls \cup {None}]
      /\ codes' \in SUBSET Calls
  BY <1>1, <1>3, ExchangeType DEF SkillTypeOK
<1>5. t \in Records /\ t.op = "complete" /\ t.skill = s /\ t.touches = {s}
  BY BegunRecord DEF Ops
<1>6. \/ RemoveServer(c, t)
      \/ AddServer(c, t) /\ UNCHANGED tools
      \/ End(c) /\ UNCHANGED <<clients, tools>>
  BY DEF Complete
<1> HIDE DEF t
<1>7. /\ call[c].touches = {} /\ disturbed \subseteq disturbed' /\ disturbed' \in SUBSET Skills
      /\ told' \in [Skills -> {"nothing", "installed", "uninstalled"}]
      /\ \A d \in Calls \ {c} : s \in call[d].touches => s \in disturbed'
      /\ \A r \in Skills : r # s => told'[r] = told[r]
      /\ told'[s] = "nothing"
  BY <1>1, BeginStep
<1>8. CASE RemoveServer(c, t)
  BY <1>1, <1>2, <1>4, <1>5, <1>8, RemoveStep
<1>9. CASE AddServer(c, t) /\ UNCHANGED tools
  <2>1. IsStepOf(c) /\ clients' \in SUBSET Keys
    BY <1>1, <1>5, <1>9, AddedClient
  <2>2. SkillTypeOK'
    BY <1>1, <1>2, <1>4, <1>7, <1>9, <2>1 DEF SkillTypeOK, IsStepOf
  <2>3. \A k \in procs \cup tools : ~Takes(c, k)
    BY <1>1 DEF Takes
  <2>4. \A r \in Skills : r # s => EntryStays(r) /\ told'[r] = told[r]
    BY <1>2, <1>7 DEF EntryStays
  <2>5. QED
    BY <1>1, <1>2, <1>5, <1>7, <1>9, <2>2, <2>3, <2>4, AddStep DEF OnSkill
<1>10. CASE End(c) /\ UNCHANGED <<clients, tools>>
  <2>1. "done" \in Over
    BY DEF Over
  <2>2. IsStepOf(c)
    BY <1>1, <1>10, <2>1, EndStep
  <2>3. SkillTypeOK'
    BY <1>1, <1>2, <1>4, <1>7, <1>10, <2>2 DEF SkillTypeOK, IsStepOf
  <2>4. \A r \in Skills : told'[r] = told[r] \/ told'[r] = "nothing"
    BY <1>7
  <2>5. QED  BY <1>1, <1>2, <1>7, <1>10, <2>1, <2>3, <2>4, QuietEnd DEF Vouching
<1>11. QED  BY <1>6, <1>8, <1>9, <1>10

-----------------------------------------------------------------------------
\* The process of the server runs.
LEMMA StartServerStep ==
    ASSUME SkillInv, NEW c \in Calls, StartServer(c)
    PROVE  SkillInv'
<1>1. SkillTypeOK /\ call[c].pc = "starting" /\ CallOk(c)
  BY DEF SkillInv, StartServer, CallsTouch
<1> PICK s \in Skills : s = call[c].skill
  BY <1>1, AtWork DEF OnSkill
<1>2. /\ s \in Skills /\ s \in call[c].touches /\ Client(c) \in Keys
      /\ \A d \in Calls \ {c} : s \in call[d].touches => s \in disturbed
      /\ s \notin disturbed => AtSkill(c, s)
  BY <1>1, AtWork DEF OnSkill
<1>3. /\ UNCHANGED <<yaml, lost, clients, tools, cached, creds, pending, codes, logins, restarts,
                     told, disturbed>>
      /\ procs' = procs \cup {Client(c)}
  BY DEF StartServer, login, history, file
<1>4. "listing" \in Awaits
  BY DEF Awaits, OnSkill
<1>5. /\ IsStepOf(c) /\ call'[c].pc = "listing" /\ call'[c].op = call[c].op
      /\ call'[c].skill = s /\ call'[c].touches = call[c].touches
      /\ call'[c].todo = call[c].todo
  BY <1>1, <1>4, GotoStep DEF StartServer
<1>6. SkillTypeOK'
  BY <1>1, <1>2, <1>3, <1>5 DEF SkillTypeOK, IsStepOf
<1>7. Client(c)[1] = s /\ Client(c)' = Client(c)
  BY <1>5 DEF Client
<1>8. WorksOn(c, s)
  BY <1>2, <1>3, <1>5, <1>7 DEF WorksOn, EntryStays
<1>9. CallOk(c)'
  BY <1>1, <1>2, <1>5 DEF CallOk, Over
<1>10. \A j, k \in clients' : j[1] = s /\ k[1] = s => j = k
  BY <1>3 DEF SkillInv, OneClientPerSkill
<1>11. ASSUME s \notin disturbed' PROVE AtSkill(c, s)'
  <2>1. AtSkill(c, s) /\ Client(c) \in clients \ tools
    BY <1>1, <1>2, <1>3, <1>11 DEF AtSkill, Progress
  <2>2. \A k \in tools' \cup procs' : k[1] = s => k \in clients'
    BY <1>1, <1>3, <2>1 DEF AtSkill, Takes
  <2>3. call[c].op = "install" => s \in lost \cup yaml
    BY <1>1, <2>1 DEF AtSkill, Progress
  <2>4. Progress(c)'
    BY <1>3, <1>5, <1>7, <2>1, <2>3 DEF Progress
  <2>5. cached' # None =>
          \A k \in (cached' \ tools') \cup (tools' \ cached') : k[1] # s
    BY <1>1, <1>3, <2>1 DEF AtSkill
  <2>6. HasServer(s)' <=> HasServer(s)
    BY <1>3 DEF HasServer
  <2>7. QED  BY <1>3, <1>5, <2>1, <2>2, <2>4, <2>5, <2>6 DEF AtSkill
<1>12. QED  BY <1>2, <1>6, <1>8, <1>9, <1>10, <1>11, WorkStep

\* The tools are there: the call reports, or the reload goes on.
LEMMA ListToolsStep ==
    ASSUME SkillInv, NEW c \in Calls, ListTools(c)
    PROVE  SkillInv'
<1>1. SkillTypeOK /\ call[c].pc = "listing" /\ CallOk(c)
  BY DEF SkillInv, ListTools, CallsTouch
<1> PICK s \in Skills : s = call[c].skill
  BY <1>1, AtWork DEF OnSkill
<1>2. /\ s \in Skills /\ s \in call[c].touches /\ Client(c) \in Keys
      /\ \A d \in Calls \ {c} : s \in call[d].touches => s \in disturbed
      /\ s \notin disturbed => AtSkill(c, s) /\ told[s] = "nothing"
  BY <1>1, AtWork DEF OnSkill
<1>3. /\ UNCHANGED <<clients, procs, creds, pending, codes, logins, restarts, disturbed>>
      /\ tools' = tools \cup {Client(c)} /\ cached' = None
  BY DEF ListTools, Notify, login
<1>4. /\ IsStepOf(c) /\ call'[c].pc \notin OnSkill
      /\ call'[c].touches \subseteq call[c].touches /\ CallOk(c)'
      /\ \/ call[c].op = "reload" /\ UNCHANGED <<yaml, lost, told>>
         \/ /\ call[c].op = "install" /\ UNCHANGED <<yaml, lost>> /\ Report(s, "installed")
            /\ call'[c].touches = {}
         \/ /\ WritesFor(s, TRUE) /\ Report(s, "installed") /\ call'[c].touches = {}
  <2>1. CASE call[c].op = "reload"
    <3>1. Goto(c, "reloading") /\ UNCHANGED <<yaml, lost, told>>
      BY <2>1 DEF ListTools, file
    <3>2. "reloading" \in Awaits /\ "reloading" \notin OnSkill
      BY DEF Awaits, OnSkill
    <3>3. /\ IsStepOf(c) /\ call'[c].pc = "reloading" /\ call'[c].op = call[c].op
          /\ call'[c].touches = call[c].touches /\ call'[c].todo = call[c].todo
      BY <1>1, <3>1, <3>2, GotoStep
    <3>4. CallOk(c)'
      BY <1>1, <2>1, <3>3 DEF CallOk, Over, OnSkill
    <3>5. QED  BY <2>1, <3>1, <3>2, <3>3, <3>4
  <2>2. CASE call[c].op # "reload"
    <3>1. /\ End(c) /\ Report(s, "installed")
          /\ \/ call[c].op = "install" /\ UNCHANGED <<yaml, lost>>
             \/ Persist(s) \/ WriteFails(s, TRUE)
      BY <2>2 DEF ListTools, file
    <3>2. "done" \in Over /\ "done" \notin OnSkill
      BY DEF Over, OnSkill
    <3>3. IsStepOf(c) /\ call'[c].pc = "done" /\ call'[c].touches = {} /\ CallOk(c)'
      BY <1>1, <3>1, <3>2, EndStep
    <3>4. (call[c].op = "install" /\ UNCHANGED <<yaml, lost>>) \/ WritesFor(s, TRUE)
      BY <1>1, <3>1, PersistStep
    <3>5. QED  BY <2>2, <3>1, <3>2, <3>3, <3>4
  <2>3. QED  BY <2>1, <2>2
<1>5. /\ told' \in [Skills -> {"nothing", "installed", "uninstalled"}]
      /\ yaml' \in SUBSET Skills /\ lost' \in SUBSET Skills
      /\ \A r \in Skills : r # s => EntryStays(r) /\ told'[r] = told[r]
  <2>1. told' = told \/ told' = [told EXCEPT ![s] = "installed"]
    BY <1>4 DEF Report
  <2>2. /\ yaml' \in SUBSET Skills /\ lost' \in SUBSET Skills
        /\ \A r \in Skills : r # s => EntryStays(r)
    BY <1>1, <1>4 DEF SkillTypeOK, WritesFor, EntryStays
  <2>3. /\ told' \in [Skills -> {"nothing", "installed", "uninstalled"}]
        /\ \A r \in Skills : r # s => told'[r] = told[r]
    BY <1>1, <2>1 DEF SkillTypeOK
  <2>4. QED  BY <2>2, <2>3
<1>6. SkillTypeOK'
  BY <1>1, <1>2, <1>3, <1>4, <1>5 DEF SkillTypeOK, IsStepOf
<1>7. Client(c)[1] = s
  BY DEF Client
<1>8. WorksOn(c, s)
  BY <1>2, <1>3, <1>4, <1>5, <1>7 DEF WorksOn, EntryStays
<1>9. \A j, k \in clients' : j[1] = s /\ k[1] = s => j = k
  BY <1>3 DEF SkillInv, OneClientPerSkill
<1>10. ASSUME s \notin disturbed' PROVE AtSkill(c, s)'
  <2>1. AtSkill(c, s) /\ told[s] = "nothing" /\ Client(c) \in clients
    BY <1>1, <1>2, <1>3, <1>10 DEF AtSkill, Progress
  <2>2. \A k \in tools' \cup procs' : k[1] = s => k \in clients'
    BY <1>1, <1>3, <2>1 DEF AtSkill, Takes
  <2>3. call[c].op = "install" => s \in lost \cup yaml
    BY <1>1, <2>1 DEF AtSkill, Progress
  <2>4. Progress(c)'
    BY <1>4 DEF Progress, OnSkill
  <2>5. /\ told'[s] = "installed" => s \in lost' \/ s \in yaml'
        /\ told'[s] # "uninstalled"
        /\ s \in call'[c].touches => told'[s] = "nothing"
    BY <1>1, <1>2, <1>4, <2>1, <2>3 DEF Report, WritesFor, SkillTypeOK
  <2>6. QED  BY <1>3, <2>2, <2>4, <2>5 DEF AtSkill
<1>11. QED  BY <1>2, <1>4, <1>6, <1>8, <1>9, <1>10, WorkStep

\* add_server raises: what is left of the call is its entry.
LEMMA AddFailedStep ==
    ASSUME SkillInv, NEW c \in Calls, NEW s \in Skills, s = call[c].skill, AddFailed(c),
           call[c].pc \in OnSkill
    PROVE  /\ IsStepOf(c) /\ call'[c].pc \notin OnSkill /\ CallOk(c)'
           /\ call'[c].touches \subseteq call[c].touches
           /\ yaml' \in SUBSET Skills /\ lost' \in SUBSET Skills
           /\ \A r \in Skills : r # s => EntryStays(r)
<1>1. SkillTypeOK /\ CallOk(c)
  BY DEF SkillInv, CallsTouch
<1>2. CASE call[c].op = "reload"
  <2>1. Goto(c, "reloading") /\ UNCHANGED <<yaml, lost>>
    BY <1>2 DEF AddFailed, file
  <2>2. "reloading" \in Awaits /\ "reloading" \notin OnSkill
    BY DEF Awaits, OnSkill
  <2>3. /\ IsStepOf(c) /\ call'[c].pc = "reloading" /\ call'[c].op = call[c].op
        /\ call'[c].touches = call[c].touches /\ call'[c].todo = call[c].todo
    BY <1>1, <2>1, <2>2, GotoStep
  <2>4. CallOk(c)'
    BY <1>1, <1>2, <2>3 DEF CallOk, Over, OnSkill
  <2>5. QED  BY <1>1, <2>1, <2>2, <2>3, <2>4 DEF SkillTypeOK, EntryStays
<1>3. CASE call[c].op # "reload"
  <2>1. End(c) /\ (UNCHANGED <<yaml, lost>> \/ Remove(s) \/ WriteFails(s, FALSE))
    BY <1>3 DEF AddFailed, file
  <2>2. "done" \in Over /\ "done" \notin OnSkill
    BY DEF Over, OnSkill
  <2>3. IsStepOf(c) /\ call'[c].pc = "done" /\ call'[c].touches = {} /\ CallOk(c)'
    BY <1>1, <2>1, <2>2, EndStep
  <2>4. /\ yaml' \in SUBSET Skills /\ lost' \in SUBSET Skills
        /\ \A r \in Skills : r # s => EntryStays(r)
    <3>1. CASE UNCHANGED <<yaml, lost>>
      BY <1>1, <3>1 DEF SkillTypeOK, EntryStays
    <3>2. QED  BY <1>1, <2>1, <3>1, DropStep DEF WritesFor
  <2>5. QED  BY <2>2, <2>3, <2>4
<1>4. QED  BY <1>2, <1>3

\* The client of call c leaves the list, or its server ends.
LEMMA FailedClientStep ==
    ASSUME SkillInv, NEW c \in Calls, NEW s \in Skills, s = call[c].skill,
           call[c].pc \in {"starting", "undoing"}, AddFailed(c),
           clients' \subseteq clients, procs' \subseteq procs,
           \A k \in clients \ clients' : k = Client(c),
           \A k \in procs \ procs' : k = Client(c),
           call[c].pc = "undoing" => UNCHANGED clients /\ Client(c) \notin procs',
           UNCHANGED <<tools, cached, creds, pending, codes, logins, restarts, told, disturbed>>
    PROVE  SkillInv'
<1>1. SkillTypeOK /\ call[c].pc \in OnSkill /\ call[c].pc # "stopping"
  BY DEF SkillInv, OnSkill
<1>2. /\ s \in Skills /\ s \in call[c].touches /\ Client(c)[1] = s
      /\ \A d \in Calls \ {c} : s \in call[d].touches => s \in disturbed
      /\ s \notin disturbed => AtSkill(c, s) /\ told[s] = "nothing"
  BY <1>1, AtWork DEF Client
<1>3. /\ IsStepOf(c) /\ call'[c].pc \notin OnSkill /\ CallOk(c)'
      /\ call'[c].touches \subseteq call[c].touches
      /\ yaml' \in SUBSET Skills /\ lost' \in SUBSET Skills
      /\ \A r \in Skills : r # s => EntryStays(r)
  BY <1>1, AddFailedStep
<1>4. SkillTypeOK'
  BY <1>1, <1>3 DEF SkillTypeOK, IsStepOf
<1>5. WorksOn(c, s)
  BY <1>2, <1>3 DEF WorksOn, EntryStays
<1>6. \A j, k \in clients' : j[1] = s /\ k[1] = s => j = k
  BY DEF SkillInv, OneClientPerSkill
<1>7. ASSUME s \notin disturbed' PROVE AtSkill(c, s)'
  <2>1. AtSkill(c, s) /\ told'[s] = "nothing" /\ Progress(c)
    BY <1>2, <1>7 DEF AtSkill
  <2>2. Client(c) \notin tools' \cup procs'
    BY <2>1 DEF Progress
  <2>3. \A k \in tools' \cup procs' : k[1] = s => k \in clients'
    BY <1>1, <2>1, <2>2 DEF AtSkill, Takes
  <2>4. Progress(c)'
    BY <1>3 DEF Progress, OnSkill
  <2>5. cached' # None =>
          \A k \in (cached' \ tools') \cup (tools' \ cached') : k[1] # s
    BY <1>1, <2>1 DEF AtSkill
  <2>6. QED  BY <2>1, <2>3, <2>4, <2>5 DEF AtSkill
<1>8. QED  BY <1>3, <1>4, <1>5, <1>6, <1>7, WorkStep

\* The server does not start.
LEMMA StartFailsStep ==
    ASSUME SkillInv, NEW c \in Calls, StartFails(c)
    PROVE  SkillInv'
<1>1. call[c].pc = "starting" /\ AddFailed(c) /\ clients' = clients \ {Client(c)}
  BY DEF StartFails
<1>2. UNCHANGED <<procs, tools, cached, creds, pending, codes, logins, restarts, told,
                  disturbed>>
  BY DEF StartFails, login, history, file
<1> PICK s \in Skills : s = call[c].skill
  BY <1>1, AtWork DEF OnSkill
<1>3. QED  BY <1>1, <1>2, FailedClientStep

\* The server whose tools could not be listed is stopped.
LEMMA UndoStep ==
    ASSUME SkillInv, NEW c \in Calls, Undo(c)
    PROVE  SkillInv'
<1>1. call[c].pc = "undoing" /\ AddFailed(c) /\ procs' = procs \ {Client(c)}
  BY DEF Undo
<1>2. UNCHANGED <<clients, tools, cached, creds, pending, codes, logins, restarts, told,
                  disturbed>>
  BY DEF Undo, login, history, file
<1> PICK s \in Skills : s = call[c].skill
  BY <1>1, AtWork DEF OnSkill
<1>3. QED  BY <1>1, <1>2, FailedClientStep

\* The tools cannot be listed.
LEMMA ListingFailsStep ==
    ASSUME SkillInv, NEW c \in Calls, ListingFails(c)
    PROVE  SkillInv'
<1>1. /\ SkillTypeOK /\ call[c].pc = "listing" /\ CallOk(c)
      /\ clients' = clients \ {Client(c)}
  BY DEF SkillInv, ListingFails, CallsTouch
<1>2. UNCHANGED <<yaml, lost, procs, tools, cached, creds, pending, codes, logins, restarts, told,
                  disturbed>>
  BY DEF ListingFails, login, history, file
<1> PICK s \in Skills : s = call[c].skill
  BY <1>1, AtWork DEF OnSkill
<1>3. /\ s \in call[c].touches
      /\ \A d \in Calls \ {c} : s \in call[d].touches => s \in disturbed
      /\ s \notin disturbed => AtSkill(c, s) /\ told[s] = "nothing"
  BY <1>1, AtWork DEF OnSkill
<1>4. "undoing" \in Awaits
  BY DEF Awaits, OnSkill
<1>5. /\ IsStepOf(c) /\ call'[c].pc = "undoing" /\ call'[c].op = call[c].op
      /\ call'[c].skill = s /\ call'[c].touches = call[c].touches
      /\ call'[c].todo = call[c].todo
  BY <1>1, <1>4, GotoStep DEF ListingFails
<1>6. SkillTypeOK'
  BY <1>1, <1>2, <1>5 DEF SkillTypeOK, IsStepOf
<1>7. Client(c)[1] = s /\ Client(c)' = Client(c)
  BY <1>5 DEF Client
<1>8. WorksOn(c, s)
  BY <1>1, <1>2, <1>3, <1>5, <1>7 DEF WorksOn, EntryStays
<1>9. CallOk(c)'
  BY <1>1, <1>3, <1>5 DEF CallOk, Over
<1>10. \A j, k \in clients' : j[1] = s /\ k[1] = s => j = k
  BY <1>1 DEF SkillInv, OneClientPerSkill
<1>11. ASSUME s \notin disturbed' PROVE AtSkill(c, s)'
  <2>1. AtSkill(c, s) /\ told'[s] = "nothing" /\ Client(c) \notin tools
    BY <1>1, <1>2, <1>3, <1>11 DEF AtSkill, Progress
  <2>2. \A k \in tools' \cup procs' : k[1] = s => k \in clients' \/ Takes(c, k)'
    BY <1>1, <1>2, <1>5, <1>7, <2>1 DEF AtSkill, Takes
  <2>3. Progress(c)'
    BY <1>2, <1>5, <1>7, <2>1 DEF Progress
  <2>4. cached' # None =>
          \A k \in (cached' \ tools') \cup (tools' \ cached') : k[1] # s
    BY <1>1, <1>2, <2>1 DEF AtSkill
  <2>5. QED  BY <2>1, <2>2, <2>3, <2>4 DEF AtSkill
<1>12. QED  BY <1>3, <1>6, <1>8, <1>9, <1>10, <1>11, WorkStep

\* The server has stopped, and the call does what it stopped it for.
LEMMA StopServerStep ==
    ASSUME SkillInv, NEW c \in Calls, StopServer(c)
    PROVE  SkillInv'
<1>1. /\ SkillTypeOK /\ call[c].pc = "stopping" /\ CallOk(c) /\ AfterStop(c)
      /\ procs' = procs \ {call[c].flow} /\ cached' = None
  BY DEF SkillInv, StopServer, CallsTouch, Notify
<1>2. UNCHANGED <<tools, creds, pending, codes, logins, restarts, disturbed>>
  BY DEF StopServer, login
<1> PICK s \in Skills : s = call[c].skill
  BY <1>1, AtWork DEF OnSkill
<1>3. /\ s \in call[c].touches /\ call[c] \in Records
      /\ \A d \in Calls \ {c} : s \in call[d].touches => s \in disturbed
      /\ s \notin disturbed => AtSkill(c, s) /\ told[s] = "nothing"
      /\ call[c].flow[1] = s /\ call[c].op \notin {"install", "reload"}
  BY <1>1, AtWork DEF OnSkill, CallOk
<1>4. ASSUME s \notin disturbed'
      PROVE  /\ call[c].flow \notin procs' \cup tools /\ ~HasServer(s)
             /\ \A k \in procs' \cup tools : k[1] = s => k \in clients
  BY <1>1, <1>2, <1>3, <1>4 DEF AtSkill, Progress, Takes
<1>5. ASSUME UNCHANGED clients, IsStepOf(c), CallOk(c)',
             call'[c].pc \notin Vouching, call'[c].pc \in OnSkill => call'[c].skill = s,
             call'[c].touches \subseteq call[c].touches,
             yaml' \in SUBSET Skills, lost' \in SUBSET Skills,
             told' \in [Skills -> {"nothing", "installed", "uninstalled"}],
             \A r \in Skills : r # s => EntryStays(r) /\ told'[r] = told[r],
             s \notin disturbed' =>
                /\ told'[s] = "uninstalled" => s \in lost' \/ s \notin yaml'
                /\ told'[s] # "installed"
                /\ s \in call'[c].touches => told'[s] = "nothing"
      PROVE  SkillInv'
  <2>1. SkillTypeOK'
    BY <1>1, <1>2, <1>5 DEF SkillTypeOK, IsStepOf
  <2>2. WorksOn(c, s)
    BY <1>1, <1>2, <1>3, <1>5 DEF WorksOn, EntryStays
  <2>3. \A j, k \in clients' : j[1] = s /\ k[1] = s => j = k
    BY <1>5 DEF SkillInv, OneClientPerSkill
  <2>4. ASSUME s \notin disturbed' PROVE AtSkill(c, s)'
    <3>1. \A k \in procs' \cup tools' : k[1] = s => k \in clients'
      BY <1>2, <1>4, <1>5, <2>4
    <3>2. Progress(c)'
      BY <1>5 DEF Progress, Vouching
    <3>3. ~HasServer(s)'
      BY <1>4, <1>5, <2>4 DEF HasServer
    <3>4. QED  BY <1>1, <1>5, <2>4, <3>1, <3>2, <3>3 DEF AtSkill
  <2>5. QED  BY <1>5, <2>1, <2>2, <2>3, <2>4, WorkStep
<1>6. ASSUME End(c), UNCHANGED clients,
             Remove(s) \/ WriteFails(s, FALSE),
             Report(s, "uninstalled") \/ UNCHANGED told
      PROVE  SkillInv'
  <2>1. "done" \in Over /\ "done" \notin OnSkill /\ "done" \notin Vouching
    BY DEF Over, OnSkill, Vouching
  <2>2. IsStepOf(c) /\ call'[c].pc = "done" /\ call'[c].touches = {} /\ CallOk(c)'
    BY <1>1, <1>6, <2>1, EndStep
  <2>3. /\ yaml' \in SUBSET Skills /\ lost' \in SUBSET Skills
        /\ s \in lost' \/ s \notin yaml'
        /\ \A r \in Skills : r # s => EntryStays(r)
    BY <1>1, <1>6, DropStep DEF WritesFor
  <2>4. /\ told' \in [Skills -> {"nothing", "installed", "uninstalled"}]
        /\ told'[s] = "uninstalled" \/ told'[s] = told[s]
        /\ \A r \in Skills : r # s => told'[r] = told[r]
    BY <1>1, <1>6 DEF Report, SkillTypeOK
  <2>5. s \notin disturbed' => told'[s] # "installed"
    BY <1>2, <1>3, <2>4
  <2>6. QED  BY <1>5, <1>6, <2>1, <2>2, <2>3, <2>4, <2>5
<1>7. CASE Goto(c, "killing") /\ UNCHANGED <<yaml, lost, clients, told>>
  <2>1. "killing" \in Awaits
    BY DEF Awaits, OnSkill
  <2>2. /\ IsStepOf(c) /\ call'[c].pc = "killing" /\ call'[c].op = call[c].op
        /\ call'[c].skill = s /\ call'[c].touches = call[c].touches
        /\ call'[c].todo = call[c].todo
    BY <1>1, <1>7, <2>1, GotoStep
  <2>3. CallOk(c)' /\ call'[c].pc \notin Vouching
    BY <1>3, <2>2 DEF CallOk, Over, Vouching
  <2>4. /\ yaml' \in SUBSET Skills /\ lost' \in SUBSET Skills
        /\ \A r \in Skills : r # s => EntryStays(r) /\ told'[r] = told[r]
        /\ told' \in [Skills -> {"nothing", "installed", "uninstalled"}]
    BY <1>1, <1>7 DEF SkillTypeOK, EntryStays
  <2>5. s \notin disturbed' => told'[s] = "nothing"
    BY <1>2, <1>3, <1>7
  <2>6. QED  BY <1>5, <1>7, <2>2, <2>3, <2>4, <2>5
<1>8. CASE AddServer(c, call[c]) /\ UNCHANGED <<yaml, lost, told>>
  <2>1. IsStepOf(c) /\ clients' \in SUBSET Keys
    BY <1>1, <1>3, <1>8, AddedClient
  <2>2. SkillTypeOK'
    BY <1>1, <1>2, <1>8, <2>1 DEF SkillTypeOK, IsStepOf
  <2>3. s \notin disturbed' => \A k \in procs' \cup tools : ~Takes(c, k)
    BY <1>1, <1>4 DEF Takes
  <2>4. procs' \subseteq procs /\ \A k \in procs \ procs' : k[1] = s
    BY <1>1, <1>3
  <2>5. \A r \in Skills : r # s => EntryStays(r) /\ told'[r] = told[r]
    BY <1>8 DEF EntryStays
  <2>6. QED  BY <1>1, <1>2, <1>3, <1>8, <2>2, <2>3, <2>4, <2>5, AddStep
<1>9. CASE End(c) /\ UNCHANGED <<yaml, lost, clients, told>>
  <2>1. "done" \in Over /\ "done" \notin OnSkill /\ "done" \notin Vouching
    BY DEF Over, OnSkill, Vouching
  <2>2. IsStepOf(c) /\ call'[c].pc = "done" /\ call'[c].touches = {} /\ CallOk(c)'
    BY <1>1, <1>9, <2>1, EndStep
  <2>3. /\ yaml' \in SUBSET Skills /\ lost' \in SUBSET Skills
        /\ \A r \in Skills : r # s => EntryStays(r) /\ told'[r] = told[r]
        /\ told' \in [Skills -> {"nothing", "installed", "uninstalled"}]
    BY <1>1, <1>9 DEF SkillTypeOK, EntryStays
  <2>4. s \notin disturbed' => told'[s] = "nothing"
    BY <1>2, <1>3, <1>9
  <2>5. QED  BY <1>5, <1>9, <2>1, <2>2, <2>3, <2>4
<1>10. QED  BY <1>1, <1>6, <1>7, <1>8, <1>9 DEF AfterStop, Respawn, file

\* A call that is cut off disturbs what it works on.
LEMMA CancelStep ==
    ASSUME SkillInv, NEW c \in Calls, Cancel(c)
    PROVE  SkillInv'
<1>1. /\ SkillTypeOK /\ CallOk(c) /\ call[c] \in Records
      /\ call[c].pc \notin Over /\ End(c)
      /\ disturbed' = disturbed \cup call[c].touches
      /\ \/ UNCHANGED procs
         \/ call[c].pc = "starting" /\ procs' = procs \cup {Client(c)}
         \/ call[c].pc = "stopping" /\ procs' = procs \ {call[c].flow}
  BY DEF SkillInv, SkillTypeOK, CallsTouch, Cancel, UnderWay
<1>2. UNCHANGED <<yaml, lost, clients, tools, cached, creds, pending, codes, logins, restarts, told>>
  BY DEF Cancel, login, file
<1>3. "done" \in Over /\ "done" \notin OnSkill
  BY DEF Over, OnSkill
<1>4. IsStepOf(c) /\ call'[c].pc = "done" /\ call'[c].touches = {} /\ CallOk(c)'
  BY <1>1, <1>3, EndStep
<1>5. disturbed' \in SUBSET Skills
  BY <1>1 DEF SkillTypeOK, Records
<1>6. CASE call[c].pc \in OnSkill
  <2> PICK s \in Skills : s = call[c].skill
    BY <1>6, AtWork
  <2>1. s \in disturbed' /\ Client(c) \in Keys /\ Client(c)[1] = s
    BY <1>1, <1>6, AtWork DEF Client
  <2>2. procs' \in SUBSET Keys /\ \A k \in Keys : k[1] # s => (k \in procs' <=> k \in procs)
    BY <1>1, <2>1 DEF SkillTypeOK, CallOk
  <2>3. SkillTypeOK'
    BY <1>1, <1>2, <1>4, <1>5, <2>2 DEF SkillTypeOK, IsStepOf
  <2>4. WorksOn(c, s)
    BY <1>1, <1>2, <1>3, <1>4, <2>1, <2>2 DEF WorksOn, EntryStays
  <2>5. \A j, k \in clients' : j[1] = s /\ k[1] = s => j = k
    BY <1>2 DEF SkillInv, OneClientPerSkill
  <2>6. QED  BY <1>4, <2>1, <2>3, <2>4, <2>5, WorkStep
<1>7. CASE call[c].pc = "reloading"
  <2>1. UNCHANGED procs
    BY <1>1, <1>7
  <2>2. SkillTypeOK'
    BY <1>1, <1>2, <1>4, <1>5, <2>1 DEF SkillTypeOK, IsStepOf
  <2>3. call[c].pc \notin Vouching /\ disturbed \subseteq disturbed'
    BY <1>1, <1>7 DEF Vouching
  <2>4. QED  BY <1>1, <1>2, <1>3, <2>1, <2>2, <2>3, QuietEnd
<1>8. QED  BY <1>1, <1>6, <1>7 DEF Records, Awaits

-----------------------------------------------------------------------------
\* The invariant reads neither logins nor restarts.
LEMMA SkillInvKept ==
    ASSUME SkillInv, SkillTypeOK',
           UNCHANGED <<yaml, lost, clients, procs, tools, cached, call, told, disturbed>>
    PROVE  SkillInv'
<1>1. CallsTouch' /\ OneCallPerSkill' /\ OneClientPerSkill'
  BY DEF SkillInv, CallsTouch, CallOk, OneCallPerSkill, OneClientPerSkill
<1>2. Leftovers' /\ NothingToldYet'
  BY DEF SkillInv, Leftovers, Takes, Client, NothingToldYet
<1>3. CallsProgress'
  BY DEF SkillInv, CallsProgress, Progress, Client, HasServer
<1>4. ReportIsPersisted' /\ CachedAgentIsCurrent'
  BY DEF SkillInv, ReportIsPersisted, HasServer, CachedAgentIsCurrent, UnderWay
<1>5. QED  BY <1>1, <1>2, <1>3, <1>4 DEF SkillInv

\* Users approve a login, tokens expire, a login ends by itself.
LEMMA LoginWorldStep ==
    ASSUME SkillInv,
           \/ \E c \in Calls : Approve(c) \/ LoginAlone(c)
           \/ \E s \in Skills : Expire(s)
    PROVE  SkillInv'
<1>1. SkillTypeOK
  BY DEF SkillInv
<1>2. UNCHANGED <<yaml, lost, clients, procs, tools, cached, call, restarts, told, disturbed>>
  BY DEF Approve, LoginAlone, Expire, toolset, history, file
<1>3. /\ creds' \in SUBSET Skills /\ pending' \in [Skills -> Calls \cup {None}]
      /\ codes' \in SUBSET Calls /\ logins' \in SUBSET Calls
  <2>1. CASE \E c \in Calls : Approve(c)
    BY <1>1, <2>1 DEF Approve, SkillTypeOK
  <2>2. ASSUME NEW c \in Calls, LoginAlone(c)
        PROVE  /\ creds' \in SUBSET Skills /\ pending' \in [Skills -> Calls \cup {None}]
               /\ codes' \in SUBSET Calls /\ logins' \in SUBSET Calls
    <3>1. /\ logins' = logins \ {c}
          /\ \/ \E s \in Skills : Exchange(s, c)
             \/ UNCHANGED <<creds, pending, codes>>
      BY <2>2 DEF LoginAlone
    <3>2. logins' \in SUBSET Calls
      BY <1>1, <3>1 DEF SkillTypeOK
    <3>3. CASE \E s \in Skills : Exchange(s, c)
      BY <1>1, <3>2, <3>3, ExchangeType
    <3>4. CASE UNCHANGED <<creds, pending, codes>>
      BY <1>1, <3>2, <3>4 DEF SkillTypeOK
    <3>5. QED  BY <3>1, <3>3, <3>4
  <2>3. CASE \E s \in Skills : Expire(s)
    BY <1>1, <2>3 DEF Expire, SkillTypeOK
  <2>4. QED  BY <2>1, <2>2, <2>3
<1>4. SkillTypeOK'
  BY <1>1, <1>2, <1>3 DEF SkillTypeOK
<1>5. QED  BY <1>2, <1>4, SkillInvKept

\* The user edits skills.yaml: calls that have read it are disturbed.
LEMMA EditYamlStep ==
    ASSUME SkillInv, NEW s \in Skills, EditYaml(s)
    PROVE  SkillInv'
<1>1. /\ SkillTypeOK /\ CallsTouch /\ Rewrite(s, TRUE, yaml \cup {s}) /\ Begin({s})
      /\ UNCHANGED <<clients, procs, tools, cached, creds, pending, codes, logins, call, restarts>>
  BY DEF SkillInv, EditYaml, login, toolset
<1>2. \A d \in Calls : s \in call[d].touches => d \in UnderWay
  BY <1>1 DEF CallsTouch, CallOk, UnderWay
<1>3. /\ disturbed \subseteq disturbed' /\ disturbed' \in SUBSET Skills
      /\ told' \in [Skills -> {"nothing", "installed", "uninstalled"}]
      /\ \A r \in Skills : told'[r] = told[r] \/ told'[r] = "nothing"
      /\ told'[s] = "nothing"
      /\ \A d \in Calls : s \in call[d].touches => s \in disturbed'
  BY <1>1, <1>2 DEF Begin, SkillTypeOK
<1>4. /\ yaml' \in SUBSET Skills /\ lost' \in SUBSET Skills
      /\ \A r \in Skills : r # s => EntryStays(r)
  BY <1>1, RewriteStep DEF SkillTypeOK, WritesFor
<1>5. SkillTypeOK'
  BY <1>1, <1>3, <1>4 DEF SkillTypeOK
<1>6. CallsTouch' /\ OneCallPerSkill' /\ OneClientPerSkill'
  BY <1>1, <1>3 DEF SkillInv, CallsTouch, CallOk, OneCallPerSkill, OneClientPerSkill
<1>7. Leftovers'
  BY <1>1, <1>3 DEF SkillInv, Leftovers, Takes, Client
<1>8. CallsProgress'
  <2> SUFFICES ASSUME NEW d \in Calls, call[d].skill \notin disturbed' PROVE Progress(d)'
    BY <1>1 DEF CallsProgress
  <2>1. Progress(d)
    BY <1>3 DEF SkillInv, CallsProgress
  <2>2. ASSUME call[d].pc \in OnSkill
        PROVE  call[d].skill \in Skills /\ call[d].skill # s
    BY <1>1, <1>3, <2>2 DEF CallsTouch, CallOk, SkillTypeOK, Records
  <2>3. call[d].pc \in {"starting", "listing"} =>
          (call[d].skill \in lost \cup yaml => call[d].skill \in lost' \cup yaml')
    BY <1>4, <2>2 DEF OnSkill, EntryStays
  <2>4. QED  BY <1>1, <2>1, <2>3 DEF Progress, Client, HasServer
<1>9. NothingToldYet'
  BY <1>1, <1>3 DEF SkillInv, NothingToldYet, SkillTypeOK, Records
<1>10. ReportIsPersisted'
  <2> SUFFICES ASSUME NEW r \in Skills \ disturbed'
               PROVE  /\ told'[r] = "installed" => r \in lost' \/ r \in yaml'
                      /\ told'[r] = "uninstalled" =>
                           r \in lost' \/ (r \notin yaml' /\ ~HasServer(r)')
    BY DEF ReportIsPersisted
  <2>1. CASE r = s
    BY <1>3, <2>1
  <2>2. CASE r # s
    BY <1>1, <1>3, <1>4, <2>2 DEF EntryStays, SkillInv, ReportIsPersisted, HasServer
  <2>3. QED  BY <2>1, <2>2
<1>11. CachedAgentIsCurrent'
  BY <1>1, <1>3 DEF SkillInv, CachedAgentIsCurrent, UnderWay
<1>12. QED
  BY <1>5, <1>6, <1>7, <1>8, <1>9, <1>10, <1>11 DEF SkillInv

\* An agent that is built holds the tools of the moment.
LEMMA BuildAgentStep ==
    ASSUME SkillInv, BuildAgent
    PROVE  SkillInv'
<1>1. /\ SkillTypeOK /\ cached' = tools
      /\ UNCHANGED <<yaml, lost, clients, procs, tools, creds, pending, codes, logins, call,
                     restarts, told, disturbed>>
  BY DEF SkillInv, BuildAgent, login, history, file
<1>2. SkillTypeOK'
  BY <1>1 DEF SkillTypeOK
<1>3. CallsTouch' /\ OneCallPerSkill' /\ OneClientPerSkill'
  BY <1>1 DEF SkillInv, CallsTouch, CallOk, OneCallPerSkill, OneClientPerSkill
<1>4. Leftovers' /\ NothingToldYet'
  BY <1>1 DEF SkillInv, Leftovers, Takes, Client, NothingToldYet
<1>5. CallsProgress'
  BY <1>1 DEF SkillInv, CallsProgress, Progress, Client, HasServer
<1>6. ReportIsPersisted' /\ CachedAgentIsCurrent'
  BY <1>1 DEF SkillInv, ReportIsPersisted, HasServer, CachedAgentIsCurrent
<1>7. QED  BY <1>2, <1>3, <1>4, <1>5, <1>6 DEF SkillInv

\* After a restart the clients are those of skills.yaml, and no call is under way.
LEMMA RestartStep ==
    ASSUME SkillInv, Restart
    PROVE  SkillInv'
<1> DEFINE booted == {<<s, Boot>> : s \in yaml}
<1>1. /\ SkillTypeOK /\ CallsTouch /\ cached' = None /\ clients' = booted
      /\ restarts < MaxRestarts /\ restarts' = restarts + 1
      /\ UNCHANGED <<yaml, lost, creds, pending, codes, logins, told, disturbed>>
  BY DEF SkillInv, Restart, login, history, file
<1>2. procs' \subseteq booted /\ tools' \subseteq booted
  BY DEF Restart
<1>3. /\ \A k \in booted : k \in Keys
      /\ \A j, k \in booted : j[1] = k[1] => j = k
      /\ \A s \in Skills \ yaml : \A k \in booted : k[1] # s
  BY <1>1 DEF Keys, SkillTypeOK
<1> HIDE DEF booted
<1>4. [NoCall EXCEPT !.pc = "done"] \in Records
      /\ [NoCall EXCEPT !.pc = "done"].pc = "done"
      /\ [NoCall EXCEPT !.pc = "done"].op = "install"
      /\ [NoCall EXCEPT !.pc = "done"].touches = {}
  BY NoCallRecord, GoesOnRecord DEF Awaits, Over, NoCall
<1>5. call' \in [Calls -> Records]
  BY <1>1, <1>4 DEF Restart, SkillTypeOK
<1>6. \A d \in Calls : call'[d].pc \in Over /\ call'[d].touches = {} /\ CallOk(d)'
  <2> SUFFICES ASSUME NEW d \in Calls
               PROVE  call'[d].pc \in Over /\ call'[d].touches = {} /\ CallOk(d)'
    OBVIOUS
  <2>1. CASE d \in UnderWay
    <3>1. call'[d] = [NoCall EXCEPT !.pc = "done"]
      BY <2>1 DEF Restart
    <3>2. QED  BY <1>4, <3>1 DEF CallOk, Over, OnSkill
  <2>2. CASE d \notin UnderWay
    <3>1. call'[d] = call[d]
      BY <2>2 DEF Restart
    <3>2. QED  BY <1>1, <2>2, <3>1 DEF UnderWay, CallsTouch, CallOk, Over
  <2>3. QED  BY <2>1, <2>2
<1>7. restarts' \in 0 .. MaxRestarts
  BY <1>1, SkillAssumption DEF SkillTypeOK
<1>8. SkillTypeOK'
  BY <1>1, <1>2, <1>3, <1>5, <1>7 DEF SkillTypeOK
<1>9. CallsTouch' /\ OneCallPerSkill' /\ OneClientPerSkill' /\ Leftovers' /\ NothingToldYet'
  BY <1>1, <1>2, <1>3, <1>6
     DEF CallsTouch, OneCallPerSkill, OneClientPerSkill, Leftovers, NothingToldYet
<1>10. CallsProgress'
  BY <1>6 DEF CallsProgress, Progress, Over
<1>11. ReportIsPersisted'
  BY <1>1, <1>3 DEF SkillInv, ReportIsPersisted, HasServer
<1>12. CachedAgentIsCurrent'
  BY <1>1 DEF CachedAgentIsCurrent
<1>13. QED  BY <1>8, <1>9, <1>10, <1>11, <1>12 DEF SkillInv

-----------------------------------------------------------------------------
\* Nothing is installed and nobody calls at first.
LEMMA InitSkillInv == Init => SkillInv
<1> SUFFICES ASSUME Init PROVE SkillInv
  OBVIOUS
<1>1. \A c \in Calls : call[c] = NoCall
  BY DEF Init
<1>2. NoCall.pc = "new" /\ NoCall.touches = {} /\ NoCall.op = "install"
  BY DEF NoCall
<1>3. SkillTypeOK
  BY NoCallRecord, SkillAssumption DEF Init, SkillTypeOK
<1>4. CallsTouch /\ OneCallPerSkill /\ NothingToldYet
  BY <1>1, <1>2 DEF CallsTouch, CallOk, OneCallPerSkill, NothingToldYet, OnSkill, Over
<1>5. OneClientPerSkill /\ Leftovers
  BY DEF Init, OneClientPerSkill, Leftovers
<1>6. CallsProgress
  BY <1>1, <1>2 DEF CallsProgress, Progress
<1>7. ReportIsPersisted /\ CachedAgentIsCurrent
  BY DEF Init, ReportIsPersisted, CachedAgentIsCurrent
<1>8. QED  BY <1>3, <1>4, <1>5, <1>6, <1>7 DEF SkillInv

\* Every step keeps the invariant.
LEMMA NextSkillInv == SkillInv /\ [Next]_vars => SkillInv'
<1> SUFFICES ASSUME SkillInv, [Next]_vars PROVE SkillInv'
  OBVIOUS
<1>1. ASSUME NEW c \in Calls, ManageTool(c) PROVE SkillInv'
  BY <1>1, InstallStep, UninstallStep, ReloadStep DEF ManageTool
<1>2. ASSUME NEW c \in Calls, LoginTool(c) PROVE SkillInv'
  BY <1>2, ReauthStep, CompleteStep DEF LoginTool
<1>3. ASSUME NEW c \in Calls, Step(c) PROVE SkillInv'
  BY <1>1, <1>2, <1>3, StartLoginStep, LoginSucceedsStep, LoginFailsStep, ReloadNextStep,
     StartServerStep, ListToolsStep, StartFailsStep, ListingFailsStep, UndoStep,
     StopServerStep, CancelStep DEF Step
<1>4. CASE UNCHANGED vars
  <2>1. SkillTypeOK'
    BY <1>4 DEF SkillInv, SkillTypeOK, vars
  <2>2. QED  BY <1>4, <2>1, SkillInvKept DEF vars
<1>5. QED
  BY <1>3, <1>4, LoginWorldStep, EditYamlStep, BuildAgentStep, RestartStep DEF Next

\* For any number of skills and calls, with logins, failures, cancellations, edits of
\* skills.yaml, reads and writes of it that fail, and restarts at any point: a skill has
\* one client at most, tools and processes of an undisturbed skill belong to the list,
\* the last report on it is what skills.yaml says unless its entry was lost, and a
\* cached agent has the tools of the moment.
THEOREM SkillsCorrect == Spec => []SkillsAgree
<1>1. SkillInv => SkillsAgree
  <2> SUFFICES ASSUME SkillInv PROVE SkillsAgree
    OBVIOUS
  <2>1. NothingLeftBehind
    <3> SUFFICES ASSUME NEW k \in tools \cup procs, k \notin clients, k[1] \notin disturbed
                 PROVE  \E c \in UnderWay : k[1] \in call[c].touches
      BY DEF NothingLeftBehind
    <3>1. PICK c \in Calls : Takes(c, k)
      BY DEF SkillInv, Leftovers
    <3>2. call[c].pc \in OnSkill /\ call[c].pc \notin Over /\ call[c].skill = k[1]
      BY <3>1 DEF Takes, OnSkill, Over
    <3>3. QED  BY <3>2 DEF SkillInv, CallsTouch, CallOk, UnderWay
  <2>2. QED  BY <2>1 DEF SkillInv, SkillsAgree, CallsLeaveWhatTheySay
<1>2. QED  BY <1>1, InitSkillInv, NextSkillInv, PTL DEF Spec
=============================================================================
