------------------------ MODULE HostExecBrokerProofs ------------------------
(***************************************************************************)
(* Theorems about HostExecBroker, for any requests, presses, commands and  *)
(* verdicts: what runs is justified, a group has its timer, and a peer     *)
(* that goes away starts nothing and leaves no card.                       *)
(***************************************************************************)
EXTENDS HostExecBroker, TLAPS

-----------------------------------------------------------------------------
(* The invariants. *)

\* Where a handler is before anybody may be asked about its request.
Early == {"idle", "resolving", "checking"}

\* A handler past its arrival has a command, one that checks has a rule that lets it
\* run or ask; the index leads to the command's own key; a request names no group
\* before it asks.
HandlersFit ==
    \A r \in Requests :
      /\ pc[r] # "idle" => cmd[r] \in Commands
      /\ pc[r] = "checking" => cmd[r].approval \in {"allow", "prompt"}
      /\ pc[r] \in Early => keyOf[r] = None /\ r \notin started
      /\ index[r] # None => pc[r] \notin Early /\ index[r] = cmd[r].key

Live(g) == \E k \in Keys : groups[k] = g

\* A group is in the map under its own key; whoever holds a group or a timer holds one
\* that was created; only requests that have asked are members.
GroupsFit ==
    /\ \A k \in Keys : groups[k] # None => keyOf[groups[k]] = k
    /\ \A g \in Requests : timer[g] # "unset" => keyOf[g] # None
    /\ \A r \in Requests : cleaning[r] # None => keyOf[cleaning[r]] # None
    /\ \A g \in Requests : \A r \in members[g] : pc[r] \notin Early

Running(t) == job[t].pc \in {"closing", "removing", "quieting", "auditing", "running"}

\* A resolver answers only requests that its press or timer covers: the group it loops
\* over is out of the map for good, so that nobody joins it any more.
JobFits(t) ==
    /\ job[t].pc = "idle" => job[t].outcome = "none"
    /\ job[t].outcome = "approve" => t \in Presses
    /\ \A r \in job[t].covers : pc[r] \notin Early
    /\ Running(t) =>
         /\ job[t].group \in Requests /\ keyOf[job[t].group] # None
         /\ job[t].todo \subseteq job[t].covers
         /\ job[t].scope = "once" => job[t].todo = {} /\ job[t].pc # "closing"
         /\ job[t].scope # "once" => ~Live(job[t].group)
         /\ job[t].pc = "closing" => members[job[t].group] \subseteq job[t].covers
         /\ job[t].pc # "closing" => job[t].cur \in job[t].covers

JobsFit == \A t \in Presses \cup Requests : JobFits(t)

\* A person approved the capability with key k.
Allowed(k) ==
    \E p \in Presses :
      /\ Approved(p) /\ job[p].scope = "capability"
      /\ job[p].target \in Requests /\ pc[job[p].target] # "idle" /\ cmd[job[p].target].key = k

\* Every remembered capability was approved by a press on a card that asked for it.
MemoryFits == \A k \in approvedKeys : Allowed(k)

\* What may run without a card: the file is unchanged, and a rule or an earlier press allows it.
AtOnce(r) == verdict[r] = "pass" /\ (cmd[r].approval = "allow" \/ Allowed(cmd[r].key))

Covered(r) == \E p \in Presses : Approved(p) /\ r \in job[p].covers

\* Whoever is about to run, or has been started, is justified.
RunsFit ==
    /\ \A r \in Requests : pc[r] = "admitting" => AtOnce(r)
    /\ \A r \in started : AtOnce(r) \/ Covered(r)

Inv == TypeOK /\ HandlersFit /\ GroupsFit /\ JobsFit /\ MemoryFits /\ RunsFit

\* A request is cleaned up exactly when it was cancelled, and once its entry was removed
\* only its own handler, which looks again after the write, may put it back.
CardsFit ==
    \A r \in Requests :
      /\ Cancelled(r) <=> cleanup[r] # "none"
      /\ cleanup[r] \in {"closing", "closing waiter", "done"} /\ r \in files
           => pc[r] \in {"writing", "written", "leaving"}

-----------------------------------------------------------------------------
(* Types. *)

USE DEF vars, request, tidying, grouping, disk

\* The types of a handler, of a lifecycle with its cleanup, of the groups, and of the rest.
HandlerTypes ==
    /\ cmd \in [Requests -> Commands \cup {None}]
    /\ pc \in [Requests -> {"idle", "resolving", "checking", "refusing", "admitting", "running",
                            "writing", "written", "leaving", "waiting", "done"}]
    /\ verdict \in [Requests -> {"none", "pass", "prompt", "error"}]

LifeTypes ==
    /\ life \in [Requests -> {"preflight", "awaiting", "running", "terminal", "cancelled"}]
    /\ cleanup \in [Requests -> {"none", "started", "removing", "removing waiter", "closing",
                                 "closing waiter", "done", "failed"}]
    /\ cleaning \in [Requests -> Requests \cup {None}]
    /\ answer \in [Requests -> {"none", "fallback", "denied", "ran", "closed"}]

SetTypes ==
    /\ deferred \subseteq Requests /\ started \subseteq Requests /\ released \subseteq Requests
    /\ files \subseteq Requests /\ shown \subseteq Requests /\ approvedKeys \subseteq Keys
    /\ closing \in {"open", "telling", "settling", "cleared", "closed"}

GroupTypes ==
    /\ groups \in [Keys -> Requests \cup {None}]
    /\ keyOf \in [Requests -> Keys \cup {None}]
    /\ members \in [Requests -> SUBSET Requests]
    /\ timer \in [Requests -> {"unset", "armed", "cleared", "fired"}]
    /\ index \in [Requests -> Keys \cup {None}]

JobTypes == job \in [Presses \cup Requests -> Jobs]

\* The parts together are the types.
LEMMA TypeParts ==
    TypeOK <=> HandlerTypes /\ LifeTypes /\ SetTypes /\ GroupTypes /\ JobTypes
  BY Zenon DEF TypeOK, HandlerTypes, LifeTypes, SetTypes, GroupTypes, JobTypes

\* The same of the next state.
LEMMA TypePartsNext ==
    TypeOK' <=> HandlerTypes' /\ LifeTypes' /\ SetTypes' /\ GroupTypes' /\ JobTypes'
  BY Zenon DEF TypeOK, HandlerTypes, LifeTypes, SetTypes, GroupTypes, JobTypes

\* What does not change keeps its type.
LEMMA TypesKept ==
    /\ UNCHANGED <<cmd, pc, verdict>> => (HandlerTypes' <=> HandlerTypes)
    /\ UNCHANGED <<life, tidying, answer>> => (LifeTypes' <=> LifeTypes)
    /\ UNCHANGED <<deferred, started, released, disk, approvedKeys, closing>> => (SetTypes' <=> SetTypes)
    /\ UNCHANGED grouping => (GroupTypes' <=> GroupTypes)
    /\ UNCHANGED job => (JobTypes' <=> JobTypes)
  BY DEF HandlerTypes, LifeTypes, SetTypes, GroupTypes, JobTypes

\* The parts of Inv.
LEMMA InvParts ==
    ASSUME Inv
    PROVE  /\ HandlerTypes /\ LifeTypes /\ SetTypes /\ GroupTypes /\ JobTypes
           /\ HandlersFit /\ GroupsFit /\ JobsFit /\ MemoryFits /\ RunsFit
           /\ None \notin Keys /\ None \notin Requests /\ None \notin Commands
           /\ \A c \in Commands : c.key \in Keys
  BY TypeParts, HostExecAssumption DEF Inv

\* The handler's steps keep the types.
LEMMA HandlerStepTypes ==
    ASSUME Inv, NEW r \in Requests,
           (\E c \in Commands : Receive(r, c)) \/ HandlerStep(r) \/ RunEnds(r) \/ PeerLeaves(r)
    PROVE  TypeOK'
<1>0. /\ HandlerTypes /\ LifeTypes /\ SetTypes /\ GroupTypes /\ JobTypes /\ HandlersFit
      /\ Verdicts \subseteq {"pass", "prompt", "error"} /\ \A c \in Commands : c.key \in Keys
  BY InvParts, HostExecAssumption
<1>1. CASE \E c \in Commands : Receive(r, c)
  <2>1. UNCHANGED <<life, tidying, answer, deferred, started, released, disk, approvedKeys, closing, grouping, job>>
    BY <1>1 DEF Receive
  <2>2. HandlerTypes'
    BY <1>0, <1>1 DEF Receive, HandlerTypes
  <2> QED
    BY <1>0, <2>1, <2>2, TypesKept, TypePartsNext
<1>2. CASE Resolve(r)
  <2>1. UNCHANGED <<deferred, started, released, disk, approvedKeys, closing, grouping, job>>
    BY <1>2 DEF Resolve
  <2>2. HandlerTypes'
    BY <1>0, <1>2 DEF Resolve, HandlerTypes
  <2>3. LifeTypes'
    BY <1>0, <1>2 DEF Resolve, LifeTypes
  <2> QED
    BY <1>0, <2>1, <2>2, <2>3, TypesKept, TypePartsNext
<1>3. CASE Audited(r)
  <2>1. UNCHANGED <<grouping, job>>
    BY <1>3 DEF Audited
  <2>2. HandlerTypes'
    BY <1>0, <1>3 DEF Audited, HandlerTypes
  <2>3. LifeTypes'
    BY <1>0, <1>3 DEF Audited, LifeTypes
  <2>4. SetTypes'
    BY <1>0, <1>3 DEF Audited, SetTypes
  <2> QED
    BY <1>0, <2>1, <2>2, <2>3, <2>4, TypesKept, TypePartsNext
<1>4. CASE EntryVisible(r)
  <2>1. UNCHANGED <<life, tidying, answer, grouping, job>>
    BY <1>4 DEF EntryVisible
  <2>2. HandlerTypes'
    BY <1>0, <1>4 DEF EntryVisible, HandlerTypes
  <2>3. SetTypes'
    BY <1>0, <1>4 DEF EntryVisible, SetTypes
  <2> QED
    BY <1>0, <2>1, <2>2, <2>3, TypesKept, TypePartsNext
<1>5. CASE Resume(r)
  <2>1. UNCHANGED <<life, tidying, answer, deferred, started, released, disk, approvedKeys, closing, grouping, job>>
    BY <1>5 DEF Resume
  <2>2. HandlerTypes'
    BY <1>0, <1>5 DEF Resume, HandlerTypes
  <2> QED
    BY <1>0, <2>1, <2>2, TypesKept, TypePartsNext
<1>6. CASE Leave(r) \/ LeaveFails(r)
  <2>1. UNCHANGED <<grouping, job>>
    BY <1>6 DEF Leave, LeaveFails
  <2>2. HandlerTypes'
    BY <1>0, <1>6 DEF Leave, LeaveFails, HandlerTypes
  <2>3. LifeTypes'
    BY <1>0, <1>6 DEF Leave, LeaveFails, LifeTypes
  <2>4. SetTypes'
    BY <1>0, <1>6 DEF Leave, LeaveFails, SetTypes
  <2> QED
    BY <1>0, <2>1, <2>2, <2>3, <2>4, TypesKept, TypePartsNext
<1>7. CASE WakeUp(r)
  <2>1. UNCHANGED <<life, tidying, answer, deferred, started, released, disk, approvedKeys, closing, grouping, job>>
    BY <1>7 DEF WakeUp
  <2>2. HandlerTypes'
    BY <1>0, <1>7 DEF WakeUp, HandlerTypes
  <2> QED
    BY <1>0, <2>1, <2>2, TypesKept, TypePartsNext
<1>8. ASSUME NEW v \in Verdicts, Check(r, v) PROVE TypeOK'
  <2>1. Outcome(r, v) \in {"refusing", "admitting", "asking"}
    BY DEF Outcome
  <2>2. UNCHANGED <<life, tidying, answer, deferred, started, released, disk, approvedKeys, closing, grouping, job>>
    BY <1>8 DEF Check
  <2>3. HandlerTypes'
    BY <1>0, <1>8, <2>1 DEF Check, HandlerTypes
  <2> QED
    BY <1>0, <2>2, <2>3, TypesKept, TypePartsNext
<1>9. ASSUME NEW v \in Verdicts, AskWithdrawn(r, v) PROVE TypeOK'
  <2>1. UNCHANGED <<grouping, job>>
    BY <1>9 DEF AskWithdrawn
  <2>2. HandlerTypes'
    BY <1>0, <1>9 DEF AskWithdrawn, HandlerTypes
  <2>3. LifeTypes'
    BY <1>0, <1>9 DEF AskWithdrawn, LifeTypes
  <2>4. SetTypes'
    BY <1>0, <1>9 DEF AskWithdrawn, SetTypes
  <2> QED
    BY <1>0, <2>1, <2>2, <2>3, <2>4, TypesKept, TypePartsNext
<1>10. ASSUME NEW v \in Verdicts, Ask(r, v) PROVE TypeOK'
  <2>1. PICK k \in Keys : k = cmd[r].key
    BY <1>0, <1>10 DEF Ask, HandlersFit
  <2>2. PICK g \in Requests : g = IF groups[k] = None THEN r ELSE groups[k]
    BY <1>0 DEF GroupTypes
  <2>3. UNCHANGED <<deferred, started, released, disk, approvedKeys, closing, job>>
    BY <1>10 DEF Ask
  <2>4. HandlerTypes'
    BY <1>0, <1>10, <2>1, <2>2 DEF Ask, HandlerTypes
  <2>5. LifeTypes'
    BY <1>0, <1>10, <2>1, <2>2 DEF Ask, LifeTypes
  <2>6. GroupTypes'
    BY <1>0, <1>10, <2>1, <2>2 DEF Ask, GroupTypes
  <2> QED
    BY <1>0, <2>3, <2>4, <2>5, <2>6, TypesKept, TypePartsNext
<1>11. CASE RunEnds(r)
  <2>1. UNCHANGED <<deferred, started, released, disk, approvedKeys, closing, grouping, job>>
    BY <1>11 DEF RunEnds
  <2>2. HandlerTypes'
    BY <1>0, <1>11 DEF RunEnds, HandlerTypes
  <2>3. LifeTypes'
    BY <1>0, <1>11 DEF RunEnds, LifeTypes
  <2> QED
    BY <1>0, <2>1, <2>2, <2>3, TypesKept, TypePartsNext
<1>12. CASE PeerLeaves(r)
  <2>1. UNCHANGED <<cmd, pc, verdict, grouping, job>>
    BY <1>12 DEF PeerLeaves, Cancel
  <2>2. LifeTypes'
    BY <1>0, <1>12 DEF PeerLeaves, Cancel, LifeTypes
  <2>3. SetTypes'
    BY <1>0, <1>12 DEF PeerLeaves, Cancel, SetTypes
  <2> QED
    BY <1>0, <2>1, <2>2, <2>3, TypesKept, TypePartsNext
<1> QED
  BY <1>1, <1>2, <1>3, <1>4, <1>5, <1>6, <1>7, <1>8, <1>9, <1>10, <1>11, <1>12 DEF HandlerStep

\* removePendingRequest keeps the types.
LEMMA CleanupTypes ==
    ASSUME Inv, NEW r \in Requests, CleanupStep(r)
    PROVE  TypeOK'
<1>0. HandlerTypes /\ LifeTypes /\ SetTypes /\ GroupTypes /\ JobTypes
  BY InvParts
<1>1. CASE CleanupBegin(r)
  <2>1. PICK g \in Requests \cup {None} : g = FindGroupByRequestId(r)
    BY <1>0 DEF FindGroupByRequestId, GroupTypes
  <2>2. UNCHANGED <<cmd, pc, verdict, deferred, started, released, disk, approvedKeys, closing, job>>
    BY <1>1 DEF CleanupBegin
  <2>3. LifeTypes'
    BY <1>0, <1>1, <2>1 DEF CleanupBegin, LifeTypes
  <2>4. GroupTypes'
    BY <1>0, <1>1, <2>1 DEF CleanupBegin, GroupTypes
  <2> QED
    BY <1>0, <2>2, <2>3, <2>4, TypesKept, TypePartsNext
<1>2. CASE CleanupRemoved(r)
  <2>1. UNCHANGED <<cmd, pc, verdict, job>>
    BY <1>2 DEF CleanupRemoved
  <2>2. LifeTypes'
    BY <1>0, <1>2 DEF CleanupRemoved, LifeTypes
  <2>3. SetTypes'
    BY <1>0, <1>2 DEF CleanupRemoved, SetTypes
  <2>4. GroupTypes'
    BY <1>0, <1>2 DEF CleanupRemoved, GroupTypes
  <2> QED
    BY <1>0, <2>1, <2>2, <2>3, <2>4, TypesKept, TypePartsNext
<1>3. CASE CleanupFails(r) \/ CleanupClosed(r)
  <2>1. UNCHANGED <<cmd, pc, verdict, grouping, job>>
    BY <1>3 DEF CleanupFails, CleanupClosed
  <2>2. LifeTypes'
    BY <1>0, <1>3 DEF CleanupFails, CleanupClosed, LifeTypes
  <2>3. SetTypes'
    BY <1>0, <1>3 DEF CleanupFails, CleanupClosed, SetTypes
  <2> QED
    BY <1>0, <2>1, <2>2, <2>3, TypesKept, TypePartsNext
<1> QED
  BY <1>1, <1>2, <1>3 DEF CleanupStep

\* The group that a card or a timer leads to was created for the same key.
LEMMA FoundGroup ==
    ASSUME Inv
    PROVE  /\ \A r \in Requests : FindGroupByRequestId(r) # None =>
                 /\ FindGroupByRequestId(r) \in Requests
                 /\ groups[cmd[r].key] = FindGroupByRequestId(r)
                 /\ cmd[r].key \in Keys /\ pc[r] \notin Early
                 /\ keyOf[FindGroupByRequestId(r)] = cmd[r].key
           /\ \A g \in Requests : timer[g] = "armed" =>
                 /\ keyOf[g] \in Keys
                 /\ groups[keyOf[g]] # None =>
                      groups[keyOf[g]] \in Requests /\ keyOf[groups[keyOf[g]]] = keyOf[g]
<1>0. GroupTypes /\ HandlersFit /\ GroupsFit /\ None \notin Keys /\ None \notin Requests
  BY InvParts
<1>1. ASSUME NEW r \in Requests, FindGroupByRequestId(r) # None
      PROVE  /\ FindGroupByRequestId(r) \in Requests
             /\ groups[cmd[r].key] = FindGroupByRequestId(r)
             /\ cmd[r].key \in Keys /\ pc[r] \notin Early
             /\ keyOf[FindGroupByRequestId(r)] = cmd[r].key
  BY <1>0, <1>1 DEF GroupTypes, HandlersFit, GroupsFit, FindGroupByRequestId
<1>2. ASSUME NEW g \in Requests, timer[g] = "armed"
      PROVE  /\ keyOf[g] \in Keys
             /\ groups[keyOf[g]] # None =>
                  groups[keyOf[g]] \in Requests /\ keyOf[groups[keyOf[g]]] = keyOf[g]
  BY <1>0, <1>2 DEF GroupTypes, GroupsFit
<1> QED
  BY <1>1, <1>2

\* What resolveGroup starts: a resolver of group g for the requests C.
Begun(t, g, how, outcome, scope, C, cur, target) ==
    /\ job' = [job EXCEPT ![t] = job'[t]]
    /\ job'[t].pc = how /\ job'[t].outcome = outcome /\ job'[t].scope = scope
    /\ job'[t].group = g /\ job'[t].cur = cur /\ job'[t].todo = {}
    /\ job'[t].covers = C /\ job'[t].target = target
    /\ JobTypes'

\* resolveGroup starts a resolver for a whole group.
LEMMA ResolveAllFacts ==
    ASSUME JobTypes, NEW t \in Presses \cup Requests, NEW g \in Requests, NEW o \in {"approve", "deny"},
           NEW target \in Requests \cup {None}, members[g] \in SUBSET Requests, ResolveAll(t, g, o, target)
    PROVE  Begun(t, g, "closing", o, "capability", members[g], None, target)
<1> DEFINE j == [Idle EXCEPT !.pc = "closing", !.outcome = o, !.scope = "capability",
                             !.group = g, !.covers = members[g], !.target = target]
<1>1. /\ j.pc = "closing" /\ j.outcome = o /\ j.scope = "capability" /\ j.group = g
      /\ j.cur = None /\ j.todo = {} /\ j.covers = members[g] /\ j.target = target
  BY DEF Idle
<1>2. j \in Jobs
  <2>1. Idle \in Jobs
    BY DEF Idle, Jobs
  <2> QED
    BY <2>1 DEF Jobs
<1>3. job' = [job EXCEPT ![t] = j]
  BY DEF ResolveAll
<1> HIDE DEF j
<1>4. job'[t] = j /\ JobTypes' /\ job' = [job EXCEPT ![t] = job'[t]]
  BY <1>2, <1>3 DEF JobTypes
<1> QED
  BY <1>1, <1>4 DEF Begun

\* resolveGroup starts a resolver for one request.
LEMMA ResolveOneFacts ==
    ASSUME JobTypes, NEW t \in Presses \cup Requests, NEW g \in Requests, NEW o \in {"approve", "deny"},
           NEW r \in Requests, ResolveOne(t, g, o, r)
    PROVE  Begun(t, g, "removing", o, "once", {r}, r, r)
<1> DEFINE j == [Idle EXCEPT !.pc = "removing", !.outcome = o, !.scope = "once",
                             !.group = g, !.cur = r, !.covers = {r}, !.target = r]
<1>1. /\ j.pc = "removing" /\ j.outcome = o /\ j.scope = "once" /\ j.group = g
      /\ j.cur = r /\ j.todo = {} /\ j.covers = {r} /\ j.target = r
  BY DEF Idle
<1>2. j \in Jobs
  <2>1. Idle \in Jobs
    BY DEF Idle, Jobs
  <2>2. {r} \in SUBSET Requests
    OBVIOUS
  <2> QED
    BY <2>1, <2>2 DEF Jobs
<1>3. job' = [job EXCEPT ![t] = j]
  BY DEF ResolveOne
<1> HIDE DEF j
<1>4. job'[t] = j /\ JobTypes' /\ job' = [job EXCEPT ![t] = job'[t]]
  BY <1>2, <1>3 DEF JobTypes
<1> QED
  BY <1>1, <1>4 DEF Begun

\* A press starts a resolver for the whole group of its card, which leaves the map, or
\* for its own request, which leaves the group.
PressAll(p, r, g) ==
    /\ groups[cmd[r].key] = g
    /\ approvedKeys' = approvedKeys \cup {cmd[r].key}
    /\ timer' = [timer EXCEPT ![g] = "cleared"]
    /\ groups' = [groups EXCEPT ![cmd[r].key] = None]
    /\ UNCHANGED <<keyOf, members, index>>
    /\ Begun(p, g, "closing", "approve", "capability", members[g], None, r)

PressOne(p, r, g, o) ==
    /\ r \in members[g]
    /\ members' = [members EXCEPT ![g] = @ \ {r}]
    /\ index' = [index EXCEPT ![r] = None]
    /\ UNCHANGED <<groups, keyOf, timer, approvedKeys>>
    /\ Begun(p, g, "removing", o, "once", {r}, r, r)

\* What a press does.
LEMMA PressFacts ==
    ASSUME Inv, NEW p \in Presses, NEW r \in Requests, NEW o \in {"approve", "deny"},
           NEW s \in {"once", "capability"}, Press(p, r, o, s)
    PROVE  /\ \E g \in Requests : /\ keyOf[g] = cmd[r].key /\ cmd[r].key \in Keys
                                  /\ PressAll(p, r, g) \/ PressOne(p, r, g, o)
           /\ pc[r] \notin Early /\ job[p].pc = "idle" /\ closing = "open"
           /\ UNCHANGED <<request, tidying, disk, closing>>
<1>0. JobTypes /\ \A g \in Requests : members[g] \in SUBSET Requests
  BY InvParts DEF GroupTypes
<1>1. PICK g \in Requests : g = FindGroupByRequestId(r)
  BY FoundGroup DEF Press
<1>2. /\ keyOf[g] = cmd[r].key /\ cmd[r].key \in Keys /\ pc[r] \notin Early
      /\ groups[cmd[r].key] = g /\ g # None
  BY <1>1, FoundGroup DEF Press
<1>3. /\ job[p].pc = "idle" /\ closing = "open" /\ UNCHANGED <<request, tidying, disk, closing>>
      /\ \/ /\ approvedKeys' = approvedKeys \cup {keyOf[g]}
            /\ timer' = [timer EXCEPT ![g] = "cleared"]
            /\ ResolveAll(p, g, "approve", r)
         \/ ResolveOne(p, g, o, r) /\ UNCHANGED approvedKeys
  BY <1>1 DEF Press
<1>4. CASE /\ approvedKeys' = approvedKeys \cup {keyOf[g]}
           /\ timer' = [timer EXCEPT ![g] = "cleared"]
           /\ ResolveAll(p, g, "approve", r)
  <2>1. PressAll(p, r, g)
    BY <1>0, <1>2, <1>4, ResolveAllFacts DEF PressAll, ResolveAll
  <2> QED
    BY <1>2, <1>3, <2>1
<1>5. CASE ResolveOne(p, g, o, r) /\ UNCHANGED approvedKeys
  <2>1. PressOne(p, r, g, o)
    BY <1>0, <1>2, <1>5, ResolveOneFacts DEF PressOne, ResolveOne
  <2> QED
    BY <1>2, <1>3, <2>1
<1> QED
  BY <1>3, <1>4, <1>5

\* A timer that fires takes the group off the map that has the key now, and denies it.
TimeoutAll(g, now) ==
    /\ groups[keyOf[g]] = now /\ keyOf[now] = keyOf[g]
    /\ timer' = [timer EXCEPT ![now] = "cleared", ![g] = "fired"]
    /\ groups' = [groups EXCEPT ![keyOf[g]] = None]
    /\ UNCHANGED <<keyOf, members, index>>
    /\ Begun(g, now, "closing", "deny", "capability", members[now], None, None)

\* What a timer does.
LEMMA TimeoutFacts ==
    ASSUME Inv, NEW g \in Requests, Timeout(g)
    PROVE  /\ keyOf[g] \in Keys
           /\ \/ /\ groups[keyOf[g]] = None /\ timer' = [timer EXCEPT ![g] = "fired"]
                 /\ UNCHANGED <<groups, keyOf, members, index, job>>
              \/ \E now \in Requests : TimeoutAll(g, now)
           /\ UNCHANGED <<request, tidying, approvedKeys, disk, closing>>
<1>0. JobTypes /\ \A now \in Requests : members[now] \in SUBSET Requests
  BY InvParts DEF GroupTypes
<1>1. keyOf[g] \in Keys /\ UNCHANGED <<request, tidying, approvedKeys, disk, closing>>
  BY FoundGroup DEF Timeout
<1>2. CASE groups[keyOf[g]] = None
  BY <1>1, <1>2 DEF Timeout
<1>3. CASE groups[keyOf[g]] # None
  <2>1. PICK now \in Requests : now = groups[keyOf[g]] /\ keyOf[now] = keyOf[g]
    BY <1>3, FoundGroup DEF Timeout
  <2>2. /\ timer' = [timer EXCEPT ![now] = "cleared", ![g] = "fired"]
        /\ ResolveAll(g, now, "deny", None)
    BY <1>3, <2>1 DEF Timeout
  <2>3. TimeoutAll(g, now)
    BY <1>0, <2>1, <2>2, ResolveAllFacts DEF TimeoutAll, ResolveAll
  <2> QED
    BY <1>1, <2>3
<1> QED
  BY <1>2, <1>3

\* A press keeps the types.
LEMMA PressTypes ==
    ASSUME Inv, NEW p \in Presses, NEW r \in Requests, NEW o \in {"approve", "deny"},
           NEW s \in {"once", "capability"}, Press(p, r, o, s)
    PROVE  TypeOK'
<1>0. HandlerTypes /\ LifeTypes /\ SetTypes /\ GroupTypes /\ JobTypes
  BY InvParts
<1>1. UNCHANGED <<request, tidying, disk, closing>>
  BY PressFacts
<1>2. PICK g \in Requests : /\ cmd[r].key \in Keys
                            /\ PressAll(p, r, g) \/ PressOne(p, r, g, o)
  BY PressFacts
<1>4. JobTypes'
  BY <1>2 DEF PressAll, PressOne, Begun
<1>5. GroupTypes' /\ approvedKeys' \subseteq Keys
  BY <1>0, <1>2 DEF PressAll, PressOne, GroupTypes, SetTypes
<1>6. SetTypes'
  BY <1>0, <1>1, <1>5 DEF SetTypes
<1> QED
  BY <1>0, <1>1, <1>4, <1>5, <1>6, TypesKept, TypePartsNext

\* A timer keeps the types.
LEMMA TimeoutTypes ==
    ASSUME Inv, NEW g \in Requests, Timeout(g)
    PROVE  TypeOK'
<1>0. HandlerTypes /\ LifeTypes /\ SetTypes /\ GroupTypes /\ JobTypes
  BY InvParts
<1>1. keyOf[g] \in Keys /\ UNCHANGED <<request, tidying, approvedKeys, disk, closing>>
  BY TimeoutFacts
<1>2. CASE UNCHANGED <<groups, keyOf, members, index, job>> /\ timer' = [timer EXCEPT ![g] = "fired"]
  <2>1. GroupTypes'
    BY <1>0, <1>2 DEF GroupTypes
  <2> QED
    BY <1>0, <1>1, <1>2, <2>1, TypesKept, TypePartsNext
<1>3. ASSUME NEW now \in Requests, TimeoutAll(g, now) PROVE TypeOK'
  <2>1. GroupTypes'
    BY <1>0, <1>1, <1>3 DEF GroupTypes, TimeoutAll
  <2>4. JobTypes'
    BY <1>3 DEF TimeoutAll, Begun
  <2> QED
    BY <1>0, <1>1, <2>1, <2>4, TypesKept, TypePartsNext
<1> QED
  BY <1>2, <1>3, TimeoutFacts

-----------------------------------------------------------------------------
(* The loop of resolveGroup. *)

\* Resolver t goes on for the same press, and no other resolver moves.
SamePress(t) ==
    /\ job' = [job EXCEPT ![t] = job'[t]]
    /\ JobTypes'
    /\ job'[t].outcome = job[t].outcome /\ job'[t].scope = job[t].scope
    /\ job'[t].covers = job[t].covers /\ job'[t].target = job[t].target

\* It goes on with its request, takes another one of S, or ends.
Moves(t, how) ==
    /\ SamePress(t) /\ job'[t].pc = how
    /\ job'[t].group = job[t].group /\ job'[t].cur = job[t].cur /\ job'[t].todo = job[t].todo

Takes(t, S) ==
    /\ SamePress(t) /\ job'[t].pc = "removing" /\ job'[t].group = job[t].group
    /\ job'[t].cur \in S /\ job'[t].todo \subseteq S
    /\ index' = [index EXCEPT ![job'[t].cur] = None]

Stops(t) == SamePress(t) /\ job'[t].pc \in {"done", "aborted"} /\ UNCHANGED index

\* A resolver that only changes its place.
LEMMA MoveFacts ==
    ASSUME JobTypes, NEW t \in Presses \cup Requests, NEW how \in {"quieting", "auditing", "running"},
           job' = [job EXCEPT ![t].pc = how]
    PROVE  Moves(t, how)
<1> DEFINE j == [job[t] EXCEPT !.pc = how]
<1>1. job[t] \in Jobs
  BY DEF JobTypes
<1>2. j \in Jobs
  BY <1>1 DEF Jobs
<1>3. /\ j.pc = how /\ j.outcome = job[t].outcome /\ j.scope = job[t].scope
      /\ j.covers = job[t].covers /\ j.target = job[t].target
      /\ j.group = job[t].group /\ j.cur = job[t].cur /\ j.todo = job[t].todo
  BY <1>1 DEF Jobs
<1>4. job' = [job EXCEPT ![t] = j]
  BY DEF JobTypes
<1> HIDE DEF j
<1>5. job'[t] = j /\ JobTypes' /\ job' = [job EXCEPT ![t] = job'[t]]
  BY <1>2, <1>4 DEF JobTypes
<1> QED
  BY <1>3, <1>5 DEF Moves, SamePress

\* A resolver that ends.
LEMMA EndFacts ==
    ASSUME JobTypes, NEW t \in Presses \cup Requests, NEW how \in {"done", "aborted"},
           job' = [job EXCEPT ![t] = Ended(t, how)], UNCHANGED index
    PROVE  Stops(t)
<1> DEFINE j == [job[t] EXCEPT !.pc = how, !.group = None, !.cur = None, !.todo = {}]
<1>1. job[t] \in Jobs
  BY DEF JobTypes
<1>2. j \in Jobs
  BY <1>1 DEF Jobs
<1>3. /\ j.pc = how /\ j.outcome = job[t].outcome /\ j.scope = job[t].scope
      /\ j.covers = job[t].covers /\ j.target = job[t].target
  BY <1>1 DEF Jobs
<1>4. job' = [job EXCEPT ![t] = j]
  BY DEF Ended
<1> HIDE DEF j
<1>5. job'[t] = j /\ JobTypes' /\ job' = [job EXCEPT ![t] = job'[t]]
  BY <1>2, <1>4 DEF JobTypes
<1> QED
  BY <1>3, <1>5 DEF Stops, SamePress

\* The loop takes a request that is still in the group, or ends.
LEMMA TakeNextFacts ==
    ASSUME JobTypes, GroupTypes, NEW t \in Presses \cup Requests, job[t].group \in Requests,
           NEW S \in SUBSET Requests, TakeNext(t, S)
    PROVE  Takes(t, S) \/ Stops(t)
<1>0. PICK L : L = S \cap members[job[t].group]
  OBVIOUS
<1>1. CASE job' = [job EXCEPT ![t] = Ended(t, "done")] /\ UNCHANGED index
  BY <1>1, EndFacts
<1>2. ASSUME NEW c \in L,
             job' = [job EXCEPT ![t].pc = "removing", ![t].cur = c, ![t].todo = L \ {c}],
             index' = [index EXCEPT ![c] = None]
      PROVE  Takes(t, S)
  <2> DEFINE j == [job[t] EXCEPT !.pc = "removing", !.cur = c, !.todo = L \ {c}]
  <2>1. job[t] \in Jobs /\ c \in S /\ c \in Requests /\ L \ {c} \subseteq S /\ L \ {c} \in SUBSET Requests
    BY <1>0, <1>2 DEF JobTypes
  <2>2. j \in Jobs
    BY <2>1 DEF Jobs
  <2>3. /\ j.pc = "removing" /\ j.outcome = job[t].outcome /\ j.scope = job[t].scope
        /\ j.covers = job[t].covers /\ j.target = job[t].target
        /\ j.group = job[t].group /\ j.cur = c /\ j.todo = L \ {c}
    BY <2>1 DEF Jobs
  <2>4. job' = [job EXCEPT ![t] = j]
    BY <1>2 DEF JobTypes
  <2> HIDE DEF j
  <2>5. job'[t] = j /\ JobTypes' /\ job' = [job EXCEPT ![t] = job'[t]]
    BY <2>2, <2>4 DEF JobTypes
  <2> QED
    BY <1>2, <2>1, <2>3, <2>5 DEF Takes, SamePress
<1> QED
  BY <1>0, <1>1, <1>2 DEF TakeNext

\* What a resolver leaves alone.
Aside == <<cmd, pc, deferred, verdict, tidying, keyOf, members, approvedKeys, shown, closing>>

\* A group is dropped after a press for one request: whatever group has its key.
Drops(g) ==
    /\ members[g] = {} /\ timer' = [timer EXCEPT ![g] = "cleared"]
    /\ groups' = [groups EXCEPT ![keyOf[g]] = None]

\* What resolver t does in one step, whichever it is.
Resolves(t) ==
    /\ Running(t) /\ UNCHANGED Aside
    /\ IF job[t].pc = "closing" THEN Takes(t, members[job[t].group]) \/ Stops(t)
       ELSE \/ \E how \in {"quieting", "auditing", "running"} : Moves(t, how) /\ UNCHANGED index
            \/ Takes(t, job[t].todo) \/ Stops(t)
    /\ UNCHANGED <<groups, timer>> \/ Drops(job[t].group)
    /\ \/ UNCHANGED started
       \/ /\ started' = started \cup {job[t].cur}
          /\ job[t].pc # "closing" /\ job[t].outcome = "approve" /\ ~Cancelled(job[t].cur)
    /\ files' \subseteq files /\ SetTypes' /\ LifeTypes'
    /\ \A r \in Requests : Cancelled(r)' <=> Cancelled(r)

\* A resolver's steps are of that form.
LEMMA ResolverFacts ==
    ASSUME Inv, NEW t \in Presses \cup Requests,
           JobStep(t) \/ RemovalFails(t) \/ JobAuditFails(t) \/ JobRunEnds(t)
    PROVE  Resolves(t)
<1>0. /\ LifeTypes /\ SetTypes /\ GroupTypes /\ JobTypes /\ JobFits(t)
      /\ job[t].todo \in SUBSET Requests /\ job[t] \in Jobs /\ job[t].covers \in SUBSET Requests
  BY InvParts DEF JobsFit, JobTypes, Jobs
<1>1. CASE NotificationClosed(t)
  <2>1. job[t].pc = "closing" /\ Running(t)
    BY <1>1 DEF NotificationClosed, Running
  <2>2. PICK S \in SUBSET Requests : S = members[job[t].group]
    BY <1>0, <2>1 DEF JobFits, GroupTypes
  <2>3. Takes(t, S) \/ Stops(t)
    BY <1>0, <1>1, <2>1, <2>2, TakeNextFacts DEF NotificationClosed, JobFits
  <2>4. UNCHANGED <<request, tidying, groups, keyOf, members, timer, approvedKeys, disk, closing>>
    BY <1>1 DEF NotificationClosed
  <2>5. SetTypes' /\ LifeTypes'
    BY <1>0, <2>4, TypesKept
  <2> QED
    BY <2>1, <2>2, <2>3, <2>4, <2>5 DEF Resolves, Aside, Cancelled
<1>2. ASSUME AfterRemoval(t), job[t].pc \in {"removing", "quieting"}
      PROVE  /\ Running(t) /\ job[t].pc # "closing" /\ released' \subseteq Requests
             /\ \/ \E how \in {"quieting", "auditing", "running"} : Moves(t, how) /\ UNCHANGED index
                \/ Takes(t, job[t].todo) \/ Stops(t)
  <2>1. Running(t) /\ job[t].pc # "closing" /\ job[t].cur \in Requests /\ job[t].group \in Requests
    BY <1>0, <1>2 DEF Running, JobFits
  <2>2. PICK S \in SUBSET Requests : S = job[t].todo
    BY <1>0
  <2>3. CASE Cancelled(job[t].cur)
    BY <1>0, <1>2, <2>1, <2>2, <2>3, TakeNextFacts DEF AfterRemoval, SetTypes
  <2>4. CASE ~Cancelled(job[t].cur)
    BY <1>0, <1>2, <2>1, <2>4, MoveFacts DEF AfterRemoval, SetTypes
  <2> QED
    BY <2>3, <2>4
<1>3. CASE EntryRemoved(t)
  <2>1. /\ UNCHANGED Aside /\ UNCHANGED <<life, answer, started>> /\ files' \subseteq files
        /\ job[t].pc = "removing" /\ Running(t)
    BY <1>3 DEF EntryRemoved, Aside, Running
  <2>2. LifeTypes'
    BY <1>0, <2>1, TypesKept DEF Aside
  <2>3. CASE job[t].scope = "once" /\ members[job[t].group] = {}
    <3>1. Drops(job[t].group) /\ job' = [job EXCEPT ![t].pc = "quieting"] /\ UNCHANGED <<released, index>>
      BY <1>3, <2>3 DEF EntryRemoved, Drops
    <3>2. Moves(t, "quieting") /\ SetTypes'
      BY <1>0, <2>1, <3>1, MoveFacts DEF SetTypes, Aside
    <3> QED
      BY <2>1, <2>2, <3>1, <3>2 DEF Resolves, Cancelled
  <2>4. CASE ~(job[t].scope = "once" /\ members[job[t].group] = {})
    <3>1. AfterRemoval(t) /\ UNCHANGED <<groups, timer>>
      BY <1>3, <2>4 DEF EntryRemoved
    <3>2. SetTypes'
      BY <1>0, <1>2, <2>1, <3>1 DEF SetTypes, Aside
    <3> QED
      BY <1>2, <2>1, <2>2, <3>1, <3>2 DEF Resolves, Cancelled
  <2> QED
    BY <2>3, <2>4
<1>4. CASE Quieted(t)
  <2>1. /\ UNCHANGED Aside /\ UNCHANGED <<life, answer, started, files, groups, timer>>
        /\ job[t].pc = "quieting" /\ Running(t) /\ AfterRemoval(t)
    BY <1>4 DEF Quieted, Aside, Running
  <2>2. LifeTypes' /\ SetTypes'
    BY <1>0, <1>2, <2>1, TypesKept DEF SetTypes, Aside
  <2> QED
    BY <1>2, <2>1, <2>2 DEF Resolves, Cancelled
<1>5. CASE JobAudited(t) \/ JobAuditFails(t) \/ JobRunEnds(t)
  <2>1. PICK c \in Requests : c = job[t].cur
    BY <1>0, <1>5 DEF JobAudited, JobAuditFails, JobRunEnds, JobFits, Running
  <2>2. /\ Running(t) /\ job[t].pc # "closing" /\ job[t].group \in Requests
        /\ UNCHANGED <<cmd, pc, deferred, verdict, tidying, groups, keyOf, members, timer,
                       approvedKeys, disk, closing>>
    BY <1>0, <1>5 DEF JobAudited, JobAuditFails, JobRunEnds, JobFits, Running
  <2>3. /\ started' \in {started, started \cup {c}} /\ released' \in {released, released \cup {c}}
        /\ started' = started \/ (job[t].outcome = "approve" /\ ~Cancelled(c))
    BY <1>5, <2>1 DEF JobAudited, JobAuditFails, JobRunEnds
  <2>4. \A r \in Requests : Cancelled(r)' <=> Cancelled(r)
    BY <1>0, <1>5, <2>1 DEF JobAudited, JobAuditFails, JobRunEnds, Cancelled, LifeTypes
  <2>5. LifeTypes'
    <3>1. \E x \in {life[c], "terminal", "running"} : life' = [life EXCEPT ![c] = x]
      BY <1>0, <1>5, <2>1 DEF JobAudited, JobAuditFails, JobRunEnds, LifeTypes
    <3>2. \E x \in {answer[c], "denied", "ran"} : answer' = [answer EXCEPT ![c] = x]
      BY <1>0, <1>5, <2>1 DEF JobAudited, JobAuditFails, JobRunEnds, LifeTypes
    <3>3. life' \in [Requests -> {"preflight", "awaiting", "running", "terminal", "cancelled"}]
      BY <1>0, <3>1 DEF LifeTypes
    <3>4. answer' \in [Requests -> {"none", "fallback", "denied", "ran", "closed"}]
      BY <1>0, <3>2 DEF LifeTypes
    <3> QED
      BY <1>0, <2>2, <3>3, <3>4 DEF LifeTypes
  <2>6. SetTypes'
    BY <1>0, <2>2, <2>3 DEF SetTypes
  <2>7. TakeNext(t, job[t].todo) \/ (job' = [job EXCEPT ![t].pc = "running"] /\ UNCHANGED index)
    BY <1>5 DEF JobAudited, JobAuditFails, JobRunEnds
  <2>8. PICK S \in SUBSET Requests : S = job[t].todo
    BY <1>0
  <2>9. \/ Takes(t, S) \/ Stops(t)
        \/ Moves(t, "running") /\ UNCHANGED index
    BY <1>0, <2>2, <2>7, <2>8, TakeNextFacts, MoveFacts
  <2> QED
    BY <2>1, <2>2, <2>3, <2>4, <2>5, <2>6, <2>8, <2>9 DEF Resolves, Aside
<1>6. CASE RemovalFails(t)
  <2>1. /\ UNCHANGED <<request, tidying, grouping, approvedKeys, disk, closing>>
        /\ job[t].pc = "removing" /\ Running(t) /\ job' = [job EXCEPT ![t] = Ended(t, "aborted")]
    BY <1>6 DEF RemovalFails, Running
  <2>2. LifeTypes' /\ SetTypes' /\ Stops(t)
    BY <1>0, <2>1, TypesKept, EndFacts
  <2> QED
    BY <2>1, <2>2 DEF Resolves, Aside, Cancelled
<1> QED
  BY <1>1, <1>3, <1>4, <1>5, <1>6 DEF JobStep

\* A resolver keeps the types.
LEMMA ResolverTypes ==
    ASSUME Inv, NEW t \in Presses \cup Requests, Resolves(t)
    PROVE  TypeOK'
<1>0. HandlerTypes /\ GroupTypes /\ JobTypes /\ JobFits(t) /\ job[t] \in Jobs
  BY InvParts DEF JobsFit, JobTypes
<1>1. UNCHANGED <<cmd, pc, verdict, keyOf, members>> /\ SetTypes' /\ LifeTypes'
  BY DEF Resolves, Aside
<1>2. JobTypes'
  BY DEF Resolves, Moves, Takes, Stops, SamePress
<1>3. index' \in [Requests -> Keys \cup {None}]
  BY <1>0 DEF Resolves, Takes, Stops, GroupTypes
<1>4. /\ groups' \in [Keys -> Requests \cup {None}]
      /\ timer' \in [Requests -> {"unset", "armed", "cleared", "fired"}]
  BY <1>0 DEF Resolves, Drops, GroupTypes
<1>5. GroupTypes'
  BY <1>0, <1>1, <1>3, <1>4 DEF GroupTypes
<1> QED
  BY <1>0, <1>1, <1>2, <1>5, TypesKept, TypePartsNext

\* close() keeps the types.
LEMMA CloseTypes ==
    ASSUME Inv, CloseBegin \/ CloseStep
    PROVE  TypeOK'
<1>0. HandlerTypes /\ LifeTypes /\ SetTypes /\ GroupTypes /\ JobTypes
  BY InvParts
<1>1. CASE CloseBegin
  <2>1. SetTypes' /\ UNCHANGED <<cmd, pc, verdict, life, tidying, answer, grouping, job>>
    BY <1>0, <1>1 DEF CloseBegin, SetTypes
  <2> QED
    BY <1>0, <2>1, TypesKept, TypePartsNext
<1>2. ASSUME NEW g \in Requests, NEW r \in Requests, CloseTell(g, r) PROVE TypeOK'
  <2>1. SetTypes' /\ UNCHANGED <<cmd, pc, verdict, job>>
    BY <1>0, <1>2 DEF CloseTell, SetTypes
  <2>2. LifeTypes'
    BY <1>0, <1>2 DEF CloseTell, LifeTypes
  <2>3. GroupTypes'
    BY <1>0, <1>2 DEF CloseTell, GroupTypes
  <2> QED
    BY <1>0, <2>1, <2>2, <2>3, TypesKept, TypePartsNext
<1>3. CASE CloseSettle
  <2>1. SetTypes' /\ UNCHANGED <<cmd, pc, verdict, life, tidying, answer, job>>
    BY <1>0, <1>3 DEF CloseSettle, SetTypes
  <2>2. GroupTypes'
    BY <1>0, <1>3 DEF CloseSettle, GroupTypes
  <2> QED
    BY <1>0, <2>1, <2>2, TypesKept, TypePartsNext
<1>4. CASE CloseClear
  <2>1. SetTypes' /\ UNCHANGED <<cmd, pc, verdict, life, tidying, answer, job>>
    BY <1>0, <1>4 DEF CloseClear, SetTypes
  <2>2. GroupTypes'
    BY <1>0, <1>4 DEF CloseClear, GroupTypes
  <2> QED
    BY <1>0, <2>1, <2>2, TypesKept, TypePartsNext
<1>5. CASE RemovePendingDir
  <2>1. SetTypes' /\ UNCHANGED <<cmd, pc, verdict, life, tidying, answer, grouping, job>>
    BY <1>0, <1>5 DEF RemovePendingDir, SetTypes
  <2> QED
    BY <1>0, <2>1, TypesKept, TypePartsNext
<1> QED
  BY <1>1, <1>2, <1>3, <1>4, <1>5 DEF CloseStep

\* Every step keeps the types.
LEMMA NextTypes ==
    ASSUME Inv, [Next]_vars
    PROVE  TypeOK'
<1>1. CASE UNCHANGED vars
  BY <1>1, InvParts, TypesKept, TypePartsNext
<1>2. CASE Next
  <2>1. ASSUME NEW t \in Presses \cup Requests,
               JobStep(t) \/ RemovalFails(t) \/ JobAuditFails(t) \/ JobRunEnds(t)
        PROVE  TypeOK'
    BY <2>1, ResolverFacts, ResolverTypes
  <2> QED
    BY <1>2, <2>1, HandlerStepTypes, CleanupTypes, TimeoutTypes, PressTypes, CloseTypes DEF Next
<1> QED
  BY <1>1, <1>2

-----------------------------------------------------------------------------
(* What no step undoes. *)

\* A command and a verdict stay, a group keeps its key, an approval its card, and nobody
\* joins a group that is out of the map.
Steady ==
    /\ \A r \in Requests : pc[r] # "idle" => pc'[r] # "idle" /\ cmd'[r] = cmd[r]
    /\ \A r \in Requests : pc[r] \notin Early => pc'[r] \notin Early /\ verdict'[r] = verdict[r]
    /\ \A g \in Requests : keyOf[g] # None => /\ keyOf'[g] = keyOf[g]
                                              /\ ~Live(g) => ~Live(g)' /\ members'[g] \subseteq members[g]
    /\ \A p \in Presses : Approved(p) =>
         /\ job'[p].outcome = "approve" /\ job'[p].scope = job[p].scope
         /\ job'[p].covers = job[p].covers /\ job'[p].target = job[p].target

\* The steps of handlers and cleanups are steady.
LEMMA RequestSteady ==
    ASSUME Inv, NEW r \in Requests,
           \/ \E c \in Commands : Receive(r, c)
           \/ HandlerStep(r) \/ RunEnds(r) \/ PeerLeaves(r) \/ CleanupStep(r)
    PROVE  Steady
<1>0. HandlerTypes /\ GroupTypes /\ HandlersFit /\ GroupsFit /\ None \notin Requests
      /\ \A c \in Commands : c.key \in Keys
  BY InvParts
<1>1. CASE \/ \E c \in Commands : Receive(r, c)
           \/ Resolve(r) \/ Audited(r) \/ EntryVisible(r) \/ Resume(r) \/ Leave(r) \/ LeaveFails(r) \/ WakeUp(r)
           \/ \E v \in Verdicts : Check(r, v) \/ AskWithdrawn(r, v)
           \/ RunEnds(r) \/ PeerLeaves(r) \/ CleanupFails(r) \/ CleanupClosed(r)
  <2>1. UNCHANGED <<grouping, job>>
    BY <1>1 DEF Receive, Resolve, Audited, EntryVisible, Resume, Leave, LeaveFails, WakeUp, Check, AskWithdrawn,
                RunEnds, PeerLeaves, Cancel, CleanupFails, CleanupClosed
  <2>2. \A q \in Requests : q # r => cmd'[q] = cmd[q] /\ pc'[q] = pc[q] /\ verdict'[q] = verdict[q]
    BY <1>0, <1>1 DEF Receive, Resolve, Audited, EntryVisible, Resume, Leave, LeaveFails, WakeUp, Check,
                AskWithdrawn, RunEnds, PeerLeaves, Cancel, CleanupFails, CleanupClosed, HandlerTypes
  <2>3. /\ pc[r] # "idle" => pc'[r] # "idle" /\ cmd'[r] = cmd[r]
        /\ pc[r] \notin Early => pc'[r] \notin Early /\ verdict'[r] = verdict[r]
    <3>1. CASE \/ \E c \in Commands : Receive(r, c)
               \/ Resolve(r) \/ RunEnds(r) \/ PeerLeaves(r) \/ CleanupFails(r) \/ CleanupClosed(r)
      BY <1>0, <3>1 DEF Receive, Resolve, RunEnds, PeerLeaves, CleanupFails, CleanupClosed,
                         HandlerTypes, Early
    <3>2. CASE Audited(r) \/ EntryVisible(r) \/ Resume(r) \/ Leave(r) \/ LeaveFails(r) \/ WakeUp(r)
      BY <1>0, <3>2 DEF Audited, EntryVisible, Resume, Leave, LeaveFails, WakeUp, HandlerTypes, Early
    <3>3. CASE \E v \in Verdicts : Check(r, v) \/ AskWithdrawn(r, v)
      BY <1>0, <3>3 DEF Check, Outcome, AskWithdrawn, HandlerTypes, Early
    <3> QED
      BY <1>1, <3>1, <3>2, <3>3
  <2>4. \A q \in Requests : /\ pc[q] # "idle" => pc'[q] # "idle" /\ cmd'[q] = cmd[q]
                            /\ pc[q] \notin Early => pc'[q] \notin Early /\ verdict'[q] = verdict[q]
    BY <2>2, <2>3
  <2> QED
    BY <2>1, <2>4 DEF Steady, Live, Approved
<1>2. ASSUME NEW v \in Verdicts, Ask(r, v) PROVE Steady
  <2>1. PICK k \in Keys : k = cmd[r].key
    BY <1>0, <1>2 DEF Ask, HandlersFit
  <2>2. PICK g \in Requests : g = IF groups[k] = None THEN r ELSE groups[k]
    BY <1>0 DEF GroupTypes
  <2>3. /\ groups' = [groups EXCEPT ![k] = g] /\ keyOf' = [keyOf EXCEPT ![g] = k]
        /\ members' = [members EXCEPT ![g] = @ \cup {r}]
        /\ pc' = [pc EXCEPT ![r] = "writing"] /\ verdict' = [verdict EXCEPT ![r] = v]
        /\ pc[r] = "checking" /\ UNCHANGED <<cmd, job>>
    BY <1>2, <2>1, <2>2 DEF Ask
  <2>4. (g = r /\ keyOf[r] = None) \/ (groups[k] = g /\ keyOf[g] = k)
    <3>1. CASE groups[k] = None
      <4>1. pc[r] = "checking" /\ g = r
        BY <2>2, <2>3, <3>1
      <4>2. keyOf[r] = None
        BY <1>0, <4>1 DEF HandlersFit, Early
      <4> QED
        BY <4>1, <4>2
    <3>2. CASE groups[k] # None
      BY <1>0, <2>2, <3>2 DEF GroupsFit
    <3> QED
      BY <3>1, <3>2
  <2>5. \A h \in Requests : keyOf[h] # None =>
           keyOf'[h] = keyOf[h] /\ (~Live(h) => ~Live(h)' /\ members'[h] \subseteq members[h])
    BY <1>0, <2>3, <2>4 DEF Live, GroupTypes
  <2>6. \A q \in Requests : /\ pc[q] # "idle" => pc'[q] # "idle" /\ cmd'[q] = cmd[q]
                            /\ pc[q] \notin Early => pc'[q] \notin Early /\ verdict'[q] = verdict[q]
    BY <1>0, <2>3 DEF HandlerTypes, Early
  <2> QED
    BY <2>3, <2>5, <2>6 DEF Steady, Approved
<1>3. CASE CleanupBegin(r)
  <2>1. UNCHANGED <<request, groups, keyOf, job>> /\ \A h \in Requests : members'[h] \subseteq members[h]
    BY <1>0, <1>3 DEF CleanupBegin, GroupTypes
  <2> QED
    BY <2>1 DEF Steady, Live, Approved
<1>4. CASE CleanupRemoved(r)
  <2>1. /\ UNCHANGED <<cmd, pc, verdict, keyOf, members, job>>
        /\ \A h \in Keys : groups'[h] \in {groups[h], None}
    BY <1>0, <1>4 DEF CleanupRemoved, GroupTypes
  <2> QED
    BY <1>0, <2>1 DEF Steady, Live, Approved
<1> QED
  BY <1>1, <1>2, <1>3, <1>4 DEF HandlerStep, CleanupStep

\* Presses, timers and resolvers are steady.
LEMMA ResolveSteady ==
    ASSUME Inv,
           \/ \E p \in Presses, r \in Requests, o \in {"approve", "deny"}, s \in {"once", "capability"} :
                 Press(p, r, o, s)
           \/ \E g \in Requests : Timeout(g)
           \/ \E t \in Presses \cup Requests : Resolves(t)
    PROVE  Steady
<1>0. GroupTypes /\ JobTypes /\ JobsFit /\ None \notin Requests /\ Requests \cap Presses = {}
  BY InvParts, HostExecAssumption
<1>1. ASSUME NEW p \in Presses, NEW r \in Requests, NEW o \in {"approve", "deny"},
             NEW s \in {"once", "capability"}, Press(p, r, o, s)
      PROVE  Steady
  <2>1. PICK g \in Requests : PressAll(p, r, g) \/ PressOne(p, r, g, o)
    BY <1>1, PressFacts
  <2>2. UNCHANGED <<cmd, pc, verdict>> /\ ~Approved(p)
    BY <1>0, <1>1, PressFacts DEF JobsFit, JobFits, Approved
  <2>3. /\ UNCHANGED keyOf /\ \A h \in Requests : members'[h] \subseteq members[h]
        /\ \A k \in Keys : groups'[k] \in {groups[k], None}
    BY <1>0, <2>1 DEF PressAll, PressOne, GroupTypes
  <2>4. \A q \in Presses \ {p} : job'[q] = job[q]
    BY <1>0, <2>1 DEF PressAll, PressOne, Begun, JobTypes
  <2> QED
    BY <1>0, <2>2, <2>3, <2>4 DEF Steady, Live, Approved
<1>2. ASSUME NEW g \in Requests, Timeout(g) PROVE Steady
  <2>1. UNCHANGED <<cmd, pc, verdict>>
    BY <1>2, TimeoutFacts
  <2>2. /\ UNCHANGED <<keyOf, members>>
        /\ \A k \in Keys : groups'[k] \in {groups[k], None}
    BY <1>0, <1>2, TimeoutFacts DEF TimeoutAll, GroupTypes
  <2>3. \A q \in Presses : job'[q] = job[q]
    BY <1>0, <1>2, TimeoutFacts DEF TimeoutAll, Begun, JobTypes
  <2> QED
    BY <1>0, <2>1, <2>2, <2>3 DEF Steady, Live, Approved
<1>3. ASSUME NEW t \in Presses \cup Requests, Resolves(t) PROVE Steady
  <2>1. UNCHANGED <<cmd, pc, verdict, keyOf, members>> /\ SamePress(t)
    BY <1>3 DEF Resolves, Aside, Moves, Takes, Stops
  <2>2. \A k \in Keys : groups'[k] \in {groups[k], None}
    BY <1>0, <1>3 DEF Resolves, Drops, GroupTypes
  <2>3. \A p \in Presses : Approved(p) =>
         /\ job'[p].outcome = "approve" /\ job'[p].scope = job[p].scope
         /\ job'[p].covers = job[p].covers /\ job'[p].target = job[p].target
    BY <1>0, <2>1 DEF SamePress, JobTypes, Approved
  <2> QED
    BY <1>0, <2>1, <2>2, <2>3 DEF Steady, Live
<1> QED
  BY <1>1, <1>2, <1>3

\* close() is steady.
LEMMA CloseSteady ==
    ASSUME Inv, CloseBegin \/ CloseStep
    PROVE  Steady
<1>1. /\ UNCHANGED <<cmd, pc, verdict, keyOf, members, job>>
      /\ \A k \in Keys : groups'[k] \in {groups[k], None}
  BY DEF CloseBegin, CloseStep, CloseTell, CloseSettle, CloseClear, RemovePendingDir
<1> QED
  BY <1>1, InvParts DEF Steady, Live, Approved

\* Every step is steady.
LEMMA NextSteady ==
    ASSUME Inv, [Next]_vars
    PROVE  Steady
<1>1. CASE UNCHANGED vars
  BY <1>1 DEF Steady, Live, Approved
<1>2. CASE Next
  <2>1. ASSUME NEW t \in Presses \cup Requests,
               JobStep(t) \/ RemovalFails(t) \/ JobAuditFails(t) \/ JobRunEnds(t)
        PROVE  Steady
    BY <2>1, ResolverFacts, ResolveSteady
  <2> QED
    BY <1>2, <2>1, RequestSteady, ResolveSteady, CloseSteady DEF Next
<1> QED
  BY <1>1, <1>2

\* What a person approved stays approved.
LEMMA SteadyAllowed ==
    ASSUME Inv, Steady
    PROVE  /\ \A k \in Keys : Allowed(k) => Allowed(k)'
           /\ \A r \in Requests : Covered(r) => Covered(r)'
           /\ \A r \in Requests : pc[r] \notin Early /\ AtOnce(r) => AtOnce(r)'
<1>1. \A k \in Keys : Allowed(k) => Allowed(k)'
  BY DEF Steady, Allowed, Approved
<1>2. \A r \in Requests : Covered(r) => Covered(r)'
  BY DEF Steady, Covered, Approved
<1>3. ASSUME NEW r \in Requests, pc[r] \notin Early, AtOnce(r) PROVE AtOnce(r)'
  <2>1. cmd'[r] = cmd[r] /\ verdict'[r] = verdict[r] /\ cmd[r].key \in Keys
    BY <1>3, InvParts DEF Steady, HandlersFit, Early
  <2> QED
    BY <1>1, <1>3, <2>1 DEF AtOnce
<1> QED
  BY <1>1, <1>2, <1>3

-----------------------------------------------------------------------------
(* Handlers and groups. *)

\* The steps of a handler that leave the groups alone.
Quiet(r) ==
    \/ \E c \in Commands : Receive(r, c)
    \/ Resolve(r) \/ Audited(r) \/ EntryVisible(r) \/ Resume(r) \/ Leave(r) \/ LeaveFails(r) \/ WakeUp(r)
    \/ \E v \in Verdicts : Check(r, v) \/ AskWithdrawn(r, v)
    \/ RunEnds(r) \/ PeerLeaves(r)

\* What such a step does to its own request, and that it does nothing to others.
LEMMA QuietFacts ==
    ASSUME Inv, NEW r \in Requests, Quiet(r)
    PROVE  /\ UNCHANGED <<grouping, cleaning, job, approvedKeys>>
           /\ \A q \in Requests \ {r} : /\ cmd'[q] = cmd[q] /\ pc'[q] = pc[q]
                                        /\ verdict'[q] = verdict[q] /\ (q \in started' <=> q \in started)
           /\ pc'[r] # "idle" => cmd'[r] \in Commands
           /\ pc'[r] = "checking" => cmd'[r].approval \in {"allow", "prompt"}
           /\ pc'[r] \in Early => pc[r] \in Early /\ started' = started
           /\ pc'[r] = "admitting" => \/ pc[r] = "admitting" /\ UNCHANGED <<cmd, verdict>>
                                      \/ \E v \in Verdicts : Check(r, v) /\ Outcome(r, v) = "admitting"
           /\ r \in started' => r \in started \/ pc[r] = "admitting"
<1>0. HandlerTypes /\ SetTypes /\ HandlersFit
      /\ \A c \in Commands : c.approval \in {"allow", "prompt", "deny", "none"}
  BY InvParts, HostExecAssumption
<1>1. ASSUME NEW c \in Commands, Receive(r, c)
      PROVE  /\ UNCHANGED <<grouping, cleaning, job, approvedKeys, started, verdict>>
             /\ cmd' = [cmd EXCEPT ![r] = c] /\ pc' = [pc EXCEPT ![r] = "resolving"] /\ pc[r] = "idle"
  BY <1>1 DEF Receive
<1>2. CASE \E c \in Commands : Receive(r, c)
  BY <1>0, <1>1, <1>2 DEF HandlerTypes, Early
<1>3. CASE Resolve(r)
  <2>1. /\ UNCHANGED <<grouping, cleaning, job, approvedKeys, started, verdict, cmd>>
        /\ pc[r] = "resolving" /\ pc'[r] \in {"done", "refusing", "checking"}
        /\ pc'[r] = "checking" => cmd[r].approval \notin {"deny", "none"}
        /\ \A q \in Requests \ {r} : pc'[q] = pc[q]
    BY <1>0, <1>3 DEF Resolve, HandlerTypes
  <2>2. cmd[r] \in Commands
    BY <1>0, <2>1 DEF HandlersFit
  <2> QED
    BY <1>0, <2>1, <2>2 DEF Early
<1>4. CASE Audited(r)
  <2>1. /\ UNCHANGED <<grouping, cleaning, job, approvedKeys, verdict, cmd>>
        /\ pc[r] \in {"refusing", "admitting"} /\ pc'[r] \in {"done", "running"}
        /\ \A q \in Requests \ {r} : pc'[q] = pc[q] /\ (q \in started' <=> q \in started)
        /\ r \in started' => r \in started \/ pc[r] = "admitting"
    BY <1>0, <1>4 DEF Audited, HandlerTypes
  <2> QED
    BY <1>0, <2>1 DEF Early, HandlersFit
<1>5. CASE EntryVisible(r) \/ Resume(r) \/ Leave(r) \/ LeaveFails(r) \/ WakeUp(r) \/ RunEnds(r) \/ PeerLeaves(r)
  <2>1. /\ UNCHANGED <<grouping, cleaning, job, approvedKeys, verdict, cmd, started>>
        /\ \/ UNCHANGED pc
           \/ /\ pc[r] \in {"writing", "written", "leaving", "waiting", "running"}
              /\ \E x \in {"written", "leaving", "waiting", "done"} : pc' = [pc EXCEPT ![r] = x]
    BY <1>0, <1>5 DEF EntryVisible, Resume, Leave, LeaveFails, WakeUp, RunEnds, PeerLeaves, Cancel
  <2>2. CASE UNCHANGED pc
    BY <1>0, <2>1, <2>2 DEF HandlersFit
  <2>3. ASSUME pc[r] \in {"writing", "written", "leaving", "waiting", "running"},
               NEW x \in {"written", "leaving", "waiting", "done"}, pc' = [pc EXCEPT ![r] = x]
        PROVE  /\ \A q \in Requests \ {r} : pc'[q] = pc[q]
               /\ pc'[r] \in {"written", "leaving", "waiting", "done"}
    BY <1>0, <2>3 DEF HandlerTypes
  <2> QED
    BY <1>0, <2>1, <2>2, <2>3 DEF HandlersFit, Early
<1>6. ASSUME NEW v \in Verdicts, Check(r, v) \/ AskWithdrawn(r, v)
      PROVE  /\ UNCHANGED <<grouping, cleaning, job, approvedKeys, cmd, started>>
             /\ pc[r] = "checking" /\ pc'[r] \in {"done", "refusing", "admitting"}
             /\ pc'[r] = "admitting" => Check(r, v) /\ Outcome(r, v) = "admitting"
             /\ \A q \in Requests \ {r} : pc'[q] = pc[q] /\ verdict'[q] = verdict[q]
  <2>1. Outcome(r, v) \in {"refusing", "admitting", "asking"}
    BY DEF Outcome
  <2>2. CASE Check(r, v)
    BY <1>0, <2>1, <2>2 DEF Check, HandlerTypes
  <2>3. CASE AskWithdrawn(r, v)
    BY <1>0, <2>3 DEF AskWithdrawn, HandlerTypes
  <2> QED
    BY <1>6, <2>2, <2>3
<1>7. CASE \E v \in Verdicts : Check(r, v) \/ AskWithdrawn(r, v)
  <2>1. PICK v \in Verdicts : Check(r, v) \/ AskWithdrawn(r, v)
    BY <1>7
  <2> QED
    BY <1>0, <1>6, <2>1 DEF HandlersFit, Early
<1> QED
  BY <1>2, <1>3, <1>4, <1>5, <1>7 DEF Quiet

\* What Ask does: r joins group g of its key k, an old one or its own.
Joins(r, v, g, k) ==
    /\ k = cmd[r].key /\ pc[r] = "checking" /\ Outcome(r, v) = "asking"
    /\ \/ groups[k] = None /\ g = r /\ keyOf[r] = None /\ timer' = [timer EXCEPT ![r] = "armed"]
       \/ groups[k] = g /\ keyOf[g] = k /\ UNCHANGED timer
    /\ groups' = [groups EXCEPT ![k] = g] /\ keyOf' = [keyOf EXCEPT ![g] = k]
    /\ members' = [members EXCEPT ![g] = @ \cup {r}] /\ index' = [index EXCEPT ![r] = k]
    /\ pc' = [pc EXCEPT ![r] = "writing"] /\ verdict' = [verdict EXCEPT ![r] = v]
    /\ UNCHANGED <<cmd, cleaning, job, approvedKeys, started, closing>>

\* Every Ask is of that form.
LEMMA AskFacts ==
    ASSUME Inv, NEW r \in Requests, NEW v \in Verdicts, Ask(r, v)
    PROVE  \E g \in Requests, k \in Keys : Joins(r, v, g, k)
<1>0. GroupTypes /\ HandlersFit /\ GroupsFit /\ None \notin Requests /\ \A c \in Commands : c.key \in Keys
  BY InvParts
<1>1. PICK k \in Keys : k = cmd[r].key
  BY <1>0 DEF Ask, HandlersFit
<1>2. PICK g \in Requests : g = IF groups[k] = None THEN r ELSE groups[k]
  BY <1>0 DEF GroupTypes
<1>3. /\ groups' = [groups EXCEPT ![k] = g] /\ keyOf' = [keyOf EXCEPT ![g] = k]
      /\ members' = [members EXCEPT ![g] = @ \cup {r}] /\ index' = [index EXCEPT ![r] = k]
      /\ pc' = [pc EXCEPT ![r] = "writing"] /\ verdict' = [verdict EXCEPT ![r] = v]
      /\ timer' = (IF groups[k] = None THEN [timer EXCEPT ![g] = "armed"] ELSE timer)
      /\ pc[r] = "checking" /\ Outcome(r, v) = "asking"
      /\ UNCHANGED <<cmd, cleaning, job, approvedKeys, started, closing>>
  BY <1>1, <1>2 DEF Ask
<1>4. CASE groups[k] = None
  <2>1. g = r /\ keyOf[r] = None
    <3>1. pc[r] = "checking"
      BY <1>3
    <3> QED
      BY <1>0, <1>2, <1>4, <3>1 DEF HandlersFit, Early
  <2> QED
    BY <1>1, <1>3, <1>4, <2>1 DEF Joins
<1>5. CASE groups[k] # None
  <2>1. groups[k] = g /\ keyOf[g] = k
    BY <1>0, <1>2, <1>5 DEF GroupsFit
  <2> QED
    BY <1>1, <1>3, <1>5, <2>1 DEF Joins
<1> QED
  BY <1>4, <1>5

\* What the other steps do to handlers: nothing but taking them out of the index.
Elsewhere ==
    /\ UNCHANGED <<cmd, pc, verdict, keyOf>>
    /\ \A r \in Requests : index'[r] \in {index[r], None}
    /\ \A k \in Keys : groups'[k] \in {groups[k], None}
    /\ \A g \in Requests : members'[g] \subseteq members[g]
    /\ \A g \in Requests : timer'[g] # "unset" => timer[g] # "unset" \/ keyOf[g] # None
    /\ \A r \in Requests : cleaning'[r] # None => cleaning'[r] \in Requests /\ keyOf[cleaning'[r]] # None

\* They are of that form.
LEMMA ElsewhereFacts ==
    ASSUME Inv,
           \/ \E r \in Requests : CleanupStep(r) \/ Timeout(r)
           \/ \E p \in Presses, r \in Requests, o \in {"approve", "deny"}, s \in {"once", "capability"} :
                 Press(p, r, o, s)
           \/ \E t \in Presses \cup Requests : Resolves(t)
           \/ CloseBegin \/ CloseStep \/ UNCHANGED vars
    PROVE  Elsewhere
<1>0. GroupTypes /\ LifeTypes /\ GroupsFit /\ JobsFit /\ None \notin Requests /\ None \notin Keys
  BY InvParts
<1>10. \A r \in Requests : cleaning[r] # None => cleaning[r] \in Requests /\ keyOf[cleaning[r]] # None
  BY <1>0 DEF GroupsFit, LifeTypes
<1>1. ASSUME NEW r \in Requests, CleanupBegin(r) PROVE Elsewhere
  <2>1. PICK g \in Requests \cup {None} : g = FindGroupByRequestId(r) /\ (g # None => keyOf[g] # None)
    <3>1. FindGroupByRequestId(r) \in Requests \cup {None}
      BY <1>0 DEF FindGroupByRequestId, GroupTypes
    <3>2. FindGroupByRequestId(r) # None => keyOf[FindGroupByRequestId(r)] # None
      BY <1>0, FoundGroup
    <3> QED
      BY <3>1, <3>2
  <2>2. /\ UNCHANGED <<cmd, pc, verdict, keyOf, groups, timer>>
        /\ index' = [index EXCEPT ![r] = None] /\ cleaning' = [cleaning EXCEPT ![r] = g]
        /\ members' = IF g = None THEN members ELSE [members EXCEPT ![g] = @ \ {r}]
    BY <1>1, <2>1 DEF CleanupBegin
  <2>3. \A q \in Requests : cleaning'[q] # None => cleaning'[q] \in Requests /\ keyOf[cleaning'[q]] # None
    BY <1>0, <1>10, <2>1, <2>2 DEF LifeTypes
  <2> QED
    BY <1>0, <2>1, <2>2, <2>3 DEF Elsewhere, GroupTypes
<1>2. ASSUME NEW r \in Requests, CleanupRemoved(r) \/ CleanupFails(r) \/ CleanupClosed(r) PROVE Elsewhere
  <2>1. /\ UNCHANGED <<cmd, pc, verdict, keyOf, members, index>>
        /\ \A k \in Keys : groups'[k] \in {groups[k], None}
    BY <1>0, <1>2 DEF CleanupRemoved, CleanupFails, CleanupClosed, GroupTypes
  <2>3. \A q \in Requests : cleaning'[q] \in {cleaning[q], None}
    BY <1>0, <1>2 DEF CleanupRemoved, CleanupFails, CleanupClosed, LifeTypes
  <2>2. \A g \in Requests : timer'[g] # "unset" => timer[g] # "unset" \/ keyOf[g] # None
    BY <1>0, <1>2, <1>10 DEF CleanupRemoved, CleanupFails, CleanupClosed, GroupTypes, LifeTypes
  <2> QED
    BY <1>10, <2>1, <2>2, <2>3 DEF Elsewhere
<1>3. ASSUME NEW g \in Requests, Timeout(g) PROVE Elsewhere
  <2>1. keyOf[g] \in Keys /\ UNCHANGED <<request, tidying>>
    BY <1>3, TimeoutFacts
  <2>2. CASE UNCHANGED <<groups, keyOf, members, index>> /\ timer' = [timer EXCEPT ![g] = "fired"]
    BY <1>0, <1>10, <2>1, <2>2 DEF Elsewhere, GroupTypes
  <2>3. ASSUME NEW now \in Requests, TimeoutAll(g, now) PROVE Elsewhere
    BY <1>0, <1>10, <2>1, <2>3 DEF Elsewhere, GroupTypes, TimeoutAll
  <2> QED
    BY <1>3, <2>2, <2>3, TimeoutFacts
<1>4. ASSUME NEW p \in Presses, NEW r \in Requests, NEW o \in {"approve", "deny"},
             NEW s \in {"once", "capability"}, Press(p, r, o, s)
      PROVE  Elsewhere
  <2>1. PICK g \in Requests : /\ keyOf[g] = cmd[r].key /\ cmd[r].key \in Keys
                              /\ PressAll(p, r, g) \/ PressOne(p, r, g, o)
    BY <1>4, PressFacts
  <2>2. UNCHANGED <<request, tidying>>
    BY <1>4, PressFacts
  <2>3. CASE PressAll(p, r, g)
    BY <1>0, <1>10, <2>1, <2>2, <2>3 DEF PressAll, Elsewhere, GroupTypes
  <2>4. CASE PressOne(p, r, g, o)
    BY <1>0, <1>10, <2>1, <2>2, <2>4 DEF PressOne, Elsewhere, GroupTypes
  <2> QED
    BY <2>1, <2>3, <2>4
<1>5. ASSUME NEW t \in Presses \cup Requests, Resolves(t) PROVE Elsewhere
  <2>1. UNCHANGED <<cmd, pc, verdict, tidying, keyOf, members>>
    BY <1>5 DEF Resolves, Aside
  <2>2. \A r \in Requests : index'[r] \in {index[r], None}
    BY <1>0, <1>5 DEF Resolves, Takes, Stops, GroupTypes
  <2>3. job[t].group \in Requests /\ keyOf[job[t].group] # None
    BY <1>0, <1>5 DEF Resolves, JobsFit, JobFits
  <2>4. /\ \A k \in Keys : groups'[k] \in {groups[k], None}
        /\ \A g \in Requests : timer'[g] # "unset" => timer[g] # "unset" \/ keyOf[g] # None
    BY <1>0, <1>5, <2>3 DEF Resolves, Drops, GroupTypes
  <2> QED
    BY <1>10, <2>1, <2>2, <2>4 DEF Elsewhere
<1>6. CASE CloseBegin \/ CloseStep \/ UNCHANGED vars
  <2>1. /\ UNCHANGED <<cmd, pc, verdict, tidying, keyOf, members>>
        /\ \A r \in Requests : index'[r] \in {index[r], None}
        /\ \A k \in Keys : groups'[k] \in {groups[k], None}
    BY <1>0, <1>6 DEF CloseBegin, CloseStep, CloseTell, CloseSettle, CloseClear, RemovePendingDir
  <2>2. \A g \in Requests : timer'[g] # "unset" => timer[g] # "unset" \/ keyOf[g] # None
    <3>1. ASSUME NEW g \in Requests, g \in LiveGroups PROVE keyOf[g] # None
      BY <1>0, <3>1 DEF LiveGroups, GroupsFit
    <3> QED
      BY <1>0, <1>6, <3>1 DEF CloseBegin, CloseStep, CloseTell, CloseSettle, CloseClear,
                              RemovePendingDir, GroupTypes
  <2> QED
    BY <1>10, <2>1, <2>2 DEF Elsewhere
<1> QED
  BY <1>1, <1>2, <1>3, <1>4, <1>5, <1>6 DEF CleanupStep

\* Every step of a resolver, a press, a timer, a cleanup or close().
OtherStep ==
    \/ \E r \in Requests : CleanupStep(r) \/ Timeout(r)
    \/ \E p \in Presses, r \in Requests, o \in {"approve", "deny"}, s \in {"once", "capability"} :
          Press(p, r, o, s)
    \/ \E t \in Presses \cup Requests : Resolves(t)
    \/ CloseBegin \/ CloseStep \/ UNCHANGED vars

\* Every step is a quiet one of a handler, a question, or one of the others.
LEMMA NextCases ==
    ASSUME Inv, [Next]_vars
    PROVE  \/ \E r \in Requests : Quiet(r)
           \/ \E r \in Requests, v \in Verdicts : Ask(r, v)
           \/ OtherStep
<1>1. ASSUME NEW t \in Presses \cup Requests,
             JobStep(t) \/ RemovalFails(t) \/ JobAuditFails(t) \/ JobRunEnds(t)
      PROVE  OtherStep
  BY <1>1, ResolverFacts DEF OtherStep
<1>2. ASSUME NEW r \in Requests, HandlerStep(r)
      PROVE  Quiet(r) \/ \E v \in Verdicts : Ask(r, v)
  BY <1>2 DEF HandlerStep, Quiet
<1> QED
  BY <1>1, <1>2 DEF Next, OtherStep, Quiet

\* Every step keeps what handlers rely on.
LEMMA NextHandlersFit ==
    ASSUME Inv, [Next]_vars
    PROVE  HandlersFit'
<1>0. /\ HandlerTypes /\ GroupTypes /\ HandlersFit /\ GroupsFit /\ None \notin Requests
      /\ None \notin Keys /\ JobsFit /\ JobTypes
  BY InvParts
<1>1. ASSUME NEW r \in Requests, Quiet(r) PROVE HandlersFit'
  <2>1. \A q \in Requests \ {r} : /\ cmd'[q] = cmd[q] /\ pc'[q] = pc[q]
                                  /\ q \in started' <=> q \in started
    BY <1>1, QuietFacts
  <2>2. /\ UNCHANGED grouping
        /\ pc'[r] # "idle" => cmd'[r] \in Commands
        /\ pc'[r] = "checking" => cmd'[r].approval \in {"allow", "prompt"}
        /\ pc'[r] \in Early => pc[r] \in Early /\ started' = started
    BY <1>1, QuietFacts
  <2>3. /\ pc[r] # "idle" => cmd'[r] = cmd[r]
        /\ pc[r] \notin Early => pc'[r] \notin Early
    <3>1. Steady
      BY <1>1, RequestSteady DEF Quiet, HandlerStep
    <3> QED
      BY <3>1 DEF Steady
  <2>4. /\ pc'[r] \in Early => keyOf'[r] = None /\ r \notin started'
        /\ index'[r] # None => pc'[r] \notin Early /\ index'[r] = cmd'[r].key
    BY <1>0, <2>2, <2>3 DEF HandlersFit, Early
  <2> QED
    BY <1>0, <2>1, <2>2, <2>4 DEF HandlersFit
<1>2. ASSUME NEW r \in Requests, NEW v \in Verdicts, Ask(r, v) PROVE HandlersFit'
  <2>1. PICK g \in Requests, k \in Keys : Joins(r, v, g, k)
    BY <1>2, AskFacts
  <2>2. /\ pc'[r] = "writing" /\ cmd'[r] \in Commands /\ index'[r] = cmd'[r].key
    BY <1>0, <2>1 DEF Joins, HandlersFit, HandlerTypes, GroupTypes
  <2>3. ASSUME NEW q \in Requests, q # r
        PROVE  /\ pc'[q] = pc[q] /\ cmd'[q] = cmd[q] /\ index'[q] = index[q]
               /\ q \in started' <=> q \in started
               /\ keyOf[q] = None => keyOf'[q] = None
    BY <1>0, <2>1, <2>3 DEF Joins, HandlerTypes, GroupTypes
  <2> QED
    BY <1>0, <2>2, <2>3 DEF HandlersFit, Early
<1>3. CASE OtherStep
  <2>1. Elsewhere
    BY <1>3, ElsewhereFacts DEF OtherStep
  <2>2. \A q \in started' : q \in started \/ (q \in Requests => pc[q] \notin Early)
    <3>1. ASSUME NEW t \in Presses \cup Requests, Resolves(t)
          PROVE  \A q \in started' : q \in started \/ (q \in Requests => pc[q] \notin Early)
      BY <1>0, <3>1 DEF Resolves, JobsFit, JobFits
    <3>2. CASE started' = started
      BY <3>2
    <3>3. \/ started' = started \/ \E t \in Presses \cup Requests : Resolves(t)
      BY <1>3, PressFacts, TimeoutFacts
         DEF OtherStep, CleanupStep, CleanupBegin, CleanupRemoved, CleanupFails, CleanupClosed, CloseBegin,
             CloseStep, CloseTell, CloseSettle, CloseClear, RemovePendingDir
    <3> QED
      BY <3>1, <3>2, <3>3
  <2> QED
    BY <1>0, <2>1, <2>2 DEF Elsewhere, HandlersFit
<1> QED
  BY <1>1, <1>2, <1>3, NextCases

\* Every step keeps the groups under their keys.
LEMMA NextGroupsFit ==
    ASSUME Inv, [Next]_vars
    PROVE  GroupsFit'
<1>0. /\ HandlerTypes /\ LifeTypes /\ GroupTypes /\ HandlersFit /\ GroupsFit
      /\ None \notin Requests /\ None \notin Keys
  BY InvParts
<1>1. ASSUME NEW r \in Requests, Quiet(r) PROVE GroupsFit'
  <2>1. UNCHANGED <<grouping, cleaning>>
    BY <1>1, QuietFacts
  <2>2. \A q \in Requests : pc[q] \notin Early => pc'[q] \notin Early
    <3>1. Steady
      BY <1>1, RequestSteady DEF Quiet, HandlerStep
    <3> QED
      BY <3>1 DEF Steady
  <2>3. \A g \in Requests : members[g] \in SUBSET Requests
    BY <1>0 DEF GroupTypes
  <2> QED
    BY <1>0, <2>1, <2>2, <2>3 DEF GroupsFit
<1>2. ASSUME NEW r \in Requests, NEW v \in Verdicts, Ask(r, v) PROVE GroupsFit'
  <2>1. PICK g \in Requests, k \in Keys : Joins(r, v, g, k)
    BY <1>2, AskFacts
  <2>2. \A h \in Requests : keyOf[h] # None => keyOf'[h] = keyOf[h]
    BY <1>0, <2>1 DEF Joins, GroupTypes
  <2>3. keyOf'[g] = k /\ \A q \in Requests : pc[q] \notin Early \/ q = r => pc'[q] \notin Early
    BY <1>0, <2>1 DEF Joins, GroupTypes, HandlerTypes, Early
  <2>4. \A h \in Keys : groups'[h] # None => keyOf'[groups'[h]] = h
    <3>1. \A h \in Keys \ {k} : groups'[h] = groups[h]
      BY <1>0, <2>1 DEF Joins, GroupTypes
    <3>2. groups'[k] = g
      BY <1>0, <2>1 DEF Joins, GroupTypes
    <3>3. \A h \in Keys : groups[h] # None => groups[h] \in Requests /\ keyOf[groups[h]] # None
      BY <1>0 DEF GroupsFit, GroupTypes
    <3> QED
      BY <1>0, <2>2, <2>3, <3>1, <3>2, <3>3 DEF GroupsFit
  <2>5. \A h \in Requests : timer'[h] # "unset" => keyOf'[h] # None
    BY <1>0, <2>1, <2>2, <2>3 DEF Joins, GroupTypes, GroupsFit
  <2>6. \A q \in Requests : cleaning'[q] # None => keyOf'[cleaning'[q]] # None
    <3>1. UNCHANGED cleaning
      BY <2>1 DEF Joins
    <3> QED
      BY <1>0, <2>2, <3>1 DEF LifeTypes, GroupsFit
  <2>7. \A h \in Requests : \A q \in members'[h] : pc'[q] \notin Early
    <3>1. \A h \in Requests : members'[h] \subseteq members[h] \cup {r} /\ members[h] \subseteq Requests
      BY <1>0, <2>1 DEF Joins, GroupTypes
    <3> QED
      BY <1>0, <2>3, <3>1 DEF GroupsFit
  <2> QED
    BY <2>4, <2>5, <2>6, <2>7 DEF GroupsFit
<1>3. CASE OtherStep
  <2>1. Elsewhere
    BY <1>3, ElsewhereFacts DEF OtherStep
  <2> QED
    BY <1>0, <2>1 DEF Elsewhere, GroupsFit
<1> QED
  BY <1>1, <1>2, <1>3, NextCases

-----------------------------------------------------------------------------
(* Resolvers, memory and runs. *)

\* A resolver that does not move still fits.
LEMMA JobKept ==
    ASSUME Inv, Steady, NEW t \in Presses \cup Requests, job'[t] = job[t]
    PROVE  JobFits(t)'
<1>0. /\ JobFits(t) /\ job[t] \in Jobs /\ GroupTypes /\ None \notin Requests
      /\ job[t].covers \in SUBSET Requests
  BY InvParts DEF JobsFit, JobTypes, Jobs
<1>1. \A r \in job'[t].covers : pc'[r] \notin Early
  BY <1>0 DEF JobFits, Steady
<1>2. ASSUME Running(t)
      PROVE  /\ keyOf'[job[t].group] # None
             /\ job[t].scope # "once" => ~Live(job[t].group)'
             /\ job[t].pc = "closing" => members'[job[t].group] \subseteq job[t].covers
  <2>1. /\ job[t].group \in Requests /\ keyOf[job[t].group] # None
        /\ job[t].pc = "closing" => ~Live(job[t].group)
        /\ job[t].scope # "once" => ~Live(job[t].group)
    BY <1>0, <1>2 DEF JobFits
  <2>2. /\ keyOf'[job[t].group] = keyOf[job[t].group]
        /\ ~Live(job[t].group) => /\ ~Live(job[t].group)'
                                  /\ members'[job[t].group] \subseteq members[job[t].group]
    BY <2>1 DEF Steady, Live
  <2> QED
    BY <1>0, <1>2, <2>1, <2>2 DEF JobFits
<1>3. Running(t)' <=> Running(t)
  BY DEF Running
<1>4. \A g : Live(g)' <=> \E k \in Keys : groups'[k] = g
  BY DEF Live
<1> QED
  BY <1>0, <1>1, <1>2, <1>3, <1>4 DEF JobFits, Live

\* A resolver that a press or a timer starts fits: its group is out of the map, or it
\* answers only the request that was pressed.
LEMMA JobBegun ==
    ASSUME Inv, Steady, NEW t \in Presses \cup Requests, NEW g \in Requests, keyOf[g] # None,
           NEW how \in {"closing", "removing"}, NEW o \in {"approve", "deny"}, NEW s, NEW C, NEW cur,
           NEW target, Begun(t, g, how, o, s, C, cur, target),
           o = "approve" => t \in Presses,
           C \subseteq Requests, \A r \in C : pc[r] \notin Early,
           \/ how = "closing" /\ s = "capability" /\ C = members[g] /\ UNCHANGED members /\ ~Live(g)'
           \/ how = "removing" /\ s = "once" /\ cur \in C
    PROVE  JobFits(t)'
<1>1. /\ job'[t].pc = how /\ job'[t].outcome = o /\ job'[t].scope = s /\ job'[t].group = g
      /\ job'[t].cur = cur /\ job'[t].todo = {} /\ job'[t].covers = C
  BY DEF Begun
<1>2. \A r \in C : pc'[r] \notin Early
  BY DEF Steady
<1>3. keyOf'[g] # None
  BY InvParts DEF Steady
<1>4. ASSUME how = "closing" PROVE ~Live(job[t].group)' /\ members'[g] \subseteq C
  BY <1>1, <1>4 DEF Live
<1> QED
  BY <1>1, <1>2, <1>3, <1>4 DEF JobFits, Running

\* A resolver that goes on fits: what it takes next is one of the requests it covers.
LEMMA JobGoesOn ==
    ASSUME Inv, Steady, NEW t \in Presses \cup Requests, Resolves(t)
    PROVE  JobFits(t)'
<1>0. /\ JobFits(t) /\ job[t] \in Jobs /\ Running(t) /\ SamePress(t) /\ None \notin Requests
      /\ job[t].covers \in SUBSET Requests
  BY InvParts DEF JobsFit, JobTypes, Jobs, Resolves, Moves, Takes, Stops
<1>1. /\ job[t].group \in Requests /\ keyOf[job[t].group] # None
      /\ job[t].todo \subseteq job[t].covers
      /\ job[t].scope = "once" => job[t].todo = {} /\ job[t].pc # "closing"
      /\ job[t].scope # "once" => ~Live(job[t].group)
      /\ job[t].pc = "closing" => members[job[t].group] \subseteq job[t].covers
      /\ job[t].pc # "closing" => job[t].cur \in job[t].covers
  BY <1>0 DEF JobFits
<1>2. /\ job'[t].outcome = job[t].outcome /\ job'[t].scope = job[t].scope
      /\ job'[t].covers = job[t].covers
  BY <1>0 DEF SamePress
<1>3. (\A r \in job'[t].covers : pc'[r] \notin Early) /\ keyOf'[job[t].group] # None
  BY <1>0, <1>1, <1>2 DEF JobFits, Steady
<1>4. job'[t].pc # "idle"
  BY <1>0 DEF Resolves, Moves, Takes, Stops
<1>5. ASSUME Running(t)'
      PROVE  /\ job'[t].group = job[t].group /\ job'[t].pc # "closing"
             /\ job'[t].cur \in job[t].covers /\ job'[t].todo \subseteq job[t].covers
             /\ job[t].scope = "once" => job'[t].todo = {}
  <2>1. ~Stops(t)
    BY <1>5 DEF Stops, Running
  <2>2. CASE job[t].pc = "closing"
    BY <1>1, <2>1, <2>2 DEF Resolves, Takes
  <2>3. CASE job[t].pc # "closing"
    BY <1>1, <2>1, <2>3 DEF Resolves, Takes, Moves
  <2> QED
    BY <2>2, <2>3
<1>6. ASSUME Running(t)', job[t].scope # "once" PROVE ~Live(job[t].group)'
  <2>1. PICK g \in Requests : g = job[t].group
    BY <1>1
  <2>2. ~Live(g)'
    BY <1>1, <1>6, <2>1 DEF Steady
  <2> QED
    BY <1>5, <1>6, <2>1, <2>2 DEF Live
<1> QED
  BY <1>0, <1>1, <1>2, <1>3, <1>4, <1>5, <1>6 DEF JobFits

\* Every step keeps the resolvers to the requests they cover.
LEMMA NextJobsFit ==
    ASSUME Inv, [Next]_vars
    PROVE  JobsFit'
<1>0. /\ GroupTypes /\ JobTypes /\ GroupsFit /\ JobsFit /\ None \notin Requests /\ None \notin Keys
      /\ Steady /\ Requests \cap Presses = {}
  BY InvParts, NextSteady, HostExecAssumption
<1>1. CASE UNCHANGED job
  BY <1>0, <1>1, JobKept DEF JobsFit
<1>2. ASSUME NEW p \in Presses, NEW r \in Requests, NEW o \in {"approve", "deny"},
             NEW s \in {"once", "capability"}, Press(p, r, o, s)
      PROVE  JobsFit'
  <2>1. PICK g \in Requests : /\ keyOf[g] = cmd[r].key /\ cmd[r].key \in Keys
                              /\ PressAll(p, r, g) \/ PressOne(p, r, g, o)
    BY <1>2, PressFacts
  <2>2. pc[r] \notin Early /\ keyOf[g] # None
    BY <1>0, <1>2, <2>1, PressFacts
  <2>3. \A t \in (Presses \cup Requests) \ {p} : job'[t] = job[t]
    BY <1>0, <2>1 DEF PressAll, PressOne, Begun, JobTypes
  <2>4. CASE PressAll(p, r, g)
    <3>1. PICK C \in SUBSET Requests : C = members[g]
      BY <1>0 DEF GroupTypes
    <3>2. ~Live(g)' /\ UNCHANGED members /\ \A q \in C : pc[q] \notin Early
      BY <1>0, <2>1, <2>4, <3>1 DEF PressAll, Live, GroupTypes, GroupsFit
    <3>3. Begun(p, g, "closing", "approve", "capability", C, None, r)
      BY <2>4, <3>1 DEF PressAll
    <3>4. JobFits(p)'
      BY <1>0, <2>2, <3>1, <3>2, <3>3, JobBegun
    <3> QED
      BY <1>0, <2>3, <3>4, JobKept DEF JobsFit
  <2>5. CASE PressOne(p, r, g, o)
    <3>1. Begun(p, g, "removing", o, "once", {r}, r, r)
      BY <2>5 DEF PressOne
    <3>2. JobFits(p)'
      BY <1>0, <2>2, <3>1, JobBegun
    <3> QED
      BY <1>0, <2>3, <3>2, JobKept DEF JobsFit
  <2> QED
    BY <2>1, <2>4, <2>5
<1>3. ASSUME NEW g \in Requests, Timeout(g) PROVE JobsFit'
  <2>1. keyOf[g] \in Keys
    BY <1>3, TimeoutFacts
  <2>2. ASSUME NEW now \in Requests, TimeoutAll(g, now) PROVE JobsFit'
    <3>1. PICK C \in SUBSET Requests : C = members[now]
      BY <1>0 DEF GroupTypes
    <3>2. /\ ~Live(now)' /\ UNCHANGED members /\ keyOf[now] # None
          /\ \A q \in C : pc[q] \notin Early
      BY <1>0, <2>1, <2>2, <3>1 DEF TimeoutAll, Live, GroupTypes, GroupsFit
    <3>3. Begun(g, now, "closing", "deny", "capability", C, None, None)
      BY <2>2, <3>1 DEF TimeoutAll
    <3>4. JobFits(g)'
      BY <1>0, <3>1, <3>2, <3>3, JobBegun
    <3>5. \A t \in (Presses \cup Requests) \ {g} : job'[t] = job[t]
      BY <1>0, <2>2 DEF TimeoutAll, Begun, JobTypes
    <3> QED
      BY <1>0, <3>4, <3>5, JobKept DEF JobsFit
  <2> QED
    BY <1>1, <1>3, <2>2, TimeoutFacts
<1>4. ASSUME NEW t \in Presses \cup Requests, Resolves(t) PROVE JobsFit'
  <2>1. \A u \in (Presses \cup Requests) \ {t} : job'[u] = job[u]
    BY <1>0, <1>4 DEF Resolves, Moves, Takes, Stops, SamePress, JobTypes
  <2> QED
    BY <1>0, <1>4, <2>1, JobKept, JobGoesOn DEF JobsFit
<1>5. CASE \/ \E r \in Requests : Quiet(r) \/ CleanupStep(r) \/ \E v \in Verdicts : Ask(r, v)
           \/ CloseBegin \/ CloseStep \/ UNCHANGED vars
  <2>1. UNCHANGED job
    BY <1>5, QuietFacts
       DEF Ask, CleanupStep, CleanupBegin, CleanupRemoved, CleanupFails, CleanupClosed, CloseBegin,
           CloseStep, CloseTell, CloseSettle, CloseClear, RemovePendingDir
  <2> QED
    BY <1>1, <2>1
<1> QED
  BY <1>2, <1>3, <1>4, <1>5, NextCases DEF OtherStep

\* Every step keeps the memory of approved capabilities to what was pressed.
LEMMA NextMemoryFits ==
    ASSUME Inv, [Next]_vars
    PROVE  MemoryFits'
<1>0. Steady /\ MemoryFits /\ SetTypes /\ JobTypes
  BY InvParts, NextSteady
<1>1. \A k \in approvedKeys : Allowed(k)'
  BY <1>0, SteadyAllowed DEF MemoryFits, SetTypes
<1>2. CASE UNCHANGED approvedKeys
  BY <1>1, <1>2 DEF MemoryFits
<1>3. ASSUME NEW p \in Presses, NEW r \in Requests, NEW o \in {"approve", "deny"},
             NEW s \in {"once", "capability"}, Press(p, r, o, s)
      PROVE  MemoryFits'
  <2>1. PICK g \in Requests : PressAll(p, r, g) \/ PressOne(p, r, g, o)
    BY <1>3, PressFacts
  <2>2. CASE PressAll(p, r, g)
    <3>1. /\ approvedKeys' = approvedKeys \cup {cmd[r].key}
          /\ job'[p].outcome = "approve" /\ job'[p].scope = "capability" /\ job'[p].target = r
      BY <2>2 DEF PressAll, Begun
    <3>2. pc'[r] # "idle" /\ cmd' = cmd
      BY <1>3, PressFacts DEF Early
    <3>3. PICK k : k = cmd[r].key
      OBVIOUS
    <3>4. Allowed(k)'
      BY <3>1, <3>2, <3>3 DEF Allowed, Approved
    <3> QED
      BY <1>1, <3>1, <3>3, <3>4 DEF MemoryFits
  <2>3. CASE PressOne(p, r, g, o)
    BY <1>2, <2>3 DEF PressOne
  <2> QED
    BY <2>1, <2>2, <2>3
<1>4. CASE \/ \E r \in Requests : \/ Quiet(r) \/ CleanupStep(r) \/ Timeout(r)
                                  \/ \E v \in Verdicts : Ask(r, v)
           \/ \E t \in Presses \cup Requests : Resolves(t)
           \/ CloseBegin \/ CloseStep \/ UNCHANGED vars
  <2>1. UNCHANGED approvedKeys
    BY <1>4, QuietFacts, TimeoutFacts
       DEF Ask, CleanupStep, CleanupBegin, CleanupRemoved, CleanupFails, CleanupClosed, Resolves, Aside, CloseBegin,
           CloseStep, CloseTell, CloseSettle, CloseClear, RemovePendingDir
  <2> QED
    BY <1>2, <2>1
<1> QED
  BY <1>3, <1>4, NextCases DEF OtherStep

\* What the integrity check lets run at once: the file is unchanged, and a rule or an
\* earlier press allows it.
LEMMA AdmittedAtOnce ==
    ASSUME Inv, Steady, NEW r \in Requests, NEW v \in Verdicts, Check(r, v), Outcome(r, v) = "admitting"
    PROVE  AtOnce(r)'
<1>0. /\ HandlerTypes /\ HandlersFit /\ MemoryFits /\ SetTypes /\ pc[r] = "checking"
      /\ verdict' = [verdict EXCEPT ![r] = v] /\ UNCHANGED cmd
  BY InvParts DEF Check
<1>1. verdict'[r] = v /\ v = "pass"
  BY <1>0 DEF Outcome, HandlerTypes
<1>2. cmd[r].approval = "allow" \/ cmd[r].key \in approvedKeys
  BY <1>0 DEF Outcome, HandlersFit
<1>3. cmd[r].key \in approvedKeys => Allowed(cmd[r].key)'
  <2>1. SUFFICES ASSUME NEW k \in approvedKeys PROVE Allowed(k)'
    BY <1>0, <2>1
  <2> QED
    BY <1>0, SteadyAllowed DEF MemoryFits, SetTypes
<1> QED
  BY <1>0, <1>1, <1>2, <1>3 DEF AtOnce

\* Every step keeps what runs justified.
LEMMA NextRunsFit ==
    ASSUME Inv, [Next]_vars
    PROVE  RunsFit'
<1>0. /\ Steady /\ RunsFit /\ HandlerTypes /\ SetTypes /\ HandlersFit /\ JobsFit /\ JobTypes
  BY InvParts, NextSteady
<1>1. ASSUME NEW r \in Requests, pc[r] = "admitting" PROVE AtOnce(r)'
  BY <1>0, <1>1, SteadyAllowed DEF RunsFit, Early
<1>2. ASSUME NEW r \in started PROVE AtOnce(r)' \/ Covered(r)'
  <2>1. r \in Requests /\ pc[r] \notin Early /\ (AtOnce(r) \/ Covered(r))
    BY <1>0, <1>2 DEF RunsFit, SetTypes, HandlersFit
  <2> QED
    BY <1>0, <2>1, SteadyAllowed
<1>3. ASSUME NEW r \in Requests, Quiet(r) PROVE RunsFit'
  <2>1. ASSUME NEW q \in Requests, pc'[q] = "admitting" PROVE AtOnce(q)'
    <3>1. CASE q # r
      BY <1>1, <1>3, <2>1, <3>1, QuietFacts
    <3>2. CASE q = r
      BY <1>0, <1>1, <1>3, <2>1, <3>2, QuietFacts, AdmittedAtOnce
    <3> QED
      BY <3>1, <3>2
  <2>2. started' \subseteq Requests
    BY NextTypes, TypePartsNext DEF SetTypes
  <2>3. ASSUME NEW q \in started' PROVE AtOnce(q)' \/ Covered(q)'
    BY <1>1, <1>2, <1>3, <2>2, <2>3, QuietFacts
  <2> QED
    BY <2>1, <2>3 DEF RunsFit
<1>4. ASSUME NEW r \in Requests, NEW v \in Verdicts, Ask(r, v) PROVE RunsFit'
  <2>1. pc' = [pc EXCEPT ![r] = "writing"] /\ UNCHANGED started
    BY <1>4 DEF Ask
  <2>2. \A q \in Requests : pc'[q] = "admitting" => pc[q] = "admitting"
    BY <1>0, <2>1 DEF HandlerTypes
  <2> QED
    BY <1>1, <1>2, <2>1, <2>2 DEF RunsFit
<1>5. ASSUME NEW t \in Presses \cup Requests, Resolves(t) PROVE RunsFit'
  <2>1. UNCHANGED pc
    BY <1>5 DEF Resolves, Aside
  <2>2. ASSUME NEW q \in started', q \notin started PROVE Covered(q)'
    <3>1. q = job[t].cur /\ job[t].outcome = "approve" /\ job[t].pc # "closing" /\ Running(t) /\ SamePress(t)
      BY <1>5, <2>2 DEF Resolves, Moves, Takes, Stops
    <3>2. t \in Presses /\ q \in job[t].covers
      BY <1>0, <3>1 DEF JobsFit, JobFits
    <3> QED
      BY <3>1, <3>2 DEF Covered, Approved, SamePress
  <2> QED
    BY <1>1, <1>2, <2>1, <2>2 DEF RunsFit
<1>6. CASE OtherStep /\ started' = started
  <2>1. UNCHANGED pc
    BY <1>6, ElsewhereFacts DEF OtherStep, Elsewhere
  <2> QED
    BY <1>1, <1>2, <1>6, <2>1 DEF RunsFit
<1>7. OtherStep => started' = started \/ \E t \in Presses \cup Requests : Resolves(t)
  BY PressFacts, TimeoutFacts
     DEF OtherStep, CleanupStep, CleanupBegin, CleanupRemoved, CleanupFails, CleanupClosed, CloseBegin,
         CloseStep, CloseTell, CloseSettle, CloseClear, RemovePendingDir
<1> QED
  BY <1>3, <1>4, <1>5, <1>6, <1>7, NextCases

-----------------------------------------------------------------------------
(* The theorems. *)

\* The broker starts in such a state.
LEMMA InitInv == Init => Inv
<1> SUFFICES ASSUME Init PROVE Inv
  OBVIOUS
<1>1. Idle \in Jobs
  BY DEF Idle, Jobs
<1>2. HandlerTypes /\ LifeTypes /\ SetTypes /\ GroupTypes
  BY DEF Init, HandlerTypes, LifeTypes, SetTypes, GroupTypes
<1>3. JobTypes
  BY <1>1 DEF Init, JobTypes
<1>4. TypeOK
  BY <1>2, <1>3, TypeParts
<1>5. HandlersFit
  BY DEF Init, HandlersFit
<1>6. GroupsFit
  BY DEF Init, GroupsFit
<1>7. JobsFit
  <2>1. SUFFICES ASSUME NEW t \in Presses \cup Requests PROVE JobFits(t)
    BY DEF JobsFit
  <2>2. job[t].pc = "idle" /\ job[t].outcome = "none" /\ job[t].covers = {}
    BY DEF Init, Idle
  <2> QED
    BY <2>2 DEF JobFits, Running
<1>8. MemoryFits
  BY DEF Init, MemoryFits
<1>9. RunsFit
  BY DEF Init, RunsFit
<1> QED
  BY <1>4, <1>5, <1>6, <1>7, <1>8, <1>9 DEF Inv

\* The parts of the invariant that the theorems below rest on hold always: a resolver
\* answers only requests that its press or timer covers, a remembered capability was
\* approved on a card for it, and a group is in the map under its own key.
THEOREM InvariantHolds == Spec => []Inv
<1>1. Inv /\ [Next]_vars => Inv'
  BY NextTypes, NextHandlersFit, NextGroupsFit, NextJobsFit, NextMemoryFits, NextRunsFit DEF Inv
<1> QED
  BY <1>1, InitInv, PTL DEF Spec

\* Every variable of the broker keeps its type.
THEOREM TypeCorrect == Spec => []TypeOK
<1>1. Inv => TypeOK
  BY DEF Inv
<1> QED
  BY <1>1, InvariantHolds, PTL

\* Nothing runs on the host unless a rule or an approved capability allows it and the
\* file is unchanged, or a person approved a card while the request waited on it.
THEOREM RunJustified == Spec => []RunIsJustified
<1>1. Inv => RunIsJustified
  BY InvParts DEF RunsFit, AtOnce, Covered, Allowed, RunIsJustified
<1> QED
  BY <1>1, InvariantHolds, PTL

\* A request whose peer is gone before its command was started is never started: both
\* the immediate run and the resolver look at the lifecycle again after the audit insert.
THEOREM CancelledNotStarted == Spec => CancelledIsNotStarted
<1> DEFINE A == \A r \in Requests : Cancelled(r) /\ r \notin started => r \notin started'
<1>1. Inv /\ [Next]_vars => [A]_vars
  <2> SUFFICES ASSUME Inv, [Next]_vars PROVE A
    OBVIOUS
  <2>1. ASSUME NEW r \in Requests, Quiet(r) PROVE A
    <3>1. \/ started' = started
          \/ started' = started \cup {r} /\ ~Cancelled(r)
      BY <2>1 DEF Quiet, Receive, Resolve, Audited, EntryVisible, Resume, Leave, LeaveFails, WakeUp, Check,
                  AskWithdrawn, RunEnds, PeerLeaves
    <3> QED
      BY <3>1
  <2>2. ASSUME NEW t \in Presses \cup Requests, Resolves(t) PROVE A
    BY <2>2 DEF Resolves
  <2>3. CASE started' = started
    BY <2>3
  <2>4. ASSUME NEW r \in Requests, NEW v \in Verdicts, Ask(r, v) PROVE started' = started
    BY <2>4 DEF Ask
  <2>5. OtherStep => started' = started \/ \E t \in Presses \cup Requests : Resolves(t)
    BY PressFacts, TimeoutFacts
       DEF OtherStep, CleanupStep, CleanupBegin, CleanupRemoved, CleanupFails, CleanupClosed, CloseBegin,
           CloseStep, CloseTell, CloseSettle, CloseClear, RemovePendingDir
  <2> QED
    BY <2>1, <2>2, <2>3, <2>4, <2>5, NextCases
<1> QED
  BY <1>1, InvariantHolds, PTL DEF Spec, CancelledIsNotStarted

-----------------------------------------------------------------------------
(* The timer of a group. *)

\* The groups in the map have their timers running.
Guarded == \A k \in Keys : groups[k] # None => timer[groups[k]] = "armed"

\* A step that neither creates a group nor stops the timer of one that stays in the map.
LEMMA GuardedKept ==
    ASSUME Guarded, GroupTypes,
           \A k \in Keys : groups'[k] # None =>
             groups'[k] = groups[k] /\ timer'[groups[k]] = timer[groups[k]]
    PROVE  Guarded'
  BY DEF Guarded, GroupTypes

\* A timer that is stopped belongs to one group, and that group leaves the map.
LEMMA OneTimerStops ==
    ASSUME Inv, Guarded, NEW g \in Requests, NEW how, keyOf[g] \in Keys,
           timer' = [timer EXCEPT ![g] = how],
           \/ groups' = [groups EXCEPT ![keyOf[g]] = None]
           \/ groups' = groups /\ groups[keyOf[g]] # g
    PROVE  Guarded'
<1>0. GroupTypes /\ GroupsFit /\ None \notin Requests
  BY InvParts
<1>1. ASSUME NEW k \in Keys, groups'[k] # None
      PROVE  groups'[k] = groups[k] /\ timer'[groups[k]] = timer[groups[k]]
  <2>1. groups'[k] = groups[k]
    BY <1>0, <1>1 DEF GroupTypes
  <2>2. groups[k] # g
    BY <1>0, <1>1, <2>1 DEF GroupTypes, GroupsFit
  <2>3. groups[k] \in Requests
    BY <1>0, <1>1, <2>1 DEF GroupTypes
  <2> QED
    BY <1>0, <2>1, <2>2, <2>3 DEF GroupTypes
<1> QED
  BY <1>0, <1>1, GuardedKept

\* Before close() begins, every step keeps the timers of the groups in the map running.
LEMMA NextGuarded ==
    ASSUME Inv, Guarded, [Next]_vars, closing' = "open"
    PROVE  Guarded'
<1>0. GroupTypes /\ LifeTypes /\ GroupsFit /\ JobsFit /\ None \notin Requests /\ None \notin Keys
  BY InvParts
<1>1. CASE UNCHANGED <<groups, timer>>
  BY <1>1 DEF Guarded
<1>2. ASSUME NEW r \in Requests, NEW v \in Verdicts, Ask(r, v) PROVE Guarded'
  <2>1. PICK g \in Requests, k \in Keys : Joins(r, v, g, k)
    BY <1>2, AskFacts
  <2>2. groups' = [groups EXCEPT ![k] = g] /\ timer'[g] = "armed"
    BY <1>0, <2>1 DEF Joins, Guarded, GroupTypes
  <2>3. ASSUME NEW h \in Keys, h # k, groups[h] # None PROVE timer'[groups[h]] = "armed"
    BY <1>0, <2>1, <2>3 DEF Joins, Guarded, GroupTypes
  <2> QED
    BY <1>0, <2>2, <2>3 DEF Guarded, GroupTypes
<1>3. ASSUME NEW r \in Requests, CleanupRemoved(r) PROVE Guarded'
  <2>1. PICK g \in Requests \cup {None} : g = cleaning[r]
    BY <1>0 DEF LifeTypes
  <2>2. CASE ~(g # None /\ members[g] = {})
    BY <1>1, <1>3, <2>1, <2>2 DEF CleanupRemoved
  <2>3. CASE g # None /\ members[g] = {}
    <3>1. g \in Requests /\ keyOf[g] \in Keys
      BY <1>0, <2>1, <2>3 DEF GroupsFit, GroupTypes
    <3>2. /\ timer' = [timer EXCEPT ![g] = "cleared"]
          /\ groups' = IF groups[keyOf[g]] = g THEN [groups EXCEPT ![keyOf[g]] = None] ELSE groups
      BY <1>3, <2>1, <2>3 DEF CleanupRemoved
    <3> QED
      BY <3>1, <3>2, OneTimerStops
  <2> QED
    BY <2>2, <2>3
<1>4. ASSUME NEW g \in Requests, Timeout(g) PROVE Guarded'
  <2>1. keyOf[g] \in Keys
    BY <1>4, TimeoutFacts
  <2>2. CASE groups[keyOf[g]] = None /\ timer' = [timer EXCEPT ![g] = "fired"] /\ UNCHANGED groups
    BY <1>0, <2>1, <2>2, OneTimerStops
  <2>3. ASSUME NEW now \in Requests, TimeoutAll(g, now) PROVE Guarded'
    <3>1. /\ timer' = [timer EXCEPT ![now] = "cleared", ![g] = "fired"]
          /\ groups' = [groups EXCEPT ![keyOf[g]] = None] /\ keyOf[now] = keyOf[g]
      BY <2>3 DEF TimeoutAll
    <3>2. ASSUME NEW k \in Keys, groups'[k] # None
          PROVE  groups'[k] = groups[k] /\ timer'[groups[k]] = timer[groups[k]]
      <4>1. groups'[k] = groups[k] /\ k # keyOf[g] /\ groups[k] \in Requests
        BY <1>0, <3>1, <3>2 DEF GroupTypes
      <4>2. groups[k] # g /\ groups[k] # now
        BY <1>0, <3>1, <3>2, <4>1 DEF GroupsFit
      <4> QED
        BY <1>0, <3>1, <4>1, <4>2 DEF GroupTypes
    <3> QED
      BY <1>0, <3>2, GuardedKept
  <2> QED
    BY <1>4, <2>2, <2>3, TimeoutFacts
<1>5. ASSUME NEW p \in Presses, NEW r \in Requests, NEW o \in {"approve", "deny"},
             NEW s \in {"once", "capability"}, Press(p, r, o, s)
      PROVE  Guarded'
  <2>1. PICK g \in Requests : /\ keyOf[g] = cmd[r].key /\ cmd[r].key \in Keys
                              /\ PressAll(p, r, g) \/ PressOne(p, r, g, o)
    BY <1>5, PressFacts
  <2>2. CASE PressAll(p, r, g)
    BY <2>1, <2>2, OneTimerStops DEF PressAll
  <2>3. CASE PressOne(p, r, g, o)
    BY <1>1, <2>3 DEF PressOne
  <2> QED
    BY <2>1, <2>2, <2>3
<1>6. ASSUME NEW t \in Presses \cup Requests, Resolves(t) PROVE Guarded'
  <2>1. PICK g \in Requests : g = job[t].group /\ keyOf[g] \in Keys
    BY <1>0, <1>6 DEF Resolves, JobsFit, JobFits, GroupTypes
  <2>2. UNCHANGED <<groups, timer>> \/ Drops(g)
    BY <1>6, <2>1 DEF Resolves
  <2>3. CASE Drops(g)
    BY <2>1, <2>3, OneTimerStops DEF Drops
  <2> QED
    BY <1>1, <2>2, <2>3
<1>7. ASSUME \/ \E r \in Requests : Quiet(r) \/ CleanupBegin(r) \/ CleanupFails(r) \/ CleanupClosed(r)
             \/ UNCHANGED vars
      PROVE  UNCHANGED <<groups, timer>>
  BY <1>7, QuietFacts DEF CleanupBegin, CleanupFails, CleanupClosed
<1>8. ~(CloseBegin \/ CloseStep)
  BY DEF CloseBegin, CloseStep, CloseTell, CloseSettle, CloseClear, RemovePendingDir
<1> QED
  BY <1>1, <1>2, <1>3, <1>4, <1>5, <1>6, <1>7, <1>8, NextCases DEF OtherStep, CleanupStep

\* Nothing re-opens a broker that close() has begun with.
LEMMA ClosingLasts ==
    ASSUME Inv, [Next]_vars, closing' = "open"
    PROVE  closing = "open"
<1>1. ASSUME NEW r \in Requests, Quiet(r) \/ CleanupStep(r) \/ \E v \in Verdicts : Ask(r, v)
      PROVE  UNCHANGED closing
  BY <1>1 DEF Quiet, Receive, Resolve, Audited, EntryVisible, Resume, Leave, LeaveFails, WakeUp, Check, AskWithdrawn,
              RunEnds, PeerLeaves, Ask, CleanupStep, CleanupBegin, CleanupRemoved, CleanupFails, CleanupClosed
<1>2. CASE OtherStep
  BY <1>1, <1>2, PressFacts, TimeoutFacts
     DEF OtherStep, Resolves, Aside, CloseBegin, CloseStep, CloseTell, CloseSettle, CloseClear,
         RemovePendingDir
<1> QED
  BY <1>1, <1>2, NextCases

\* Until close() begins, a group that can be joined or pressed has its timer running,
\* whatever requests leave it and join it while an entry is being removed: who stops a
\* timer also takes its group out of the map, in the same step.
THEOREM TimerGuards == Spec => []TimerGuardsGroup
<1> DEFINE G == closing = "open" => Guarded
<1>1. Init => G
  BY DEF Init, Guarded
<1>2. Inv /\ G /\ [Next]_vars => G'
  BY NextGuarded, ClosingLasts
<1>3. Inv /\ G => TimerGuardsGroup
  BY InvParts DEF Guarded, GroupsFit, TimerGuardsGroup
<1> HIDE DEF G
<1> QED
  BY <1>1, <1>2, <1>3, InvariantHolds, PTL DEF Spec

-----------------------------------------------------------------------------
(* The cards of cancelled requests. *)

\* Every step keeps the card of a cancelled request on its way out.
LEMMA NextCardsFit ==
    ASSUME Inv, CardsFit, [Next]_vars
    PROVE  CardsFit'
<1>0. HandlerTypes /\ LifeTypes /\ SetTypes
  BY InvParts
<1>1. ASSUME \A r \in Requests : /\ Cancelled(r)' <=> Cancelled(r)
                                 /\ cleanup'[r] = cleanup[r] /\ pc'[r] = pc[r],
             files' \subseteq files
      PROVE  CardsFit'
  BY <1>1 DEF CardsFit
<1>2. ASSUME NEW r \in Requests, Quiet(r) PROVE CardsFit'
  <2>1. ASSUME NEW q \in Requests, q # r
        PROVE  /\ Cancelled(q)' <=> Cancelled(q)
               /\ cleanup'[q] = cleanup[q] /\ pc'[q] = pc[q] /\ (q \in files' <=> q \in files)
    <3>1. pc'[q] = pc[q]
      BY <1>2, <2>1, QuietFacts
    <3>2. life'[q] = life[q]
      BY <1>0, <1>2, <2>1 DEF Quiet, Receive, Resolve, Audited, EntryVisible, Resume, Leave, LeaveFails, WakeUp,
            Check, AskWithdrawn, RunEnds, PeerLeaves, Cancel, LifeTypes
    <3>3. cleanup'[q] = cleanup[q] /\ (q \in files' <=> q \in files)
      BY <1>0, <1>2, <2>1 DEF Quiet, Receive, Resolve, Audited, EntryVisible, Resume, Leave, LeaveFails, WakeUp,
            Check, AskWithdrawn, RunEnds, PeerLeaves, Cancel, LifeTypes
    <3> QED
      BY <3>1, <3>2, <3>3 DEF Cancelled
  <2>2. Cancelled(r)' <=> cleanup'[r] # "none"
    BY <1>0, <1>2 DEF Quiet, Receive, Resolve, Audited, EntryVisible, Resume, Leave, LeaveFails, WakeUp,
          Check, AskWithdrawn, RunEnds, PeerLeaves, Cancel, LifeTypes, Cancelled, CardsFit
  <2>3. cleanup'[r] \in {"closing", "closing waiter", "done"} /\ r \in files'
           => pc'[r] \in {"writing", "written", "leaving"}
    <3>1. CASE \/ \E c \in Commands : Receive(r, c)
               \/ Resolve(r) \/ Audited(r) \/ RunEnds(r) \/ WakeUp(r)
               \/ \E v \in Verdicts : Check(r, v)
      BY <1>0, <3>1 DEF Receive, Resolve, Audited, RunEnds, WakeUp, Check, CardsFit
    <3>2. CASE (\E v \in Verdicts : AskWithdrawn(r, v)) \/ PeerLeaves(r)
      BY <1>0, <3>2 DEF AskWithdrawn, PeerLeaves, Cancel, CardsFit, LifeTypes
    <3>3. CASE EntryVisible(r) \/ Leave(r) \/ LeaveFails(r)
      BY <1>0, <3>3 DEF EntryVisible, Leave, LeaveFails, HandlerTypes, LifeTypes
    <3>4. CASE Resume(r)
      BY <1>0, <3>4 DEF Resume, HandlerTypes, CardsFit
    <3> QED
      BY <1>2, <3>1, <3>2, <3>3, <3>4 DEF Quiet
  <2> QED
    BY <2>1, <2>2, <2>3 DEF CardsFit
<1>3. ASSUME NEW r \in Requests, NEW v \in Verdicts, Ask(r, v) PROVE CardsFit'
  BY <1>0, <1>3 DEF Ask, CardsFit, Cancelled, HandlerTypes, LifeTypes
<1>4. ASSUME NEW r \in Requests, CleanupStep(r) PROVE CardsFit'
  <2>1. /\ UNCHANGED <<pc, life>> /\ files' \subseteq files
        /\ \A q \in Requests \ {r} : cleanup'[q] = cleanup[q]
        /\ cleanup[r] # "none" /\ cleanup'[r] # "none"
    BY <1>0, <1>4 DEF CleanupStep, CleanupBegin, CleanupRemoved, CleanupFails, CleanupClosed, LifeTypes
  <2>2. cleanup'[r] \in {"closing", "closing waiter", "done"} /\ r \in files'
           => cleanup[r] \in {"closing", "closing waiter", "done"}
    BY <1>0, <1>4 DEF CleanupStep, CleanupBegin, CleanupRemoved, CleanupFails, CleanupClosed, LifeTypes
  <2> QED
    BY <1>0, <2>1, <2>2 DEF CardsFit, Cancelled
<1>5. ASSUME NEW t \in Presses \cup Requests, Resolves(t) PROVE CardsFit'
  BY <1>1, <1>5 DEF Resolves, Aside
<1>6. CASE \/ \E r \in Requests : Timeout(r)
           \/ \E p \in Presses, r \in Requests, o \in {"approve", "deny"}, s \in {"once", "capability"} :
                 Press(p, r, o, s)
           \/ CloseBegin \/ CloseStep \/ UNCHANGED vars
  <2>1. UNCHANGED <<pc, life, cleanup>> /\ files' \subseteq files
    BY <1>6, PressFacts, TimeoutFacts
       DEF CloseBegin, CloseStep, CloseTell, CloseSettle, CloseClear, RemovePendingDir
  <2> QED
    BY <1>1, <2>1 DEF Cancelled
<1> QED
  BY <1>2, <1>3, <1>4, <1>5, <1>6, NextCases DEF OtherStep

\* A peer that disappears leaves no card behind once its handler and the cleanup are
\* over and the last removal tried for it did not throw: only its own handler can put the
\* entry back, and that one looks again after the write and waits for the cleanup before it
\* removes the entry once more.
THEOREM CancelledCardless == Spec => []CancelledLeavesNoCard
<1>1. Init => CardsFit
  BY DEF Init, CardsFit, Cancelled
<1>2. Inv /\ CardsFit /\ [Next]_vars => CardsFit'
  BY NextCardsFit
<1>3. CardsFit => CancelledLeavesNoCard
  BY DEF CardsFit, CancelledLeavesNoCard
<1> QED
  BY <1>1, <1>2, <1>3, InvariantHolds, PTL DEF Spec
=============================================================================
