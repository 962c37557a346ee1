----------------------- MODULE NetworkBrokerGroupProofs -----------------------
(***************************************************************************)
(* Theorems about the broker's cards: who guards a group, who can still    *)
(* press its members, and what a denial can be traced back to.             *)
(***************************************************************************)
EXTENDS NetworkBrokerProofs

USE DEF vars, handlers, grouping, remembered, disk

Live(g) == \E k \in Keys : groups[k] = g

\* A request sits in one group at most, the one its handler joined.
MembersFit ==
    \A g \in Requests : \A r \in members[g] : joined[r] = g /\ pc[r] \notin {"idle", "received"}

\* Until close() clears the index, it leads from a member to its group's key.
IndexLeads ==
    closing \in {"open", "closing"} =>
      \A k \in Keys, g \in Requests : groups[k] = g => \A r \in members[g] : index[r] = k

\* A resolver that loops over a group has taken it off the map, for good.
LoopsFit ==
    \A t \in Presses \cup Requests : Running(t) /\ job[t].scope # "once" => ~Live(job[t].group)

GroupInv == TimerGuardsGroup /\ MembersFit /\ IndexLeads /\ LoopsFit

-----------------------------------------------------------------------------
(* Denials. *)

\* Only a group that asks something is put up.
KeysAsk ==
    \A g \in Requests, k \in Keys : keyOf[g] = k /\ k.kind = "violation" => k.ids # {}

\* A timer that has fired belongs to a group that is off the map for good.
TimersFit ==
    /\ \A g \in Requests : timer[g] # "unset" => keyOf[g] # None
    /\ \A k \in Keys, g \in Requests : groups[k] = g => timer[g] # "fired"
    /\ \A g \in Requests : job[g].pc # "idle" =>
         /\ timer[g] = "fired"
         /\ Running(g) => keyOf[job[g].group] = keyOf[g]

\* A resolver carries out an approval or a denial.
OutcomesFit ==
    \A t \in Presses \cup Requests : job[t].pc # "idle" => job[t].outcome \in {"allow", "deny"}

\* Card k was denied by a press without scope, or timed out.
Refused(k) ==
    \/ \E p \in Presses, r \in Requests :
         Pressed(p, "deny") /\ job[p].scope = "none" /\ job[p].target = r /\ Fits(k, r)
    \/ \E g \in Requests : timer[g] = "fired" /\ Fits(k, g)

DeniedAuthorize(a) ==
    \E p \in Presses : /\ Pressed(p, "deny") /\ Card(p).kind = "authorize"
                       /\ a = ApprovalKey(Card(p), job[p].scope)

DeniedViolation(id) ==
    \E p \in Presses : /\ Pressed(p, "deny") /\ Card(p).kind = "violation"
                       /\ id \in Identities(Card(p))

\* Every remembered denial was pressed on a card that fits it, or timed out there.
DenialsFit ==
    /\ \A a \in denied : DeniedAuthorize(a)
    /\ \A id \in deniedV : DeniedViolation(id)
    /\ \A k \in negCache : Refused(k)

DenyInv == KeysAsk /\ OutcomesFit /\ TimersFit /\ DenialsFit /\ DenyIsJustified
-----------------------------------------------------------------------------
(* Groups. *)

\* What a press or a timer takes off the map: the group the card or the timer leads to.
LEMMA Resolved ==
    ASSUME Inv,
           \/ \E p \in Presses, r \in Requests, o \in {"allow", "deny"}, s \in Scopes :
                 Press(p, r, o, s)
           \/ \E g \in Requests : Timeout(g)
    PROVE  /\ UNCHANGED <<handlers, keyOf, closing>>
           /\ \/ \E g \in Requests, k \in Keys, t \in Presses \cup Requests :
                   /\ groups[k] = g /\ keyOf[g] = k
                   /\ groups' = [groups EXCEPT ![k] = None]
                   /\ UNCHANGED <<members, index>>
                   /\ job' = [job EXCEPT ![t] = job'[t]] /\ job'[t].group = g
                   /\ job'[t].scope # "once"
                   /\ \/ timer' = [timer EXCEPT ![g] = "cleared"]
                      \/ t \in Requests /\ timer[t] = "armed" /\ keyOf[t] = k
                         /\ timer' = [timer EXCEPT ![g] = "cleared", ![t] = "fired"]
              \/ \E g \in Requests, k \in Keys, p \in Presses :
                   \E r \in members[g] :
                   /\ groups[k] = g /\ keyOf[g] = k
                   /\ groups' = IF members[g] = {r} THEN [groups EXCEPT ![k] = None] ELSE groups
                   /\ timer' = IF members[g] = {r} THEN [timer EXCEPT ![g] = "cleared"] ELSE timer
                   /\ members' = [members EXCEPT ![g] = @ \ {r}]
                   /\ index' = [index EXCEPT ![r] = None]
                   /\ job' = [job EXCEPT ![p] = job'[p]] /\ job'[p].scope = "once"
              \/ \E g \in Requests :
                   /\ timer[g] = "armed" /\ keyOf[g] \in Keys /\ groups[keyOf[g]] = None
                   /\ timer' = [timer EXCEPT ![g] = "fired"]
                   /\ UNCHANGED <<groups, members, index, job>>
<1>0. /\ TypeOK /\ GroupsFit /\ None \notin Keys /\ None \notin Requests
      /\ job \in [Presses \cup Requests -> Jobs]
  BY KeysAssumption, BrokerAssumption DEF Inv, TypeOK
<1>1. UNCHANGED <<handlers, keyOf, closing>>
  <2>1. ASSUME NEW p \in Presses, NEW r \in Requests, NEW o, NEW s, Press(p, r, o, s)
        PROVE  UNCHANGED <<handlers, keyOf, closing>>
    BY <2>1 DEF Press, ResolveGroup, ResolveRequest
  <2>2. ASSUME NEW g \in Requests, Timeout(g)
        PROVE  UNCHANGED <<handlers, keyOf, closing>>
    BY <2>2 DEF Timeout, ResolveGroup
  <2> QED
    BY <2>1, <2>2
<1>2. ASSUME NEW p \in Presses, NEW r \in Requests, NEW o \in {"allow", "deny"},
             NEW s \in Scopes, Press(p, r, o, s)
      PROVE  \/ \E g \in Requests, k \in Keys, t \in Presses \cup Requests :
                   /\ groups[k] = g /\ keyOf[g] = k
                   /\ groups' = [groups EXCEPT ![k] = None]
                   /\ UNCHANGED <<members, index>>
                   /\ job' = [job EXCEPT ![t] = job'[t]] /\ job'[t].group = g
                   /\ job'[t].scope # "once"
                   /\ timer' = [timer EXCEPT ![g] = "cleared"]
             \/ \E g \in Requests, k \in Keys, q \in Presses :
                   \E x \in members[g] :
                   /\ groups[k] = g /\ keyOf[g] = k
                   /\ groups' = IF members[g] = {x} THEN [groups EXCEPT ![k] = None] ELSE groups
                   /\ timer' = IF members[g] = {x} THEN [timer EXCEPT ![g] = "cleared"] ELSE timer
                   /\ members' = [members EXCEPT ![g] = @ \ {x}]
                   /\ index' = [index EXCEPT ![x] = None]
                   /\ job' = [job EXCEPT ![q] = job'[q]] /\ job'[q].scope = "once"
  <2> DEFINE g == FindGroupByRequestId(r)
             sel == IF o = "allow" /\ s = "none" THEN "once" ELSE s
  <2>1. g # None
    BY <1>2 DEF Press
  <2>2. g \in Requests /\ keyOf[g] \in Keys /\ groups[keyOf[g]] = g
    BY <1>0, <2>1 DEF FindGroupByRequestId, TypeOK, GroupsFit
  <2>3. \/ sel = "once" /\ ResolveRequest(p, g, o, r)
        \/ sel # "once" /\ ResolveGroup(p, g, o, sel, r) /\ timer' = [timer EXCEPT ![g] = "cleared"]
    BY <1>2 DEF Press
  <2> HIDE DEF g, sel
  <2>4. CASE sel = "once" /\ ResolveRequest(p, g, o, r)
    <3>1. job' = [job EXCEPT ![p] = job'[p]] /\ job'[p].scope = "once"
      BY <1>0, <2>4 DEF ResolveRequest, Idle
    <3>2. PICK k \in Keys : groups[k] = g /\ keyOf[g] = k
      BY <2>2
    <3>3. /\ r \in members[g]
          /\ groups' = IF members[g] = {r} THEN [groups EXCEPT ![k] = None] ELSE groups
          /\ timer' = IF members[g] = {r} THEN [timer EXCEPT ![g] = "cleared"] ELSE timer
          /\ members' = [members EXCEPT ![g] = @ \ {r}]
          /\ index' = [index EXCEPT ![r] = None]
      BY <2>4, <3>2 DEF ResolveRequest
    <3> QED
      BY <2>2, <3>1, <3>2, <3>3
  <2>5. CASE sel # "once" /\ ResolveGroup(p, g, o, sel, r) /\ timer' = [timer EXCEPT ![g] = "cleared"]
    <3>1. job' = [job EXCEPT ![p] = job'[p]] /\ job'[p].scope # "once" /\ job'[p].group = g
      BY <1>0, <2>5 DEF ResolveGroup, Idle
    <3> QED
      BY <2>2, <2>5, <3>1 DEF ResolveGroup
  <2> QED
    BY <2>3, <2>4, <2>5
<1>3. ASSUME NEW t \in Requests, Timeout(t)
      PROVE  \/ \E g \in Requests, k \in Keys :
                   /\ groups[k] = g /\ keyOf[g] = k
                   /\ groups' = [groups EXCEPT ![k] = None]
                   /\ UNCHANGED <<members, index>>
                   /\ job' = [job EXCEPT ![t] = job'[t]] /\ job'[t].group = g
                   /\ job'[t].scope # "once"
                   /\ timer[t] = "armed" /\ keyOf[t] = k
                   /\ timer' = [timer EXCEPT ![g] = "cleared", ![t] = "fired"]
             \/ /\ timer[t] = "armed" /\ keyOf[t] \in Keys /\ groups[keyOf[t]] = None
                /\ timer' = [timer EXCEPT ![t] = "fired"]
                /\ UNCHANGED <<groups, members, index, job>>
  <2>1. timer[t] = "armed" /\ keyOf[t] \in Keys
    BY <1>0, <1>3 DEF Timeout, GroupsFit, TypeOK
  <2>2. CASE groups[keyOf[t]] = None
    BY <1>3, <2>1, <2>2 DEF Timeout
  <2>3. CASE groups[keyOf[t]] # None
    <3>1. PICK g \in Requests, k \in Keys : keyOf[t] = k /\ groups[k] = g /\ keyOf[g] = k
      BY <1>0, <2>1, <2>3 DEF GroupsFit, TypeOK
    <3>2. /\ ResolveGroup(t, g, "deny", "none", None)
          /\ timer' = [timer EXCEPT ![g] = "cleared", ![t] = "fired"]
      BY <1>3, <2>3, <3>1 DEF Timeout
    <3>3. job' = [job EXCEPT ![t] = job'[t]] /\ job'[t].scope # "once" /\ job'[t].group = g
      BY <1>0, <3>2 DEF ResolveGroup, Idle
    <3> QED
      BY <2>1, <3>1, <3>2, <3>3 DEF ResolveGroup
  <2> QED
    BY <2>2, <2>3
<1> QED
  BY <1>1, <1>2, <1>3

\* Every step keeps the timers with the groups that can be pressed.
LEMMA NextTimerGuards == Inv /\ TimerGuardsGroup /\ [Next]_vars => TimerGuardsGroup'
<1> SUFFICES ASSUME Inv, TimerGuardsGroup, [Next]_vars, closing' = "open"
             PROVE  \A g \in Requests :
                      timer'[g] = "armed" <=> (keyOf'[g] # None /\ groups'[keyOf'[g]] = g)
  BY DEF TimerGuardsGroup
<1>0. /\ TypeOK /\ GroupsFit /\ HandlersKnown /\ None \notin Keys /\ None \notin Requests
      /\ closing = "open" => \A g \in Requests :
            timer[g] = "armed" <=> (keyOf[g] # None /\ groups[keyOf[g]] = g)
  BY KeysAssumption, BrokerAssumption DEF Inv, TimerGuardsGroup
<1>1. CASE closing = "open" /\ UNCHANGED <<groups, keyOf, timer>>
  BY <1>0, <1>1
<1>2. ASSUME NEW q \in Requests, CreateGroup(q)
      PROVE  \A g \in Requests :
               timer'[g] = "armed" <=> (keyOf'[g] # None /\ groups'[keyOf'[g]] = g)
  <2>1. PICK k \in Keys : k = GroupKey(msg[q])
    BY <1>0, <1>2, GroupKeyType DEF CreateGroup, HandlersKnown, Known
  <2>2. /\ groups[k] = None /\ groups' = [groups EXCEPT ![k] = q]
        /\ keyOf' = [keyOf EXCEPT ![q] = k] /\ timer' = [timer EXCEPT ![q] = "armed"]
        /\ closing = "open"
    BY <1>2, <2>1 DEF CreateGroup
  <2> QED
    BY <1>0, <2>1, <2>2 DEF TypeOK
<1>3. CASE \/ \E p \in Presses, r \in Requests, o \in {"allow", "deny"}, s \in Scopes :
                 Press(p, r, o, s)
           \/ \E g \in Requests : Timeout(g)
  <2>1. closing = "open" /\ keyOf' = keyOf
    BY <1>3, Resolved
  <2>2. ASSUME NEW g \in Requests, NEW k \in Keys, groups[k] = g, keyOf[g] = k,
               groups' = [groups EXCEPT ![k] = None],
               \/ timer' = [timer EXCEPT ![g] = "cleared"]
               \/ \E t \in Requests : /\ timer[t] = "armed" /\ keyOf[t] = k
                                      /\ timer' = [timer EXCEPT ![g] = "cleared", ![t] = "fired"]
        PROVE  \A h \in Requests :
                 timer'[h] = "armed" <=> (keyOf'[h] # None /\ groups'[keyOf'[h]] = h)
    BY <1>0, <2>1, <2>2 DEF TypeOK
  <2>3. ASSUME NEW g \in Requests, timer[g] = "armed", groups[keyOf[g]] = None
        PROVE  FALSE
    BY <1>0, <2>1, <2>3
  <2> QED
    BY <1>1, <1>3, <2>1, <2>2, <2>3, Resolved
<1>4. ASSUME NEW q \in Requests,
             \/ \E m \in Messages : Receive(q, m)
             \/ Decide(q) \/ Reply(q) \/ JoinGroup(q) \/ EntryVisible(q) \/ Rejoin(q)
             \/ RegisterWaiter(q) \/ Drop(q)
      PROVE  closing' = closing /\ UNCHANGED <<groups, keyOf, timer>>
  BY <1>4 DEF Receive, Decide, Reply, JoinGroup, EntryVisible, Rejoin, RegisterWaiter, Drop
<1>5. ASSUME NEW t \in Presses \cup Requests, JobStep(t) \/ ResolverFails(t)
      PROVE  closing' = closing /\ UNCHANGED <<groups, keyOf, timer>>
  BY <1>5 DEF JobStep, NotificationClosed, EntryRemoved, AuditWritten, ResolverFails
<1>6. CASE UNCHANGED vars \/ Revoke \/ CloseBegin \/ CloseStep \/ \E k \in Keys : Expire(k)
  BY <1>1, <1>6 DEF Revoke, CloseBegin, CloseStep, ClearPolicyState, RemovePendingDir, Expire
<1> QED
  BY <1>1, <1>2, <1>3, <1>4, <1>5, <1>6 DEF Next, HandlerStep

\* Every step keeps each member in the one group its handler joined.
LEMMA NextMembersFit == Inv /\ GroupInv /\ [Next]_vars => MembersFit'
<1> SUFFICES ASSUME Inv, GroupInv, [Next]_vars, NEW g \in Requests, NEW r \in members'[g]
             PROVE  joined'[r] = g /\ pc'[r] \notin {"idle", "received"}
  BY DEF MembersFit
<1>0. /\ TypeOK /\ GroupsFit /\ MembersFit /\ HandlersKnown /\ TypeOK' /\ r \in Requests
  BY NextTypes DEF Inv, GroupInv, TypeOK
<1>1. CASE r \in members[g] /\ joined'[r] = joined[r]
           /\ (pc'[r] \in {"idle", "received"} => pc[r] \in {"idle", "received"})
  BY <1>0, <1>1 DEF MembersFit
<1>2. ASSUME NEW q \in Requests, CreateGroup(q)
      PROVE  joined'[r] = g /\ pc'[r] \notin {"idle", "received"}
  BY <1>0, <1>2 DEF CreateGroup, TypeOK, MembersFit
<1>3. ASSUME NEW q \in Requests, JoinGroup(q)
      PROVE  joined'[r] = g /\ pc'[r] \notin {"idle", "received"}
  BY <1>0, <1>3 DEF JoinGroup, TypeOK, MembersFit
<1>4. ASSUME NEW q \in Requests, Rejoin(q)
      PROVE  joined'[r] = g /\ pc'[r] \notin {"idle", "received"}
  BY <1>0, <1>4 DEF Rejoin, TypeOK, MembersFit
<1>5. ASSUME NEW q \in Requests,
             \/ \E m \in Messages : Receive(q, m)
             \/ Decide(q) \/ Reply(q) \/ EntryVisible(q) \/ RegisterWaiter(q) \/ Drop(q)
      PROVE  joined'[r] = g /\ pc'[r] \notin {"idle", "received"}
  <2>1. UNCHANGED <<members, joined>>
        /\ (pc'[r] \in {"idle", "received"} => pc[r] \in {"idle", "received"})
    BY <1>0, <1>5 DEF Receive, Decide, Reply, EntryVisible, RegisterWaiter, Drop, TypeOK
  <2> QED
    BY <1>1, <2>1
<1>6. CASE \/ \E p \in Presses, x \in Requests, o \in {"allow", "deny"}, s \in Scopes :
                 Press(p, x, o, s)
           \/ \E h \in Requests : Timeout(h)
  <2>1. UNCHANGED <<joined, pc>> /\ r \in members[g]
    BY <1>0, <1>6, Resolved DEF TypeOK
  <2> QED
    BY <1>1, <2>1
<1>7. ASSUME NEW t \in Presses \cup Requests, JobStep(t) \/ ResolverFails(t)
      PROVE  joined'[r] = g /\ pc'[r] \notin {"idle", "received"}
  <2>1. UNCHANGED <<members, joined>>
        /\ (pc'[r] \in {"idle", "received"} => pc[r] \in {"idle", "received"})
    BY <1>0, <1>7 DEF JobStep, NotificationClosed, EntryRemoved, AuditWritten, ResolverFails, TypeOK
  <2> QED
    BY <1>1, <2>1
<1>8. CASE UNCHANGED vars \/ Revoke \/ CloseBegin \/ CloseStep \/ \E k \in Keys : Expire(k)
  BY <1>0, <1>1, <1>8 DEF Revoke, CloseBegin, CloseStep, ClearPolicyState, RemovePendingDir, Expire
<1> QED
  BY <1>2, <1>3, <1>4, <1>5, <1>6, <1>7, <1>8 DEF Next, HandlerStep

\* A step of a resolver takes at most one request off the index, and only one of a
\* group that is off the map; it stays with its group or is no longer running.
LEMMA JobLeaves ==
    ASSUME Inv, NEW t \in Presses \cup Requests, JobStep(t) \/ ResolverFails(t)
    PROVE  /\ UNCHANGED <<msg, joined, groups, keyOf, members, timer, closing>>
           /\ \/ index' = index
              \/ /\ Running(t) /\ job[t].scope # "once" /\ job[t].group \in Requests
                 /\ \E c \in members[job[t].group] : index' = [index EXCEPT ![c] = None]
           /\ \A u \in (Presses \cup Requests) \ {t} : job'[u] = job[u]
           /\ Running(t) /\ job'[t].scope = job[t].scope /\ job'[t].outcome = job[t].outcome
           /\ job'[t].target = job[t].target /\ job'[t].pc # "idle"
           /\ Running(t)' => job'[t].group = job[t].group
<1>0. /\ job[t] \in Jobs /\ job \in [Presses \cup Requests -> Jobs]
      /\ Running(t) => job[t].group \in Requests
  BY DEF Inv, TypeOK, JobsFit, JobFits
<1>1. UNCHANGED <<msg, joined, groups, keyOf, members, timer, closing>> /\ Running(t)
  BY DEF JobStep, NotificationClosed, EntryRemoved, AuditWritten, ResolverFails, Running
<1>2. ASSUME NEW v, TakeNext(t, v), job[t].scope # "once"
      PROVE  /\ \/ index' = index
                \/ \E c \in members[job[t].group] : index' = [index EXCEPT ![c] = None]
             /\ \A u \in (Presses \cup Requests) \ {t} : job'[u] = job[u]
             /\ job'[t].scope = job[t].scope /\ job'[t].outcome = job[t].outcome
             /\ job'[t].target = job[t].target /\ job'[t].pc # "idle"
             /\ job'[t].pc \in {"closing", "removing", "auditing"} => job'[t].group = job[t].group
  <2>1. CASE index' = index /\ job' = [job EXCEPT ![t] = Ended(t, "done")]
    BY <1>0, <2>1 DEF Ended, Jobs
  <2>2. ASSUME NEW c \in members[job[t].group],
               job' = [job EXCEPT ![t].pc = "removing", ![t].cur = c, ![t].visited = v \cup {c}],
               index' = [index EXCEPT ![c] = None]
        PROVE  /\ \A u \in (Presses \cup Requests) \ {t} : job'[u] = job[u]
               /\ job'[t].scope = job[t].scope /\ job'[t].outcome = job[t].outcome
               /\ job'[t].target = job[t].target /\ job'[t].pc # "idle"
               /\ job'[t].group = job[t].group
    BY <1>0, <2>2 DEF Jobs
  <2> QED
    BY <1>2, <2>1, <2>2 DEF TakeNext
<1>3. ASSUME index' = index,
             \/ job' = [job EXCEPT ![t].pc = "removing"]
             \/ \E h : job' = [job EXCEPT ![t].pc = "auditing", ![t].headers = h]
             \/ \E how \in {"done", "aborted"} : job' = [job EXCEPT ![t] = Ended(t, how)]
      PROVE  /\ \A u \in (Presses \cup Requests) \ {t} : job'[u] = job[u]
             /\ job'[t].scope = job[t].scope /\ job'[t].outcome = job[t].outcome
             /\ job'[t].target = job[t].target /\ job'[t].pc # "idle"
             /\ job'[t].pc \in {"closing", "removing", "auditing"} => job'[t].group = job[t].group
  <2>1. CASE job' = [job EXCEPT ![t].pc = "removing"]
    BY <1>0, <2>1 DEF Jobs
  <2>2. CASE \E h : job' = [job EXCEPT ![t].pc = "auditing", ![t].headers = h]
    BY <1>0, <2>2 DEF Jobs
  <2>3. CASE \E how \in {"done", "aborted"} : job' = [job EXCEPT ![t] = Ended(t, how)]
    BY <1>0, <2>3 DEF Jobs, Ended
  <2> QED
    BY <1>3, <2>1, <2>2, <2>3
<1> QED
  BY <1>0, <1>1, <1>2, <1>3
     DEF JobStep, NotificationClosed, EntryRemoved, AuditWritten, ResolverFails, Running

\* Every step keeps the loops of the resolvers to groups that are off the map.
LEMMA NextLoopsFit == Inv /\ GroupInv /\ [Next]_vars => LoopsFit'
<1> SUFFICES ASSUME Inv, GroupInv, [Next]_vars, NEW t \in Presses \cup Requests,
                    Running(t)', job'[t].scope # "once", NEW k \in Keys,
                    groups'[k] = job'[t].group
             PROVE  FALSE
  BY DEF LoopsFit, Live
<1>0. /\ TypeOK /\ GroupsFit /\ LoopsFit /\ HandlersKnown /\ JobFits(t)
      /\ None \notin Keys /\ None \notin Requests
      /\ job \in [Presses \cup Requests -> Jobs]
  BY KeysAssumption, BrokerAssumption DEF Inv, GroupInv, TypeOK, JobsFit
<1>1. CASE job'[t] = job[t] /\ groups'[k] \in {groups[k], None}
  BY <1>0, <1>1 DEF LoopsFit, Live, Running, JobFits
<1>2. ASSUME NEW q \in Requests, CreateGroup(q)
      PROVE  FALSE
  <2>1. groups'[k] \in {q, groups[k]} /\ keyOf[q] = None /\ job' = job
    BY <1>0, <1>2 DEF CreateGroup, TypeOK, GroupsFit
  <2>2. groups'[k] # q
    BY <1>0, <2>1 DEF JobFits, Running
  <2> QED
    BY <1>1, <2>1, <2>2
<1>3. CASE \/ \E p \in Presses, x \in Requests, o \in {"allow", "deny"}, s \in Scopes :
                 Press(p, x, o, s)
           \/ \E h \in Requests : Timeout(h)
  <2>1. ASSUME NEW g \in Requests, NEW c \in Keys, NEW u \in Presses \cup Requests,
               groups[c] = g, keyOf[g] = c, groups' = [groups EXCEPT ![c] = None],
               job' = [job EXCEPT ![u] = job'[u]], job'[u].group = g
        PROVE  FALSE
    <3>1. CASE u = t
      BY <1>0, <2>1, <3>1 DEF TypeOK, GroupsFit
    <3>2. CASE u # t
      BY <1>0, <1>1, <2>1, <3>2 DEF TypeOK
    <3> QED
      BY <3>1, <3>2
  <2>2. ASSUME NEW c \in Keys, NEW p \in Presses,
               groups' = groups \/ groups' = [groups EXCEPT ![c] = None],
               job' = [job EXCEPT ![p] = job'[p]], job'[p].scope = "once"
        PROVE  FALSE
    BY <1>0, <1>1, <2>2 DEF TypeOK
  <2>3. CASE UNCHANGED <<groups, job>>
    BY <1>1, <2>3
  <2> QED
    BY <1>3, <2>1, <2>2, <2>3, Resolved
<1>4. ASSUME NEW q \in Requests,
             \/ \E m \in Messages : Receive(q, m)
             \/ Decide(q) \/ Reply(q) \/ JoinGroup(q) \/ EntryVisible(q) \/ Rejoin(q)
             \/ RegisterWaiter(q) \/ Drop(q)
      PROVE  UNCHANGED <<groups, job>>
  BY <1>4 DEF Receive, Decide, Reply, JoinGroup, EntryVisible, Rejoin, RegisterWaiter, Drop
<1>5. ASSUME NEW u \in Presses \cup Requests, JobStep(u) \/ ResolverFails(u)
      PROVE  FALSE
  <2>1. CASE u = t
    <3>1. Running(t) /\ job[t].scope # "once" /\ groups[k] = job[t].group
      BY <1>5, <2>1, JobLeaves
    <3> QED
      BY <1>0, <3>1 DEF LoopsFit, Live
  <2>2. CASE u # t
    BY <1>1, <1>5, <2>2, JobLeaves
  <2> QED
    BY <2>1, <2>2
<1>6. CASE UNCHANGED vars \/ Revoke \/ CloseBegin \/ CloseStep \/ \E c \in Keys : Expire(c)
  BY <1>1, <1>6 DEF Revoke, CloseBegin, CloseStep, ClearPolicyState, RemovePendingDir, Expire
<1> QED
  BY <1>1, <1>2, <1>3, <1>4, <1>5, <1>6 DEF Next, HandlerStep

\* Every step keeps the index leading from the members to the group on the map.
LEMMA NextIndexLeads == Inv /\ GroupInv /\ [Next]_vars => IndexLeads'
<1> SUFFICES ASSUME Inv, GroupInv, [Next]_vars, closing' \in {"open", "closing"},
                    NEW k \in Keys, NEW g \in Requests, groups'[k] = g, NEW r \in members'[g]
             PROVE  index'[r] = k
  BY DEF IndexLeads
<1>0. /\ TypeOK /\ TypeOK' /\ GroupsFit /\ MembersFit /\ LoopsFit /\ HandlersKnown /\ r \in Requests
      /\ None \notin Keys /\ None \notin Requests
      /\ closing \in {"open", "closing"} /\ groups[k] = g /\ r \in members[g] => index[r] = k
  BY KeysAssumption, BrokerAssumption, NextTypes DEF Inv, GroupInv, TypeOK, IndexLeads
<1>1. CASE /\ closing' = closing /\ groups[k] = g /\ r \in members[g] /\ index'[r] = index[r]
  BY <1>0, <1>1
<1>2. ASSUME NEW q \in Requests, CreateGroup(q)
      PROVE  index'[r] = k
  <2>1. PICK c \in Keys : c = GroupKey(msg[q])
    BY <1>0, <1>2, GroupKeyType DEF CreateGroup, HandlersKnown, Known
  <2>2. /\ groups' = [groups EXCEPT ![c] = q] /\ members' = [members EXCEPT ![q] = {q}]
        /\ index' = [index EXCEPT ![q] = c] /\ closing' = closing
        /\ keyOf[q] = None /\ pc[q] = "received"
    BY <1>0, <1>2, <2>1 DEF CreateGroup, GroupsFit
  <2>3. CASE g = q
    <3>1. k = c
      BY <1>0, <2>2, <2>3, SMTT(30) DEF GroupsFit, TypeOK
    <3> QED
      BY <1>0, <2>2, <2>3, <3>1 DEF TypeOK
  <2>4. CASE g # q
    BY <1>0, <1>1, <2>2, <2>4 DEF TypeOK, MembersFit
  <2> QED
    BY <2>3, <2>4
<1>3. ASSUME NEW q \in Requests, JoinGroup(q)
      PROVE  index'[r] = k
  <2>1. PICK c \in Keys : c = GroupKey(msg[q])
    BY <1>0, <1>3, GroupKeyType DEF JoinGroup, HandlersKnown, Known
  <2>2. PICK h \in Requests : groups[c] = h
    BY <1>0, <1>3, <2>1 DEF JoinGroup, TypeOK
  <2>3. /\ groups' = groups /\ members' = [members EXCEPT ![h] = @ \cup {q}]
        /\ index' = [index EXCEPT ![q] = c] /\ closing' = closing /\ pc[q] = "received"
    BY <1>3, <2>1, <2>2 DEF JoinGroup
  <2>4. CASE r = q
    <3>1. g = h
      BY <1>0, <2>3, <2>4 DEF TypeOK, MembersFit
    <3> QED
      BY <1>0, <2>2, <2>3, <2>4, <3>1 DEF TypeOK, GroupsFit
  <2>5. CASE r # q
    BY <1>0, <1>1, <2>3, <2>5 DEF TypeOK
  <2> QED
    BY <2>4, <2>5
<1>4. ASSUME NEW q \in Requests, Rejoin(q)
      PROVE  index'[r] = k
  <2>1. CASE r = q
    <3>1. joined[q] = q /\ (r \in members[g] => g = q)
      BY <1>0, <1>4, <2>1 DEF Rejoin, MembersFit
    <3>2. g = q
      BY <1>0, <1>4, <2>1, <3>1 DEF Rejoin, TypeOK
    <3> QED
      BY <1>0, <1>4, <2>1, <3>2 DEF Rejoin, TypeOK, GroupsFit
  <2>2. CASE r # q
    BY <1>0, <1>1, <1>4, <2>2 DEF Rejoin, TypeOK
  <2> QED
    BY <2>1, <2>2
<1>5. ASSUME NEW q \in Requests,
             \/ \E m \in Messages : Receive(q, m)
             \/ Decide(q) \/ Reply(q) \/ EntryVisible(q) \/ RegisterWaiter(q) \/ Drop(q)
      PROVE  index'[r] = k
  BY <1>1, <1>5 DEF Receive, Decide, Reply, EntryVisible, RegisterWaiter, Drop
<1>6. CASE \/ \E p \in Presses, x \in Requests, o \in {"allow", "deny"}, s \in Scopes :
                 Press(p, x, o, s)
           \/ \E h \in Requests : Timeout(h)
  <2>1. closing' = closing
    BY <1>6, Resolved
  <2>2. ASSUME NEW c \in Keys, groups' = groups \/ groups' = [groups EXCEPT ![c] = None],
               UNCHANGED <<members, index>>
        PROVE  index'[r] = k
    BY <1>0, <1>1, <2>1, <2>2 DEF TypeOK
  <2>3. ASSUME NEW c \in Keys, groups' = groups \/ groups' = [groups EXCEPT ![c] = None],
               NEW h \in Requests, NEW x \in members[h],
               members' = [members EXCEPT ![h] = @ \ {x}], index' = [index EXCEPT ![x] = None]
        PROVE  index'[r] = k
    <3>1. groups[k] = g /\ r \in members[g]
      BY <1>0, <2>3 DEF TypeOK
    <3>2. r # x
      <4> SUFFICES ASSUME r = x PROVE FALSE
        OBVIOUS
      <4>1. g = h
        BY <1>0, <2>3, <3>1 DEF MembersFit
      <4> QED
        BY <1>0, <2>3, <4>1 DEF TypeOK
    <3> QED
      BY <1>0, <1>1, <2>1, <2>3, <3>1, <3>2 DEF TypeOK
  <2> QED
    BY <1>6, <2>2, <2>3, Resolved
<1>7. ASSUME NEW t \in Presses \cup Requests, JobStep(t) \/ ResolverFails(t)
      PROVE  index'[r] = k
  <2>1. closing' = closing /\ groups[k] = g /\ r \in members[g]
    BY <1>7, JobLeaves
  <2>2. ASSUME NEW c \in members[job[t].group], Running(t), job[t].scope # "once",
               job[t].group \in Requests, index' = [index EXCEPT ![c] = None]
        PROVE  c # r
    <3> SUFFICES ASSUME c = r PROVE FALSE
      OBVIOUS
    <3>1. job[t].group = g
      BY <1>0, <2>1, <2>2 DEF MembersFit
    <3> QED
      BY <1>0, <2>1, <2>2, <3>1 DEF LoopsFit, Live
  <2>3. index'[r] = index[r]
    BY <1>0, <1>7, <2>2, JobLeaves DEF TypeOK
  <2> QED
    BY <1>1, <2>1, <2>3
<1>8. CASE UNCHANGED vars \/ Revoke \/ CloseBegin \/ CloseStep \/ \E c \in Keys : Expire(c)
  BY <1>0, <1>8 DEF Revoke, CloseBegin, CloseStep, ClearPolicyState, RemovePendingDir, Expire
<1> QED
  BY <1>2, <1>3, <1>4, <1>5, <1>6, <1>7, <1>8 DEF Next, HandlerStep

\* The invariant of the groups holds throughout, next to that of the answers.
LEMMA GroupInvariant == Spec => [](Inv /\ GroupInv)
<1>1. Init => GroupInv
  BY BrokerAssumption, KeysAssumption
     DEF Init, GroupInv, TimerGuardsGroup, MembersFit, IndexLeads, LoopsFit, Running, Idle
<1>2. Inv /\ GroupInv /\ [Next]_vars => GroupInv'
  BY NextTimerGuards, NextMembersFit, NextIndexLeads, NextLoopsFit DEF GroupInv
<1> QED
  BY <1>1, <1>2, InvHolds, PTL DEF Spec

\* Until close() begins, a group has its timer running exactly while it can be pressed,
\* however creations, presses, timers and joins interleave (createPendingGroup,
\* detachRequest and resolveGroup keep the map and the timers in step).
THEOREM TimerGuards == Spec => []TimerGuardsGroup
<1>1. GroupInv => TimerGuardsGroup
  BY DEF GroupInv
<1> QED
  BY <1>1, GroupInvariant, PTL

\* Whoever sits in a group that can be pressed can itself be pressed, also a creator
\* that was detached while its entry was being written and joined again.
THEOREM MembersPressable == Spec => []MembersCanBePressed
<1>1. Inv /\ GroupInv => MembersCanBePressed
  BY KeysAssumption DEF Inv, TypeOK, GroupInv, IndexLeads, MembersCanBePressed, LiveGroups,
                        FindGroupByRequestId
<1> QED
  BY <1>1, GroupInvariant, PTL

-----------------------------------------------------------------------------
(* Denials: what they can be traced back to stands. *)

\* Every step keeps the keys of the groups from being empty questions.
LEMMA NextKeysAsk == Inv /\ KeysAsk /\ [Next]_vars => KeysAsk'
<1> SUFFICES ASSUME Inv, KeysAsk, [Next]_vars, NEW g \in Requests, NEW k \in Keys,
                    keyOf'[g] = k, k.kind = "violation"
             PROVE  k.ids # {}
  BY DEF KeysAsk
<1>0. Stands /\ TypeOK /\ GroupsFit /\ HandlersKnown
  BY NextStands DEF Inv
<1>1. CASE keyOf[g] # None
  BY <1>0, <1>1 DEF Stands, KeysAsk
<1>2. ASSUME keyOf'[g] # keyOf[g]
      PROVE  CreateGroup(g)
  <2>1. \A q \in Requests : CreateGroup(q) => q = g
    BY <1>0, <1>2 DEF CreateGroup, TypeOK
  <2>2. ASSUME NEW q \in Requests, ~CreateGroup(q),
               (\E m \in Messages : Receive(q, m)) \/ HandlerStep(q) \/ Drop(q)
        PROVE  keyOf' = keyOf
    BY <2>2 DEF Receive, HandlerStep, Decide, Reply, JoinGroup, EntryVisible, Rejoin,
                RegisterWaiter, Drop
  <2>3. ASSUME NEW t \in Presses \cup Requests, JobStep(t) \/ ResolverFails(t)
        PROVE  keyOf' = keyOf
    BY <2>3, JobLeaves
  <2>4. CASE \/ \E p \in Presses, r \in Requests, o \in {"allow", "deny"}, s \in Scopes :
                 Press(p, r, o, s)
             \/ \E h \in Requests : Timeout(h)
    BY <1>2, <2>4, Resolved
  <2>5. CASE UNCHANGED vars \/ Revoke \/ CloseBegin \/ CloseStep \/ \E c \in Keys : Expire(c)
    BY <1>2, <2>5 DEF Revoke, CloseBegin, CloseStep, ClearPolicyState, RemovePendingDir, Expire
  <2> QED
    BY <1>2, <2>1, <2>2, <2>3, <2>4, <2>5 DEF Next
<1>3. CASE keyOf[g] = None
  <2>1. CreateGroup(g)
    BY <1>2, <1>3, KeysAssumption
  <2>2. k = GroupKey(msg[g]) /\ Decision(msg[g]) = NoAnswer /\ msg[g] \in Messages
    BY <1>0, <2>1 DEF CreateGroup, TypeOK, HandlersKnown, Known
  <2>3. msg[g].kind = "violation"
    BY <2>2, BrokerAssumption DEF GroupKey, PendingGroupKey
  <2>4. ReviewDecision(msg[g]) = NoAnswer /\ k.ids = Identities(msg[g]) \ approvedV
    BY <2>2, <2>3 DEF Decision, GroupKey, ViolationGroupKey
  <2> QED
    BY <2>4 DEF ReviewDecision, NoAnswer, AllowDecision, DenyDecision
<1> QED
  BY <1>1, <1>3

\* Every resolver starts with an outcome and keeps it.
LEMMA NextOutcomesFit == Inv /\ OutcomesFit /\ [Next]_vars => OutcomesFit'
<1> SUFFICES ASSUME Inv, OutcomesFit, [Next]_vars, NEW t \in Presses \cup Requests,
                    job'[t].pc # "idle"
             PROVE  job'[t].outcome \in {"allow", "deny"}
  BY DEF OutcomesFit
<1>0. job \in [Presses \cup Requests -> Jobs]
  BY DEF Inv, TypeOK
<1>1. CASE job'[t] = job[t]
  BY <1>1 DEF OutcomesFit
<1>2. ASSUME NEW p \in Presses, NEW r \in Requests, NEW o \in {"allow", "deny"}, NEW s \in Scopes,
             Press(p, r, o, s)
      PROVE  job'[t].outcome \in {"allow", "deny"}
  <2>1. job'[p].outcome = o /\ \A u \in (Presses \cup Requests) \ {p} : job'[u] = job[u]
    BY <1>2, PressFacts
  <2> QED
    BY <1>1, <2>1
<1>3. ASSUME NEW g \in Requests, Timeout(g)
      PROVE  job'[t].outcome \in {"allow", "deny"}
  <2>1. job' = job \/ (job'[g].outcome = "deny" /\
                        \A u \in (Presses \cup Requests) \ {g} : job'[u] = job[u])
    BY <1>0, <1>3, ZenonT(40) DEF Timeout, ResolveGroup, Idle
  <2> QED
    BY <1>1, <2>1
<1>4. ASSUME NEW u \in Presses \cup Requests, JobStep(u) \/ ResolverFails(u)
      PROVE  job'[t].outcome \in {"allow", "deny"}
  <2>1. /\ \A x \in (Presses \cup Requests) \ {u} : job'[x] = job[x]
        /\ Running(u) /\ job'[u].outcome = job[u].outcome
    BY <1>4, JobLeaves
  <2> QED
    BY <1>1, <2>1 DEF OutcomesFit, Running
<1>5. CASE \/ UNCHANGED vars \/ Revoke \/ CloseBegin \/ CloseStep \/ \E k \in Keys : Expire(k)
           \/ \E r \in Requests : (\E m \in Messages : Receive(r, m)) \/ HandlerStep(r) \/ Drop(r)
  <2>1. job' = job
    BY <1>5 DEF Revoke, CloseBegin, CloseStep, ClearPolicyState, RemovePendingDir, Expire,
                Receive, HandlerStep, Decide, Reply, CreateGroup, JoinGroup, EntryVisible, Rejoin,
                RegisterWaiter, Drop
  <2> QED
    BY <1>1, <2>1
<1> QED
  BY <1>2, <1>3, <1>4, <1>5 DEF Next

\* A timer that has fired stays so.
LEMMA FiredStands ==
    ASSUME Inv, TimersFit, [Next]_vars, NEW g \in Requests, timer[g] = "fired"
    PROVE  timer'[g] = "fired"
<1>0. TypeOK /\ GroupsFit
  BY DEF Inv
<1>1. ASSUME NEW q \in Requests, CreateGroup(q)
      PROVE  timer'[g] = "fired"
  <2>1. keyOf[q] = None
    BY <1>0, <1>1 DEF CreateGroup, GroupsFit
  <2> QED
    BY <1>0, <1>1, <2>1 DEF CreateGroup, TimersFit, TypeOK
<1>2. CASE \/ \E p \in Presses, r \in Requests, o \in {"allow", "deny"}, s \in Scopes :
                 Press(p, r, o, s)
           \/ \E h \in Requests : Timeout(h)
  <2>1. ASSUME NEW h \in Requests, NEW k \in Keys, groups[k] = h
        PROVE  h # g
    BY <2>1 DEF TimersFit
  <2> QED
    BY <1>0, <1>2, <2>1, Resolved DEF TypeOK
<1>3. ASSUME NEW q \in Requests, ~CreateGroup(q),
             (\E m \in Messages : Receive(q, m)) \/ HandlerStep(q) \/ Drop(q)
      PROVE  timer' = timer
  BY <1>3 DEF Receive, HandlerStep, Decide, Reply, JoinGroup, EntryVisible, Rejoin,
              RegisterWaiter, Drop
<1>4. ASSUME NEW t \in Presses \cup Requests, JobStep(t) \/ ResolverFails(t)
      PROVE  timer' = timer
  BY <1>4, JobLeaves
<1>5. CASE CloseBegin
  BY <1>0, <1>5 DEF CloseBegin, LiveGroups, TimersFit
<1>6. CASE UNCHANGED vars \/ Revoke \/ CloseStep \/ \E c \in Keys : Expire(c)
  BY <1>6 DEF Revoke, CloseStep, ClearPolicyState, RemovePendingDir, Expire
<1> QED
  BY <1>1, <1>2, <1>3, <1>4, <1>5, <1>6 DEF Next

\* Every step keeps the fired timers apart from the groups on the map.
LEMMA NextTimersFit == Inv /\ TimersFit /\ [Next]_vars => TimersFit'
<1> SUFFICES ASSUME Inv, TimersFit, [Next]_vars PROVE TimersFit'
  OBVIOUS
<1>0. /\ TypeOK /\ GroupsFit /\ HandlersKnown /\ JobsFit /\ Stands
      /\ None \notin Keys /\ None \notin Requests /\ Requests \cap Presses = {}
      /\ job \in [Presses \cup Requests -> Jobs]
      /\ \A g \in Requests : timer[g] = "fired" => timer'[g] = "fired"
  BY KeysAssumption, BrokerAssumption, NextStands, FiredStands DEF Inv, TypeOK
<1>1. CASE /\ \A g \in Requests :
                /\ timer'[g] \in {timer[g], "cleared"}
                /\ timer'[g] = "cleared" => keyOf[g] # None \/ timer[g] = "cleared"
           /\ \A k \in Keys : groups'[k] \in {groups[k], None}
           /\ job' = job
  BY <1>0, <1>1 DEF TimersFit, Stands, Running, JobsFit, JobFits
<1>2. ASSUME NEW q \in Requests, CreateGroup(q)
      PROVE  TimersFit'
  <2>1. PICK k \in Keys : k = GroupKey(msg[q])
    BY <1>0, <1>2, GroupKeyType DEF CreateGroup, HandlersKnown, Known
  <2>2. /\ groups' = [groups EXCEPT ![k] = q] /\ keyOf' = [keyOf EXCEPT ![q] = k]
        /\ timer' = [timer EXCEPT ![q] = "armed"] /\ keyOf[q] = None /\ job' = job
    BY <1>0, <1>2, <2>1 DEF CreateGroup, GroupsFit
  <2>3. \A g \in Requests : timer'[g] # "unset" => keyOf'[g] # None
    BY <1>0, <2>1, <2>2 DEF TimersFit, TypeOK
  <2>4. \A c \in Keys, g \in Requests : groups'[c] = g => timer'[g] # "fired"
    BY <1>0, <2>1, <2>2 DEF TimersFit, TypeOK
  <2>5. \A g \in Requests : job'[g].pc # "idle" =>
          /\ timer'[g] = "fired"
          /\ Running(g)' => keyOf'[job'[g].group] = keyOf'[g]
    BY <1>0, <2>2 DEF TimersFit, TypeOK, Running, JobsFit, JobFits
  <2> QED
    BY <2>3, <2>4, <2>5 DEF TimersFit
<1>3. ASSUME NEW g \in Requests, NEW k \in Keys, NEW t \in Presses \cup Requests,
             groups[k] = g, keyOf[g] = k, groups' = [groups EXCEPT ![k] = None],
             keyOf' = keyOf, job' = [job EXCEPT ![t] = job'[t]], job'[t].group = g,
             \/ t \in Presses /\ timer' = [timer EXCEPT ![g] = "cleared"]
             \/ t \in Requests /\ keyOf[t] = k
                /\ timer' = [timer EXCEPT ![g] = "cleared", ![t] = "fired"]
      PROVE  TimersFit'
  <2>1. \A h \in Requests : timer'[h] # "unset" => keyOf'[h] # None
    BY <1>0, <1>3 DEF TimersFit, TypeOK
  <2>2. \A c \in Keys, h \in Requests : groups'[c] = h => timer'[h] # "fired"
    BY <1>0, <1>3 DEF TimersFit, TypeOK, GroupsFit
  <2>3. ASSUME NEW h \in Requests, job'[h].pc # "idle"
        PROVE  /\ timer'[h] = "fired"
               /\ Running(h)' => keyOf'[job'[h].group] = keyOf'[h]
    <3>1. CASE h = t
      BY <1>0, <1>3, <3>1 DEF TypeOK
    <3>2. CASE h # t
      BY <1>0, <1>3, <2>3, <3>2 DEF TypeOK, TimersFit, Running
    <3> QED
      BY <3>1, <3>2
  <2> QED
    BY <2>1, <2>2, <2>3 DEF TimersFit
<1>4. ASSUME NEW p \in Presses, NEW r \in Requests, NEW o \in {"allow", "deny"},
             NEW s \in Scopes, Press(p, r, o, s)
      PROVE  TimersFit'
  <2> DEFINE g == FindGroupByRequestId(r)
             sel == IF o = "allow" /\ s = "none" THEN "once" ELSE s
  <2>1. g \in Requests /\ keyOf[g] \in Keys /\ groups[keyOf[g]] = g
    BY <1>0, <1>4 DEF Press, FindGroupByRequestId, TypeOK, GroupsFit
  <2>2. \/ ResolveRequest(p, g, o, r)
        \/ ResolveGroup(p, g, o, sel, r) /\ timer' = [timer EXCEPT ![g] = "cleared"]
    BY <1>4 DEF Press
  <2> HIDE DEF g, sel
  <2>3. CASE ResolveRequest(p, g, o, r)
    <3>1. job' = [job EXCEPT ![p] = job'[p]] /\ job'[p].group = g /\ keyOf' = keyOf
      BY <1>0, <2>3 DEF ResolveRequest, Idle
    <3>2. CASE members[g] = {r}
      BY <1>3, <2>1, <2>3, <3>1, <3>2 DEF ResolveRequest
    <3>3. CASE members[g] # {r}
      <4>1. UNCHANGED <<timer, groups, keyOf>>
        BY <2>3, <3>3 DEF ResolveRequest
      <4>2. \A h \in Requests : job'[h] = job[h]
        BY <1>0, <3>1
      <4> QED
        BY <4>1, <4>2 DEF TimersFit, Running
    <3> QED
      BY <3>2, <3>3
  <2>4. CASE ResolveGroup(p, g, o, sel, r) /\ timer' = [timer EXCEPT ![g] = "cleared"]
    <3>1. job' = [job EXCEPT ![p] = job'[p]] /\ job'[p].group = g /\ keyOf' = keyOf
      BY <1>0, <2>4 DEF ResolveGroup, Idle
    <3> QED
      BY <1>3, <2>1, <2>4, <3>1 DEF ResolveGroup
  <2> QED
    BY <2>2, <2>3, <2>4
<1>5. ASSUME NEW t \in Requests, Timeout(t)
      PROVE  TimersFit'
  <2>1. timer[t] = "armed" /\ keyOf[t] \in Keys
    BY <1>0, <1>5 DEF Timeout, GroupsFit, TypeOK
  <2>2. CASE groups[keyOf[t]] = None
    <3>1. timer' = [timer EXCEPT ![t] = "fired"] /\ UNCHANGED <<groups, keyOf, job>>
      BY <1>5, <2>2 DEF Timeout
    <3>2. \A k \in Keys : groups[k] # t
      BY <1>0, <2>1, <2>2 DEF GroupsFit
    <3> QED
      BY <1>0, <2>1, <3>1, <3>2 DEF TimersFit, TypeOK, Running
  <2>3. CASE groups[keyOf[t]] # None
    <3>1. PICK g \in Requests, k \in Keys : keyOf[t] = k /\ groups[k] = g /\ keyOf[g] = k
      BY <1>0, <2>1, <2>3 DEF GroupsFit, TypeOK
    <3>2. /\ ResolveGroup(t, g, "deny", "none", None)
          /\ timer' = [timer EXCEPT ![g] = "cleared", ![t] = "fired"]
      BY <1>5, <2>3, <3>1 DEF Timeout
    <3>3. job' = [job EXCEPT ![t] = job'[t]] /\ job'[t].group = g
      BY <1>0, <3>2 DEF ResolveGroup, Idle
    <3> QED
      BY <1>3, <3>1, <3>2, <3>3 DEF ResolveGroup
  <2> QED
    BY <2>2, <2>3
<1>6. ASSUME NEW q \in Requests, ~CreateGroup(q),
             (\E m \in Messages : Receive(q, m)) \/ HandlerStep(q) \/ Drop(q)
      PROVE  UNCHANGED <<groups, keyOf, timer, job>>
  BY <1>6 DEF Receive, HandlerStep, Decide, Reply, JoinGroup, EntryVisible, Rejoin,
              RegisterWaiter, Drop
<1>7. ASSUME NEW t \in Presses \cup Requests, JobStep(t) \/ ResolverFails(t)
      PROVE  TimersFit'
  <2>1. /\ UNCHANGED <<groups, keyOf, timer>>
        /\ \A u \in (Presses \cup Requests) \ {t} : job'[u] = job[u]
        /\ Running(t) /\ (Running(t)' => job'[t].group = job[t].group)
    BY <1>7, JobLeaves
  <2> QED
    BY <2>1 DEF TimersFit, Running
<1>8. CASE CloseBegin
  <2>1. job' = job /\ groups' = groups
        /\ timer' = [g \in Requests |-> IF g \in LiveGroups THEN "cleared" ELSE timer[g]]
    BY <1>8 DEF CloseBegin
  <2>2. \A g \in LiveGroups : keyOf[g] # None
    BY <1>0 DEF LiveGroups, GroupsFit
  <2> QED
    BY <1>1, <2>1, <2>2
<1>9. CASE UNCHANGED vars \/ Revoke \/ CloseStep \/ \E c \in Keys : Expire(c)
  BY <1>1, <1>9 DEF Revoke, CloseStep, ClearPolicyState, RemovePendingDir, Expire
<1> QED
  BY <1>1, <1>2, <1>4, <1>5, <1>6, <1>7, <1>8, <1>9 DEF Next

\* So whatever a denial goes back to keeps standing.
LEMMA RefusalsStand ==
    ASSUME Inv, TimersFit, [Next]_vars
    PROVE  /\ \A k : Refused(k) => Refused(k)'
           /\ \A a : DeniedAuthorize(a) => DeniedAuthorize(a)'
           /\ \A id : DeniedViolation(id) => DeniedViolation(id)'
           /\ \A p \in Presses : Pressed(p, "deny") =>
                Pressed(p, "deny")' /\ Card(p)' = Card(p) /\ job'[p].scope = job[p].scope
           /\ \A g \in Requests : timer[g] = "fired" =>
                timer'[g] = "fired" /\ (Known(g) => msg'[g] = msg[g])
<1>0. /\ Stands /\ \A k : \A r \in Requests : Fits(k, r) => Fits(k, r)'
      /\ \A g \in Requests : timer[g] = "fired" => timer'[g] = "fired"
  BY NextStands, FactsStand, FiredStands
<1>1. \A p \in Presses : Pressed(p, "deny") =>
          Pressed(p, "deny")' /\ Card(p)' = Card(p) /\ job'[p].scope = job[p].scope
          /\ job'[p].target = job[p].target
  BY <1>0 DEF Stands, Pressed, Card, Inv, JobsFit, JobFits, Known
<1>2. \A k : Refused(k) => Refused(k)'
  BY <1>0, <1>1 DEF Refused
<1>3. \A a : DeniedAuthorize(a) => DeniedAuthorize(a)'
  BY <1>1 DEF DeniedAuthorize, ApprovalKey
<1>4. \A id : DeniedViolation(id) => DeniedViolation(id)'
  BY <1>1 DEF DeniedViolation, Identities, Asked, ViolationNeedsApproval, ViolationKey
<1> QED
  BY <1>0, <1>1, <1>2, <1>3, <1>4 DEF Stands, Known

\* What a resolver of a group answers for was refused under the group's key.
LEMMA JobRefuses ==
    ASSUME Inv, TimersFit, NEW t \in Presses \cup Requests, Running(t), job[t].outcome = "deny"
    PROVE  /\ job[t].scope = "none" => Refused(keyOf[job[t].group])
           /\ t \in Requests => timer[t] = "fired" /\ Fits(keyOf[job[t].group], t)
           /\ t \in Presses => Pressed(t, "deny") /\ \E r \in Requests :
                job[t].target = r /\ Card(t) = msg[r] /\ Fits(keyOf[job[t].group], r)
<1>0. JobFits(t) /\ TypeOK /\ GroupsFit /\ job[t].pc # "idle"
  BY DEF Inv, JobsFit, Running
<1>1. PICK k \in Keys : k = keyOf[job[t].group] /\ job[t].group \in Requests
  BY <1>0 DEF JobFits, TypeOK
<1>2. CASE t \in Requests
  <2>1. timer[t] = "fired" /\ keyOf[t] = k
    BY <1>0, <1>1, <1>2 DEF TimersFit
  <2>2. Fits(k, t)
    BY <1>0, <1>2, <2>1 DEF GroupsFit
  <2> QED
    BY <1>1, <1>2, <2>1, <2>2, BrokerAssumption DEF Refused
<1>3. CASE t \in Presses
  <2>1. PICK r \in Requests : job[t].target = r
    BY <1>0, <1>3 DEF JobFits
  <2>2. Fits(k, r) /\ Pressed(t, "deny") /\ Card(t) = msg[r]
    BY <1>0, <1>1, <1>3, <2>1 DEF JobFits, Pressed, Card
  <2> QED
    BY <1>1, <1>3, <2>1, <2>2, BrokerAssumption DEF Refused
<1> QED
  BY <1>2, <1>3

\* Every step remembers a denial only where a person or a timer refused.
LEMMA NextDenialsFit == Inv /\ TimersFit /\ DenialsFit /\ [Next]_vars => DenialsFit'
<1> SUFFICES ASSUME Inv, TimersFit, DenialsFit, [Next]_vars PROVE DenialsFit'
  OBVIOUS
<1>0. /\ \A k : Refused(k) => Refused(k)'
      /\ \A a : DeniedAuthorize(a) => DeniedAuthorize(a)'
      /\ \A id : DeniedViolation(id) => DeniedViolation(id)'
  BY RefusalsStand
<1>1. CASE denied' \subseteq denied /\ deniedV' \subseteq deniedV /\ negCache' \subseteq negCache
  <2>1. \A a \in denied' : DeniedAuthorize(a)'
    BY <1>0, <1>1 DEF DenialsFit
  <2>2. \A id \in deniedV' : DeniedViolation(id)'
    BY <1>0, <1>1 DEF DenialsFit
  <2>3. \A k \in negCache' : Refused(k)'
    BY <1>0, <1>1 DEF DenialsFit
  <2> QED
    BY <2>1, <2>2, <2>3 DEF DenialsFit
<1>2. ASSUME NEW p \in Presses, NEW r \in Requests, NEW o \in {"allow", "deny"}, NEW s \in Scopes,
             Press(p, r, o, s)
      PROVE  DenialsFit'
  <2>1. PICK k \in Keys, sel \in Scopes :
             /\ Fits(k, r) /\ Remember(k, sel, o)
             /\ job'[p].pc # "idle" /\ job'[p].outcome = o
             /\ job'[p].scope = sel /\ job'[p].target = r
    BY <1>2, PressFacts
  <2>2. /\ Card(p)' = msg[r] /\ msg[r].kind = k.kind /\ k.kind \in {"authorize", "violation"}
        /\ negCache' = negCache
    BY <1>2, <2>1, KeyMemory DEF Press, Card, Fits
  <2>3. ASSUME NEW a \in denied'
        PROVE  DeniedAuthorize(a)'
    <3>1. CASE a \in denied
      BY <1>0, <3>1 DEF DenialsFit
    <3>2. CASE a \notin denied
      <4>1. k.kind = "authorize" /\ o = "deny" /\ a = ApprovalKey(k, sel)
        BY <2>1, <2>2, <2>3, <3>2 DEF Remember
      <4>2. ApprovalKey(k, sel) = ApprovalKey(msg[r], sel)
        BY <2>1, <4>1 DEF Fits, PendingGroupKey, ApprovalKey
      <4>3. Pressed(p, "deny")' /\ Card(p)'.kind = "authorize"
            /\ a = ApprovalKey(Card(p), job[p].scope)'
        BY <2>1, <2>2, <4>1, <4>2 DEF Pressed, ApprovalKey
      <4> QED
        BY <4>3 DEF DeniedAuthorize
    <3> QED
      BY <3>1, <3>2
  <2>4. ASSUME NEW id \in deniedV'
        PROVE  DeniedViolation(id)'
    <3>1. CASE id \in deniedV
      BY <1>0, <3>1 DEF DenialsFit
    <3>2. CASE id \notin deniedV
      <4>1. k.kind = "violation" /\ o = "deny" /\ id \in k.ids
        BY <2>1, <2>2, <2>4, <3>2 DEF Remember
      <4>2. id \in Identities(msg[r])
        BY <2>1, <4>1 DEF Fits
      <4>3. Pressed(p, "deny")' /\ Card(p)'.kind = "violation" /\ id \in Identities(Card(p)')
        BY <2>1, <2>2, <4>1, <4>2 DEF Pressed
      <4> QED
        BY <4>3 DEF DeniedViolation, Identities, Asked, ViolationNeedsApproval, ViolationKey
    <3> QED
      BY <3>1, <3>2
  <2>5. \A c \in negCache' : Refused(c)'
    BY <1>0, <2>2 DEF DenialsFit
  <2> QED
    BY <2>3, <2>4, <2>5 DEF DenialsFit
<1>3. ASSUME NEW t \in Presses \cup Requests, NotificationClosed(t)
      PROVE  DenialsFit'
  <2>1. UNCHANGED <<denied, deniedV>> /\ Running(t)
    BY <1>3 DEF NotificationClosed, Running
  <2>2. CASE negCache' = negCache
    BY <1>1, <2>1, <2>2
  <2>3. CASE negCache' # negCache
    <3>1. job[t].outcome = "deny" /\ job[t].scope = "none"
          /\ negCache' = negCache \cup {keyOf[job[t].group]}
      BY <1>3, <2>3 DEF NotificationClosed
    <3>2. Refused(keyOf[job[t].group])
      BY <2>1, <3>1, JobRefuses
    <3>3. \A c \in negCache' : Refused(c)'
      BY <1>0, <3>1, <3>2 DEF DenialsFit
    <3>4. (\A a \in denied' : DeniedAuthorize(a)') /\ (\A id \in deniedV' : DeniedViolation(id)')
      BY <1>0, <2>1 DEF DenialsFit
    <3> QED
      BY <3>3, <3>4 DEF DenialsFit
  <2> QED
    BY <2>2, <2>3
<1>4. CASE \/ UNCHANGED vars \/ Revoke \/ CloseBegin \/ CloseStep \/ \E k \in Keys : Expire(k)
           \/ \E g \in Requests : Timeout(g)
           \/ \E t \in Presses \cup Requests : EntryRemoved(t) \/ AuditWritten(t) \/ ResolverFails(t)
           \/ \E r \in Requests : (\E m \in Messages : Receive(r, m)) \/ HandlerStep(r) \/ Drop(r)
  <2>1. denied' \subseteq denied /\ deniedV' \subseteq deniedV /\ negCache' \subseteq negCache
    BY <1>4 DEF Revoke, CloseBegin, CloseStep, ClearPolicyState, RemovePendingDir, Expire, Timeout,
                EntryRemoved, AuditWritten, ResolverFails, Receive,
                HandlerStep, Decide, Reply, CreateGroup, JoinGroup, EntryVisible, Rejoin,
                RegisterWaiter, Drop
  <2> QED
    BY <1>1, <2>1
<1> QED
  BY <1>2, <1>3, <1>4 DEF Next, JobStep

\* Two requests that fit one card ask the same, or share a violation that is on it.
LEMMA CardAsksTheSame ==
    ASSUME NEW k \in Keys, NEW x \in Requests, NEW c \in Requests, Fits(k, x), Fits(k, c),
           k.kind = "violation" => k.ids # {}, NEW scope
    PROVE  SameQuestion(msg[x], scope, msg[c])
<1>1. CASE k.kind = "authorize"
  <2>1. /\ PendingGroupKey(msg[x]) = PendingGroupKey(msg[c])
        /\ msg[x].kind = "authorize" /\ msg[c].kind = "authorize"
    BY <1>1 DEF Fits
  <2> QED
    BY <2>1 DEF SameQuestion, SpeaksFor, PendingGroupKey
<1>2. CASE k.kind = "violation"
  <2>1. PICK id \in k.ids : id \in Identities(msg[x]) /\ id \in Identities(msg[c])
    BY <1>2 DEF Fits
  <2>2. msg[x].kind = "violation" /\ msg[c].kind = "violation" /\ msg[x].rule = msg[c].rule
    BY <1>2 DEF Fits
  <2>3. PICK y \in Asked(msg[x]), f \in Asked(msg[c]) :
          id = ViolationKey(msg[x].rule, y) /\ id = ViolationKey(msg[c].rule, f)
    BY <2>1 DEF Identities
  <2>4. y \in msg[x].findings /\ y.expect = f.expect /\ y.value = f.value
    BY <2>3 DEF Asked, ViolationKey
  <2> QED
    BY <2>2, <2>3, <2>4 DEF SameQuestion, Shows
<1> QED
  BY <1>1, <1>2, KeyMemory

\* The three reasons of a denial of request r, each with what it goes back to.
DeniedByUser(r) ==
    \E p \in Presses : Pressed(p, "deny") /\ SameQuestion(Card(p), job[p].scope, msg[r])

TimedOut(r) == \E g \in Requests : timer[g] = "fired" /\ SameQuestion(msg[g], "none", msg[r])

RecentlyDenied(r) ==
    \/ \E p \in Presses : /\ Pressed(p, "deny") /\ job[p].scope = "none"
                          /\ SameQuestion(Card(p), "none", msg[r])
    \/ TimedOut(r)

\* A denial given at once goes back to what its reason says.
LEMMA DecideDenies ==
    ASSUME Inv, DenialsFit, NEW r \in Requests, pc[r] = "received"
    PROVE  /\ Decision(msg[r]).reason = "denied-by-user" => DeniedByUser(r)
           /\ Decision(msg[r]).reason = "recent-deny" => RecentlyDenied(r)
           /\ Decision(msg[r]).reason # "prompt-timeout"
<1> DEFINE m == msg[r]
<1>0. m \in Messages /\ Known(r) /\ m.kind \in {"authorize", "violation"}
      /\ m.principal \in {"agent", "dind"} /\ GroupKey(m) \in Keys
  BY BrokerAssumption, GroupKeyType DEF Inv, HandlersKnown, Known
<1>1. Decision(m).reason # "prompt-timeout"
  BY DEF Decision, AuthorizeDecision, ReviewDecision, DenyDecision, AllowDecision, NoAnswer
<1>2. ASSUME Decision(m).reason = "denied-by-user" PROVE DeniedByUser(r)
  <2>1. CASE m.kind = "authorize"
    <3>1. ApprovalKeys(m) \cap denied # {}
      BY <1>2, <2>1 DEF Decision, AuthorizeDecision, DenyDecision, AllowDecision, NoAnswer
    <3>2. PICK s \in {"rule", "host-port", "host"} : ApprovalKey(m, s) \in denied
      BY <3>1 DEF ApprovalKeys
    <3>3. PICK p \in Presses : /\ Pressed(p, "deny") /\ Card(p).kind = "authorize"
                               /\ ApprovalKey(m, s) = ApprovalKey(Card(p), job[p].scope)
      BY <3>2 DEF DenialsFit, DeniedAuthorize
    <3>4. SpeaksFor(Card(p), job[p].scope, m)
      BY <2>1, <3>3 DEF SpeaksFor, ApprovalKey
    <3> QED
      BY <3>3, <3>4 DEF DeniedByUser, SameQuestion
  <2>2. CASE m.kind = "violation"
    <3>1. Identities(m) \cap deniedV # {}
      BY <1>2, <2>2 DEF Decision, ReviewDecision, DenyDecision, AllowDecision, NoAnswer
    <3>2. PICK f \in Asked(m) : ViolationKey(m.rule, f) \in deniedV
      BY <3>1 DEF Identities
    <3>3. PICK p \in Presses : /\ Pressed(p, "deny") /\ Card(p).kind = "violation"
                               /\ ViolationKey(m.rule, f) \in Identities(Card(p))
      BY <3>2 DEF DenialsFit, DeniedViolation
    <3>4. PICK y \in Asked(Card(p)) : ViolationKey(m.rule, f) = ViolationKey(Card(p).rule, y)
      BY <3>3 DEF Identities
    <3>5. Shows(Card(p), m.rule, f)
      BY <3>3, <3>4 DEF Shows, Asked, ViolationKey
    <3> QED
      BY <2>2, <3>3, <3>5 DEF DeniedByUser, SameQuestion
  <2> QED
    BY <1>0, <2>1, <2>2
<1>3. ASSUME Decision(m).reason = "recent-deny" PROVE RecentlyDenied(r)
  <2>1. GroupKey(m) \in negCache /\ m.principal = "agent"
        /\ (m.kind = "violation" => ~(Identities(m) \subseteq approvedV))
    <3>1. CASE m.kind = "authorize"
      BY <1>0, <1>3, <3>1, BrokerAssumption
         DEF Decision, AuthorizeDecision, DenyDecision, AllowDecision, NoAnswer
    <3>2. CASE m.kind = "violation"
      BY <1>0, <1>3, <3>2 DEF Decision, ReviewDecision, DenyDecision, AllowDecision, NoAnswer
    <3> QED
      BY <1>0, <3>1, <3>2
  <2>2. PICK k \in Keys : k = GroupKey(m) /\ Refused(k)
    BY <1>0, <2>1 DEF DenialsFit
  <2>3. k.kind = m.kind
    BY <1>0, <2>2 DEF GroupKey, PendingGroupKey, ViolationGroupKey
  <2>4. k.kind = "violation" => k.ids # {}
    BY <2>1, <2>2, <2>3 DEF GroupKey, ViolationGroupKey
  <2>5. Fits(k, r)
    <3>1. CASE m.kind = "authorize"
      BY <1>0, <2>1, <2>2, <2>3, <3>1 DEF Fits, GroupKey
    <3>2. CASE m.kind = "violation"
      <4>1. k.rule = m.rule /\ k.ids = Identities(m) \ approvedV
        BY <2>2, <3>2 DEF GroupKey, ViolationGroupKey
      <4>2. \A f \in Asked(m) : ViolationKey(m.rule, f) \in k.ids \/ PressedFinding(m.rule, f)
        BY <4>1, RememberedFinding DEF Identities
      <4> QED
        BY <1>0, <2>1, <2>3, <3>2, <4>1, <4>2 DEF Fits
    <3> QED
      BY <1>0, <3>1, <3>2
  <2>6. \A x \in Requests : \A s : Fits(k, x) => SameQuestion(msg[x], s, m)
    BY <2>4, <2>5, CardAsksTheSame
  <2> QED
    BY <2>2, <2>6 DEF Refused, RecentlyDenied, TimedOut, Card
<1> QED
  BY <1>1, <1>2, <1>3

\* A denial given by a resolver goes back to what its reason says.
LEMMA JobDenies ==
    ASSUME Inv, TimersFit, OutcomesFit, KeysAsk,
           NEW t \in Presses \cup Requests, job[t].pc = "auditing",
           NEW c \in Requests, job[t].cur = c
    PROVE  /\ JobAnswer(t).reason = "denied-by-user" => DeniedByUser(c)
           /\ JobAnswer(t).reason # "recent-deny"
           /\ JobAnswer(t).reason = "prompt-timeout" => TimedOut(c)
<1>0. JobFits(t) /\ Running(t) /\ TypeOK /\ job[t] \in Jobs
  BY DEF Inv, JobsFit, Running, TypeOK
<1>1. PICK k \in Keys : keyOf[job[t].group] = k /\ job[t].group \in Requests
  BY <1>0 DEF JobFits, TypeOK
<1>2. k.kind = "violation" => k.ids # {}
  BY <1>1 DEF KeysAsk
<1>3. Fits(k, c)
  <2>1. CASE job[t].scope = "once"
    BY <1>0, <1>1, <2>1 DEF JobFits
  <2>2. CASE job[t].scope # "once"
    BY <1>0, <1>1, <2>2 DEF JobFits
  <2> QED
    BY <2>1, <2>2
<1>4. \A x \in Requests : \A s : Fits(k, x) => SameQuestion(msg[x], s, msg[c])
  BY <1>2, <1>3, CardAsksTheSame
<1>5. ASSUME JobAnswer(t).reason = "denied-by-user" PROVE DeniedByUser(c)
  <2>1. t \in Presses /\ job[t].outcome # "allow"
    BY <1>5 DEF JobAnswer
  <2>2. job[t].outcome = "deny"
    BY <2>1 DEF OutcomesFit
  <2>3. Pressed(t, job[t].outcome) /\ \E r \in Requests : Card(t) = msg[r] /\ Fits(k, r)
    BY <1>0, <1>1, <2>1 DEF JobFits, Pressed, Card
  <2> QED
    BY <1>4, <2>1, <2>2, <2>3 DEF DeniedByUser
<1>6. JobAnswer(t).reason # "recent-deny"
  BY DEF JobAnswer
<1>7. ASSUME JobAnswer(t).reason = "prompt-timeout" PROVE TimedOut(c)
  <2>1. t \in Requests /\ job[t].outcome # "allow"
    BY <1>7 DEF JobAnswer
  <2>2. job[t].outcome = "deny"
    BY <1>0, <2>1 DEF JobFits
  <2>3. timer[t] = "fired" /\ Fits(k, t)
    BY <1>0, <1>1, <2>1, <2>2, JobRefuses
  <2> QED
    BY <1>4, <2>1, <2>3 DEF TimedOut
<1> QED
  BY <1>5, <1>6, <1>7

\* Every step keeps the reasons of the denials true.
LEMMA NextDenyIsJustified == Inv /\ DenyInv /\ [Next]_vars => DenyIsJustified'
<1> SUFFICES ASSUME Inv, DenyInv, [Next]_vars, NEW r \in Requests
             PROVE  /\ answer'[r].reason = "denied-by-user" => DeniedByUser(r)'
                    /\ answer'[r].reason = "recent-deny" => RecentlyDenied(r)'
                    /\ answer'[r].reason = "prompt-timeout" => TimedOut(r)'
  BY DEF DenyIsJustified, DeniedByUser, RecentlyDenied, TimedOut
<1>0. /\ Stands /\ TypeOK /\ HandlersKnown /\ GroupsFit /\ TimersFit /\ DenialsFit /\ KeysAsk
      /\ OutcomesFit /\ None \notin Keys
      /\ answer[r].reason = "denied-by-user" => DeniedByUser(r)
      /\ answer[r].reason = "recent-deny" => RecentlyDenied(r)
      /\ answer[r].reason = "prompt-timeout" => TimedOut(r)
  BY NextStands, KeysAssumption
     DEF Inv, DenyInv, DenyIsJustified, DeniedByUser, RecentlyDenied, TimedOut
<1>1. /\ \A p \in Presses : Pressed(p, "deny") =>
           Pressed(p, "deny")' /\ Card(p)' = Card(p) /\ job'[p].scope = job[p].scope
      /\ \A g \in Requests : timer[g] = "fired" => timer'[g] = "fired" /\ msg'[g] = msg[g]
  <2>1. \A g \in Requests : timer[g] = "fired" => Known(g)
    BY <1>0 DEF TimersFit, GroupsFit, TypeOK, Fits
  <2> QED
    BY <1>0, <2>1, RefusalsStand
<1>2. ASSUME pc[r] # "idle"
      PROVE  /\ DeniedByUser(r) => DeniedByUser(r)'
             /\ RecentlyDenied(r) => RecentlyDenied(r)'
             /\ TimedOut(r) => TimedOut(r)'
  <2>1. msg'[r] = msg[r]
    BY <1>0, <1>2 DEF Stands
  <2>2. DeniedByUser(r) => DeniedByUser(r)'
    BY <1>1, <2>1 DEF DeniedByUser, SameQuestion, SpeaksFor, Shows, Asked, ViolationNeedsApproval
  <2>3. ASSUME TimedOut(r) PROVE TimedOut(r)'
    <3>1. PICK g \in Requests : timer[g] = "fired" /\ SameQuestion(msg[g], "none", msg[r])
      BY <2>3 DEF TimedOut
    <3>2. timer'[g] = "fired" /\ msg'[g] = msg[g]
      BY <1>1, <3>1
    <3>3. SameQuestion(msg[g], "none", msg[r])'
      BY <2>1, <3>1, <3>2 DEF SameQuestion, SpeaksFor, Shows, Asked, ViolationNeedsApproval
    <3> QED
      BY <3>2, <3>3 DEF TimedOut
  <2>4. ASSUME RecentlyDenied(r) PROVE RecentlyDenied(r)'
    <3>1. CASE TimedOut(r)
      BY <2>3, <3>1 DEF RecentlyDenied
    <3>2. ASSUME NEW p \in Presses, Pressed(p, "deny"), job[p].scope = "none",
                 SameQuestion(Card(p), "none", msg[r])
          PROVE  RecentlyDenied(r)'
      <4>1. Pressed(p, "deny")' /\ job'[p].scope = "none" /\ Card(p)' = Card(p)
        BY <1>1, <3>2
      <4>2. SameQuestion(Card(p), "none", msg[r])'
        BY <2>1, <3>2, <4>1 DEF SameQuestion, SpeaksFor, Shows, Asked, ViolationNeedsApproval
      <4> QED
        BY <4>1, <4>2 DEF RecentlyDenied
    <3> QED
      BY <2>4, <3>1, <3>2 DEF RecentlyDenied
  <2> QED
    BY <2>2, <2>3, <2>4
<1>3. CASE answer'[r] = answer[r]
  BY <1>0, <1>2, <1>3 DEF HandlersKnown, NoAnswer
<1>4. ASSUME NEW q \in Requests, Decide(q), answer'[r] # answer[r]
      PROVE  /\ answer'[r].reason = "denied-by-user" => DeniedByUser(r)'
             /\ answer'[r].reason = "recent-deny" => RecentlyDenied(r)'
             /\ answer'[r].reason = "prompt-timeout" => TimedOut(r)'
  <2>1. q = r /\ pc[r] = "received" /\ answer'[r] = Decision(msg[r])
    BY <1>0, <1>4 DEF Decide, TypeOK
  <2> QED
    BY <1>0, <1>2, <2>1, DecideDenies
<1>5. ASSUME NEW t \in Presses \cup Requests, AuditWritten(t), answer'[r] # answer[r]
      PROVE  /\ answer'[r].reason = "denied-by-user" => DeniedByUser(r)'
             /\ answer'[r].reason = "recent-deny" => RecentlyDenied(r)'
             /\ answer'[r].reason = "prompt-timeout" => TimedOut(r)'
  <2>1. job[t].cur = r /\ job[t].pc = "auditing" /\ pc[r] # "idle" /\ answer'[r] = JobAnswer(t)
    BY <1>0, <1>5 DEF AuditWritten, TypeOK
  <2> QED
    BY <1>0, <1>2, <2>1, JobDenies
<1>6. CASE CloseBegin
  <2>1. answer'[r] = answer[r] \/ answer'[r].reason = "broker closed"
    BY <1>6 DEF CloseBegin, DenyDecision
  <2> QED
    BY <1>3, <2>1
<1>7. CASE \/ UNCHANGED vars \/ Revoke \/ CloseStep \/ \E k \in Keys : Expire(k)
           \/ \E g \in Requests : Timeout(g)
           \/ \E p \in Presses, x \in Requests, o \in {"allow", "deny"}, s \in Scopes :
                 Press(p, x, o, s)
           \/ \E t \in Presses \cup Requests :
                 NotificationClosed(t) \/ EntryRemoved(t) \/ ResolverFails(t)
           \/ \E q \in Requests :
                 \/ \E m \in Messages : Receive(q, m)
                 \/ Reply(q) \/ CreateGroup(q) \/ JoinGroup(q) \/ EntryVisible(q) \/ Rejoin(q)
                 \/ RegisterWaiter(q) \/ Drop(q)
  <2>1. answer' = answer
    BY <1>7, ZenonT(40) DEF Revoke, CloseStep, ClearPolicyState, RemovePendingDir, Expire, Timeout, Press,
                NotificationClosed, EntryRemoved, ResolverFails, Receive, Reply, CreateGroup,
                JoinGroup, EntryVisible, Rejoin, RegisterWaiter, Drop
  <2> QED
    BY <1>3, <2>1
<1> QED
  BY <1>3, <1>4, <1>5, <1>6, <1>7 DEF Next, HandlerStep, JobStep

\* A denial names its reason truly, however late it is given: "denied-by-user" goes back
\* to a deny pressed on a card with this question or one of its violations, "recent-deny"
\* to an unscoped deny or a timeout of the same question, "prompt-timeout" to a timer
\* that fired on it -- for any requests, presses and messages, through the negative cache,
\* the remembered presses and groups that others resolve.
THEOREM DenialJustified == Spec => []DenyIsJustified
<1>1. Init => DenyInv
  BY BrokerAssumption, KeysAssumption
     DEF Init, DenyInv, KeysAsk, OutcomesFit, TimersFit, DenialsFit, DenyIsJustified, NoAnswer,
         Idle, Running
<1>2. Inv /\ DenyInv /\ [Next]_vars => DenyInv'
  BY NextKeysAsk, NextOutcomesFit, NextTimersFit, NextDenialsFit, NextDenyIsJustified DEF DenyInv
<1>3. DenyInv => DenyIsJustified
  BY DEF DenyInv
<1> QED
  BY <1>1, <1>2, <1>3, InvHolds, PTL DEF Spec
=============================================================================
