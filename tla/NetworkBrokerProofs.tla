------------------------- MODULE NetworkBrokerProofs -------------------------
(***************************************************************************)
(* Theorems about NetworkBroker, for any requests, presses and messages.   *)
(***************************************************************************)
EXTENDS NetworkBroker, TLAPS

\* The key a request is filed under is one of the keys.
LEMMA GroupKeyType ==
    ASSUME NEW m \in Messages
    PROVE  GroupKey(m) \in Keys
<1>1. CASE m.kind = "authorize"
  BY <1>1 DEF GroupKey, Keys
<1>2. CASE m.kind # "authorize"
  <2>1. m.kind = "violation"
    BY <1>2, BrokerAssumption
  <2>2. Identities(m) \ approvedV \in SUBSET Identities(m)
    OBVIOUS
  <2> QED
    BY <1>2, <2>1, <2>2 DEF GroupKey, Keys
<1> QED
  BY <1>1, <1>2

\* What a handler answers at once is an answer.
LEMMA DecisionType ==
    ASSUME NEW m
    PROVE  Decision(m) \in Answers
<1>1. AuthorizeDecision(m) \in Answers
  BY DEF AuthorizeDecision, DenyDecision, AllowDecision, DecorateAllow, NoAnswer, Answers
<1>2. ReviewDecision(m) \in Answers
  BY DEF ReviewDecision, DenyDecision, AllowDecision, NoAnswer, Answers
<1> QED
  BY <1>1, <1>2 DEF Decision

\* What a press on a card adds to the memory of its kind belongs there.
LEMMA KeyMemory ==
    ASSUME NEW k \in Keys
    PROVE  /\ k.kind \in {"authorize", "violation"}
           /\ k.kind = "authorize" =>
                \A s \in {"rule", "host-port", "host"} : ApprovalKey(k, s) \in AuthorizeIdentities
           /\ k.kind = "violation" => k.ids \subseteq ViolationIdentities
<1>1. CASE \E m \in Messages : m.kind = "authorize" /\ k = PendingGroupKey(m)
  <2>1. PICK m \in Messages : m.kind = "authorize" /\ k = PendingGroupKey(m)
    BY <1>1
  <2>2. k.kind = "authorize"
    BY <2>1 DEF PendingGroupKey
  <2>3. \A s : ApprovalKey(k, s) = ApprovalKey(m, s)
    BY <2>1 DEF PendingGroupKey, ApprovalKey
  <2> QED
    BY <2>1, <2>2, <2>3 DEF AuthorizeIdentities, ApprovalKeys
<1>2. CASE \E m \in Messages : m.kind = "violation" /\
              \E ids \in SUBSET Identities(m) : k = ViolationGroupKey(m.rule, ids)
  <2>1. PICK m \in Messages : m.kind = "violation" /\
              \E ids \in SUBSET Identities(m) : k = ViolationGroupKey(m.rule, ids)
    BY <1>2
  <2>2. k.kind = "violation" /\ k.ids \subseteq Identities(m)
    BY <2>1 DEF ViolationGroupKey
  <2> QED
    BY <2>1, <2>2 DEF ViolationIdentities
<1> QED
  BY <1>1, <1>2 DEF Keys

-----------------------------------------------------------------------------
(* Types. *)

USE DEF vars, handlers, grouping, remembered, disk

\* The handler's steps keep the types.
LEMMA HandlerTypes ==
    ASSUME Inv, NEW r \in Requests,
           (\E m \in Messages : Receive(r, m)) \/ HandlerStep(r) \/ Drop(r)
    PROVE  TypeOK'
<1> USE DEF Inv, TypeOK
<1>1. CASE \E m \in Messages : Receive(r, m)
  BY <1>1 DEF Receive
<1>2. CASE Decide(r)
  BY <1>2, DecisionType DEF Decide
<1>3. CASE Reply(r)
  BY <1>3 DEF Reply
<1>4. CASE CreateGroup(r)
  <2>1. GroupKey(msg[r]) \in Keys
    BY <1>4, GroupKeyType DEF CreateGroup, HandlersKnown, Known
  <2> QED
    BY <1>4, <2>1 DEF CreateGroup
<1>5. CASE JoinGroup(r)
  <2>1. GroupKey(msg[r]) \in Keys
    BY <1>5, GroupKeyType DEF JoinGroup, HandlersKnown, Known
  <2> QED
    BY <1>5, <2>1 DEF JoinGroup
<1>6. CASE EntryVisible(r)
  BY <1>6 DEF EntryVisible
<1>7. CASE Rejoin(r)
  BY <1>7 DEF Rejoin
<1>8. CASE RegisterWaiter(r)
  BY <1>8 DEF RegisterWaiter, HandlersKnown
<1>9. CASE Drop(r)
  BY <1>9 DEF Drop
<1> QED
  BY <1>1, <1>2, <1>3, <1>4, <1>5, <1>6, <1>7, <1>8, <1>9 DEF HandlerStep

\* Remembering a press keeps the memories apart.
LEMMA RememberTypes ==
    ASSUME TypeOK, NEW k \in Keys, NEW scope, NEW outcome, Remember(k, scope, outcome)
    PROVE  /\ approved' \subseteq AuthorizeIdentities /\ denied' \subseteq AuthorizeIdentities
           /\ approvedV' \subseteq ViolationIdentities /\ deniedV' \subseteq ViolationIdentities
<1>1. CASE k.kind = "authorize"
  BY <1>1, KeyMemory DEF Remember, TypeOK
<1>2. CASE k.kind = "violation"
  BY <1>2, KeyMemory DEF Remember, TypeOK
<1> QED
  BY <1>1, <1>2, KeyMemory

\* Presses and timers keep the types.
LEMMA ResolveTypes ==
    ASSUME Inv, NEW t \in Presses \cup Requests, NEW g \in Requests,
           NEW outcome \in {"allow", "deny"}, NEW scope \in Scopes,
           NEW target \in Requests \cup {None},
           \/ ResolveGroup(t, g, outcome, scope, target)
           \/ target \in Requests /\ ResolveRequest(t, g, outcome, target)
    PROVE  /\ groups' \in [Keys -> Requests \cup {None}]
           /\ keyOf' \in [Requests -> Keys \cup {None}]
           /\ members' \in [Requests -> SUBSET Requests]
           /\ waiters' \in [Requests -> SUBSET Requests]
           /\ index' \in [Requests -> Keys \cup {None}]
           /\ job' \in [Presses \cup Requests -> Jobs]
<1> USE DEF Inv, TypeOK
<1>0. Idle \in Jobs
  BY DEF Idle, Jobs, Scopes
<1>1. CASE ResolveGroup(t, g, outcome, scope, target)
  BY <1>0, <1>1 DEF ResolveGroup, Idle, Jobs
<1>2. CASE target \in Requests /\ ResolveRequest(t, g, outcome, target)
  <2>1. job' \in [Presses \cup Requests -> Jobs]
    BY <1>0, <1>2 DEF ResolveRequest, Idle, Jobs, Scopes
  <2> QED
    BY <1>2, <2>1 DEF ResolveRequest
<1> QED
  BY <1>1, <1>2

\* A press or a timer keeps the types.
LEMMA PressTypes ==
    ASSUME Inv,
           \/ \E p \in Presses, r \in Requests, o \in {"allow", "deny"}, s \in Scopes :
                 Press(p, r, o, s)
           \/ \E g \in Requests : Timeout(g)
    PROVE  TypeOK'
<1>1. ASSUME NEW p \in Presses, NEW r \in Requests, NEW o \in {"allow", "deny"},
             NEW s \in Scopes, Press(p, r, o, s)
      PROVE  TypeOK'
  <2> DEFINE g == FindGroupByRequestId(r)
             selected == IF o = "allow" /\ s = "none" THEN "once" ELSE s
  <2>1. g \in Requests /\ keyOf[g] \in Keys
    BY <1>1, KeysAssumption DEF Press, Inv, TypeOK, GroupsFit, FindGroupByRequestId
  <2>2. selected \in Scopes
    BY DEF Scopes
  <2>3. Remember(keyOf[g], selected, o)
    BY <1>1 DEF Press
  <2>4. \/ ResolveGroup(p, g, o, selected, r) /\ timer' = [timer EXCEPT ![g] = "cleared"]
        \/ ResolveRequest(p, g, o, r)
    BY <1>1 DEF Press
  <2>5. /\ approved' \subseteq AuthorizeIdentities /\ denied' \subseteq AuthorizeIdentities
        /\ approvedV' \subseteq ViolationIdentities /\ deniedV' \subseteq ViolationIdentities
    BY <2>1, <2>3, RememberTypes DEF Inv
  <2>6. timer' \in [Requests -> {"unset", "armed", "cleared", "fired"}]
    BY <2>1, <2>4 DEF ResolveRequest, Inv, TypeOK
  <2>7. UNCHANGED <<handlers, negCache, disk, credential, closing>>
    BY <1>1 DEF Press
  <2> HIDE DEF g, selected
  <2>8. /\ groups' \in [Keys -> Requests \cup {None}]
        /\ keyOf' \in [Requests -> Keys \cup {None}]
        /\ members' \in [Requests -> SUBSET Requests]
        /\ waiters' \in [Requests -> SUBSET Requests]
        /\ index' \in [Requests -> Keys \cup {None}]
        /\ job' \in [Presses \cup Requests -> Jobs]
    BY <2>1, <2>2, <2>4, ResolveTypes
  <2> QED
    BY <2>5, <2>6, <2>7, <2>8 DEF Inv, TypeOK
<1>2. ASSUME NEW g \in Requests, Timeout(g)
      PROVE  TypeOK'
  <2>1. CASE groups[keyOf[g]] = None
    BY <1>2, <2>1 DEF Timeout, Inv, TypeOK
  <2>2. CASE groups[keyOf[g]] # None
    <3>1. groups[keyOf[g]] \in Requests /\ ResolveGroup(g, groups[keyOf[g]], "deny", "none", None)
      BY <1>2, <2>2 DEF Timeout, Inv, TypeOK, GroupsFit
    <3>2. /\ groups' \in [Keys -> Requests \cup {None}]
          /\ keyOf' \in [Requests -> Keys \cup {None}]
          /\ members' \in [Requests -> SUBSET Requests]
          /\ waiters' \in [Requests -> SUBSET Requests]
          /\ index' \in [Requests -> Keys \cup {None}]
          /\ job' \in [Presses \cup Requests -> Jobs]
      BY <3>1, ResolveTypes DEF Scopes
    <3>3. timer' \in [Requests -> {"unset", "armed", "cleared", "fired"}]
      BY <1>2, <2>2, <3>1 DEF Timeout, Inv, TypeOK
    <3>4. UNCHANGED <<handlers, remembered, negCache, disk, credential, closing>>
      BY <1>2 DEF Timeout
    <3> QED
      BY <3>2, <3>3, <3>4 DEF Inv, TypeOK
  <2> QED
    BY <2>1, <2>2
<1> QED
  BY <1>1, <1>2

\* What a resolver leaves behind is a resolver's record.
LEMMA EndedType ==
    ASSUME TypeOK, NEW t \in Presses \cup Requests, NEW how \in {"done", "aborted"}
    PROVE  Ended(t, how) \in Jobs
<1>1. job[t] \in Jobs
  BY DEF TypeOK
<1> QED
  BY <1>1 DEF Ended, Jobs

\* The loop of a resolver keeps the types of what it changes.
LEMMA TakeNextTypes ==
    ASSUME Inv, NEW t \in Presses \cup Requests, job[t].group \in Requests,
           NEW visited \in SUBSET Requests, TakeNext(t, visited)
    PROVE  job' \in [Presses \cup Requests -> Jobs] /\ index' \in [Requests -> Keys \cup {None}]
<1>0. job[t] \in Jobs /\ members[job[t].group] \in SUBSET Requests
  BY DEF Inv, TypeOK
<1>1. CASE members[job[t].group] \ visited = {} /\ index' = index
           /\ job' = [job EXCEPT ![t] = Ended(t, "done")]
  BY <1>1, EndedType DEF Inv, TypeOK
<1>2. ASSUME NEW c \in members[job[t].group] \ visited,
             job' = [job EXCEPT ![t].pc = "removing", ![t].cur = c,
                                ![t].visited = visited \cup {c}],
             index' = [index EXCEPT ![c] = None]
      PROVE  /\ job' \in [Presses \cup Requests -> Jobs]
             /\ index' \in [Requests -> Keys \cup {None}]
  <2>1. c \in Requests
    BY <1>0, <1>2
  <2>2. [job[t] EXCEPT !.pc = "removing", !.cur = c, !.visited = visited \cup {c}] \in Jobs
    BY <1>0, <2>1 DEF Jobs
  <2>3. job' = [job EXCEPT ![t] =
                  [job[t] EXCEPT !.pc = "removing", !.cur = c, !.visited = visited \cup {c}]]
    BY <1>2 DEF Inv, TypeOK
  <2>4. job' \in [Presses \cup Requests -> Jobs]
    BY <2>2, <2>3 DEF Inv, TypeOK
  <2>5. index' \in [Requests -> Keys \cup {None}]
    BY <1>2, <2>1 DEF Inv, TypeOK
  <2> QED
    BY <2>4, <2>5
<1> QED
  BY <1>1, <1>2 DEF TakeNext

\* A resolver keeps the types.
LEMMA JobTypes ==
    ASSUME Inv, NEW t \in Presses \cup Requests, JobStep(t) \/ ResolverFails(t)
    PROVE  TypeOK'
<1>0. job[t] \in Jobs /\ job[t].visited \in SUBSET Requests
  BY DEF Inv, TypeOK, Jobs
<1>1. CASE NotificationClosed(t)
  <2>1. job[t].group \in Requests /\ keyOf[job[t].group] \in Keys
    BY <1>1 DEF NotificationClosed, Inv, JobsFit, JobFits, Running, TypeOK
  <2>2. CASE job[t].scope = "once"
    <3>0. [job[t] EXCEPT !.pc = "removing"] \in Jobs
      BY <1>0 DEF Jobs
    <3>1. job' \in [Presses \cup Requests -> Jobs]
      BY <1>1, <2>2, <3>0 DEF NotificationClosed, Inv, TypeOK
    <3>2. UNCHANGED <<handlers, grouping, remembered, negCache, disk, credential, closing>>
      BY <1>1, <2>2 DEF NotificationClosed
    <3> QED
      BY <3>1, <3>2 DEF Inv, TypeOK
  <2>3. CASE job[t].scope # "once"
    <3>1. TakeNext(t, {})
      BY <1>1, <2>3 DEF NotificationClosed
    <3>2. job' \in [Presses \cup Requests -> Jobs] /\ index' \in [Requests -> Keys \cup {None}]
      BY <2>1, <3>1, TakeNextTypes
    <3> QED
      BY <1>1, <2>1, <2>3, <3>2 DEF NotificationClosed, Inv, TypeOK
  <2> QED
    BY <2>2, <2>3
<1>2. CASE EntryRemoved(t)
  <2>1. DecorateAllow(msg[job[t].cur]) \in {"host", "container"}
    BY DEF DecorateAllow
  <2>2. job' \in [Presses \cup Requests -> Jobs]
    <3>1. [job[t] EXCEPT !.pc = "auditing", !.headers = DecorateAllow(msg[job[t].cur])] \in Jobs
      BY <1>0, <2>1 DEF Jobs
    <3> QED
      BY <1>2, <3>1 DEF EntryRemoved, Inv, TypeOK
  <2>3. UNCHANGED <<handlers, grouping, remembered, negCache, shown, credential, closing>>
        /\ files' \subseteq files
    BY <1>2 DEF EntryRemoved
  <2> QED
    BY <2>2, <2>3 DEF Inv, TypeOK
<1>3. CASE AuditWritten(t)
  <2>1. job[t].group \in Requests
    BY <1>3 DEF AuditWritten, Inv, JobsFit, JobFits, Running
  <2>2. JobAnswer(t) \in Answers
    BY <1>0 DEF JobAnswer, Answers, Jobs
  <2>3. job' \in [Presses \cup Requests -> Jobs] /\ index' \in [Requests -> Keys \cup {None}]
    <3>1. CASE job[t].scope = "once"
      BY <1>3, <3>1, EndedType DEF AuditWritten, Inv, TypeOK
    <3>2. CASE job[t].scope # "once"
      BY <1>0, <1>3, <2>1, <3>2, TakeNextTypes DEF AuditWritten
    <3> QED
      BY <3>1, <3>2
  <2>4. /\ pc' \in [Requests -> {"idle", "received", "audit", "writing", "written", "rewriting",
                                 "rewritten", "waiting", "replied", "dropped"}]
        /\ answer' \in [Requests -> Answers]
    BY <1>3, <2>2 DEF AuditWritten, Inv, TypeOK
  <2> QED
    BY <1>3, <2>3, <2>4 DEF AuditWritten, Inv, TypeOK
<1>4. CASE ResolverFails(t)
  <2>1. job' \in [Presses \cup Requests -> Jobs]
    BY <1>4, EndedType DEF ResolverFails, Inv, TypeOK
  <2>2. UNCHANGED <<handlers, grouping, remembered, negCache, disk, credential, closing>>
    BY <1>4 DEF ResolverFails
  <2> QED
    BY <2>1, <2>2 DEF Inv, TypeOK
<1> QED
  BY <1>1, <1>2, <1>3, <1>4 DEF JobStep

\* The outside world and close() keep the types.
LEMMA OtherTypes ==
    ASSUME Inv, (\E k \in Keys : Expire(k)) \/ Revoke \/ CloseBegin \/ CloseStep
    PROVE  TypeOK'
<1> USE DEF Inv, TypeOK
<1>1. CASE \E k \in Keys : Expire(k)
  BY <1>1 DEF Expire
<1>2. CASE Revoke
  BY <1>2 DEF Revoke
<1>3. CASE CloseBegin
  <2>1. DenyDecision("broker closed") \in Answers
    BY DEF DenyDecision, Answers
  <2> QED
    BY <1>3, <2>1 DEF CloseBegin
<1>4. CASE ClearPolicyState
  BY <1>4 DEF ClearPolicyState
<1>5. CASE RemovePendingDir
  BY <1>5 DEF RemovePendingDir
<1> QED
  BY <1>1, <1>2, <1>3, <1>4, <1>5 DEF CloseStep

\* Every step keeps the types.
LEMMA NextTypes == Inv /\ [Next]_vars => TypeOK'
<1>1. ASSUME Inv, UNCHANGED vars
      PROVE  TypeOK'
  BY <1>1 DEF Inv, TypeOK
<1> QED
  BY <1>1, HandlerTypes, PressTypes, JobTypes, OtherTypes DEF Next

-----------------------------------------------------------------------------
(* What stands once it is there: a message, a press, the key of a group. *)

Stands ==
    /\ \A r \in Requests : pc[r] # "idle" => pc'[r] # "idle" /\ msg'[r] = msg[r]
    /\ \A p \in Presses : job[p].pc # "idle" =>
         /\ job'[p].pc # "idle" /\ job'[p].outcome = job[p].outcome
         /\ job'[p].scope = job[p].scope /\ job'[p].target = job[p].target
    /\ \A g \in Requests : keyOf[g] # None => keyOf'[g] = keyOf[g]

\* The loop of a resolver changes none of what was pressed.
LEMMA TakeNextStands ==
    ASSUME Inv, NEW t \in Presses \cup Requests, job[t].group \in Requests, NEW visited,
           TakeNext(t, visited), NEW p \in Presses, job[p].pc # "idle"
    PROVE  /\ job'[p].pc # "idle" /\ job'[p].outcome = job[p].outcome
           /\ job'[p].scope = job[p].scope /\ job'[p].target = job[p].target
<1>0. job[t] \in Jobs /\ job[p] \in Jobs /\ job \in [Presses \cup Requests -> Jobs]
  BY DEF Inv, TypeOK
<1>1. CASE job' = [job EXCEPT ![t] = Ended(t, "done")]
  BY <1>0, <1>1 DEF Ended, Jobs
<1>2. ASSUME NEW c, job' = [job EXCEPT ![t].pc = "removing", ![t].cur = c,
                                       ![t].visited = visited \cup {c}]
      PROVE  /\ job'[p].pc # "idle" /\ job'[p].outcome = job[p].outcome
             /\ job'[p].scope = job[p].scope /\ job'[p].target = job[p].target
  BY <1>0, <1>2 DEF Jobs
<1> QED
  BY <1>1, <1>2 DEF TakeNext

\* Every step lets them stand.
LEMMA NextStands == Inv /\ [Next]_vars => Stands
<1> SUFFICES ASSUME Inv, [Next]_vars PROVE Stands
  OBVIOUS
<1>0. /\ TypeOK /\ GroupsFit /\ job \in [Presses \cup Requests -> Jobs]
      /\ Requests \cap Presses = {}
  BY BrokerAssumption DEF Inv, TypeOK
<1>1. CASE UNCHANGED vars
  BY <1>1 DEF Stands
<1>2. ASSUME NEW r \in Requests, NEW m \in Messages, Receive(r, m)
      PROVE  Stands
  BY <1>0, <1>2 DEF Receive, Stands, TypeOK
<1>3. ASSUME NEW r \in Requests, HandlerStep(r) \/ Drop(r)
      PROVE  Stands
  <2>1. CASE CreateGroup(r)
    <3>1. keyOf[r] = None
      BY <1>0, <2>1 DEF CreateGroup, GroupsFit
    <3> QED
      BY <1>0, <2>1, <3>1 DEF CreateGroup, Stands, TypeOK
  <2>2. CASE ~CreateGroup(r)
    BY <1>0, <1>3, <2>2 DEF HandlerStep, Decide, Reply, JoinGroup, EntryVisible, Rejoin,
                            RegisterWaiter, Drop, Stands, TypeOK
  <2> QED
    BY <2>1, <2>2
<1>4. ASSUME NEW p \in Presses, NEW r \in Requests, NEW o \in {"allow", "deny"},
             NEW s \in Scopes, Press(p, r, o, s)
      PROVE  Stands
  <2>1. job[p].pc = "idle" /\ UNCHANGED <<handlers, keyOf>>
    BY <1>4 DEF Press, ResolveGroup, ResolveRequest
  <2>2. \E j : job' = [job EXCEPT ![p] = j]
    BY <1>4 DEF Press, ResolveGroup, ResolveRequest
  <2> QED
    BY <1>0, <2>1, <2>2 DEF Stands
<1>5. ASSUME NEW g \in Requests, Timeout(g)
      PROVE  Stands
  <2>1. UNCHANGED <<handlers, keyOf>>
    BY <1>5 DEF Timeout, ResolveGroup
  <2>2. job' = job \/ \E j : job' = [job EXCEPT ![g] = j]
    BY <1>5 DEF Timeout, ResolveGroup
  <2> QED
    BY <1>0, <2>1, <2>2 DEF Stands
<1>6. ASSUME NEW t \in Presses \cup Requests, JobStep(t) \/ ResolverFails(t)
      PROVE  Stands
  <2>1. UNCHANGED <<msg, keyOf>> /\ \A r \in Requests : pc[r] # "idle" => pc'[r] # "idle"
    BY <1>0, <1>6 DEF JobStep, NotificationClosed, EntryRemoved, AuditWritten, ResolverFails, TypeOK
  <2>2. ASSUME NEW p \in Presses, job[p].pc # "idle"
        PROVE  /\ job'[p].pc # "idle" /\ job'[p].outcome = job[p].outcome
               /\ job'[p].scope = job[p].scope /\ job'[p].target = job[p].target
    <3>0. job[t] \in Jobs /\ job[p] \in Jobs
      BY <1>0
    <3>1. CASE \E v : TakeNext(t, v)
      <4>1. job[t].group \in Requests
        BY <1>6, <3>1 DEF Inv, JobsFit, JobFits, Running, JobStep, NotificationClosed, EntryRemoved,
                          AuditWritten, ResolverFails
      <4> QED
        BY <2>2, <3>1, <4>1, TakeNextStands
    <3>2. CASE job' = [job EXCEPT ![t].pc = "removing"]
      BY <1>0, <2>2, <3>0, <3>2 DEF Jobs
    <3>3. CASE \E how \in {"done", "aborted"} : job' = [job EXCEPT ![t] = Ended(t, how)]
      BY <1>0, <2>2, <3>0, <3>3 DEF Jobs, Ended
    <3>4. CASE EntryRemoved(t)
      BY <1>0, <2>2, <3>0, <3>4 DEF EntryRemoved, Jobs
    <3> QED
      BY <1>6, <3>1, <3>2, <3>3, <3>4 DEF JobStep, NotificationClosed, AuditWritten, ResolverFails
  <2> QED
    BY <2>1, <2>2 DEF Stands
<1>7. CASE (\E k \in Keys : Expire(k)) \/ Revoke \/ CloseBegin \/ CloseStep
  BY <1>0, <1>7 DEF Expire, Revoke, CloseBegin, CloseStep, ClearPolicyState, RemovePendingDir,
                    Stands, TypeOK
<1> QED
  BY <1>1, <1>2, <1>3, <1>4, <1>5, <1>6, <1>7 DEF Next

\* So whatever a person said keeps being said, and a key that fits keeps fitting.
LEMMA FactsStand ==
    ASSUME Inv, Stands
    PROVE  /\ \A r \in Requests : Known(r) => Known(r)'
           /\ \A r \in Requests : PressedOnce(r) => PressedOnce(r)'
           /\ \A m : PressedWide(m) => PressedWide(m)'
           /\ \A rule, f : PressedFinding(rule, f) => PressedFinding(rule, f)'
           /\ \A k : \A r \in Requests : Fits(k, r) => Fits(k, r)'
<1>1. \A r \in Requests : Known(r) => Known(r)'
  BY DEF Stands, Known
<1>2. \A p \in Presses : job[p].pc # "idle" => Card(p)' = Card(p)
  BY DEF Stands, Inv, JobsFit, JobFits, Known, Card
<1>3. \A r \in Requests : PressedOnce(r) => PressedOnce(r)'
  BY DEF Stands, PressedOnce, Pressed
<1>4. \A m : PressedWide(m) => PressedWide(m)'
  BY <1>2 DEF Stands, PressedWide, Pressed
<1>5. \A rule, f : PressedFinding(rule, f) => PressedFinding(rule, f)'
  BY <1>2 DEF Stands, PressedFinding, Pressed
<1>6. \A k : \A r \in Requests : Fits(k, r) => Fits(k, r)'
  BY <1>1, <1>5 DEF Stands, Fits, Known
<1> QED
  BY <1>1, <1>3, <1>4, <1>5, <1>6

-----------------------------------------------------------------------------
(* The invariant, part by part. *)

\* A finding whose identity is remembered as approved was on a card a person approved.
LEMMA RememberedFinding ==
    ASSUME Inv, NEW rule, NEW f, ViolationKey(rule, f) \in approvedV
    PROVE  PressedFinding(rule, f)
<1>1. PICK p \in Presses : /\ Pressed(p, "allow") /\ job[p].scope = "violation"
                           /\ Card(p).kind = "violation"
                           /\ ViolationKey(rule, f) \in Identities(Card(p))
  BY DEF Inv, MemoryFits
<1>2. PICK x \in Asked(Card(p)) : ViolationKey(rule, f) = ViolationKey(Card(p).rule, x)
  BY <1>1 DEF Identities
<1>3. x \in Card(p).findings /\ Card(p).rule = rule /\ x.expect = f.expect /\ x.value = f.value
  BY <1>2 DEF Asked, ViolationKey
<1> QED
  BY <1>1, <1>3 DEF PressedFinding, Shows

\* A request that nobody has decided yet fits the key it is filed under.
LEMMA NewKeyFits ==
    ASSUME Inv, NEW r \in Requests, pc[r] = "received", Decision(msg[r]) = NoAnswer
    PROVE  Fits(GroupKey(msg[r]), r)
<1> DEFINE m == msg[r]
<1>1. Known(r) /\ m \in Messages
  BY DEF Inv, HandlersKnown, Known
<1>2. m.principal \in {"agent", "dind"} /\ m.kind \in {"authorize", "violation"}
  BY <1>1, BrokerAssumption
<1>3. CASE m.kind = "authorize"
  <2>1. AuthorizeDecision(m) = NoAnswer
    BY <1>3 DEF Decision
  <2>2. m.principal = "agent"
    <3>1. SUFFICES ASSUME m.principal = "dind" PROVE FALSE
      BY <1>2
    <3> QED
      BY <1>1, <1>3, <2>1, <3>1, BrokerAssumption
         DEF AuthorizeDecision, NoAnswer, DenyDecision, AllowDecision
  <2>3. GroupKey(m) = PendingGroupKey(m) /\ GroupKey(m).kind = "authorize"
    BY <1>3 DEF GroupKey, PendingGroupKey
  <2> QED
    BY <1>1, <1>3, <2>2, <2>3 DEF Fits
<1>4. CASE m.kind = "violation"
  <2>1. ReviewDecision(m) = NoAnswer
    BY <1>4 DEF Decision
  <2>2. m.principal = "agent"
    BY <1>2, <2>1 DEF ReviewDecision, NoAnswer, DenyDecision
  <2>3. /\ GroupKey(m).kind = "violation" /\ GroupKey(m).rule = m.rule
        /\ GroupKey(m).ids = Identities(m) \ approvedV
    BY <1>4 DEF GroupKey, ViolationGroupKey
  <2>4. \A f \in Asked(m) :
          ViolationKey(m.rule, f) \in GroupKey(m).ids \/ PressedFinding(m.rule, f)
    <3> SUFFICES ASSUME NEW f \in Asked(m), ViolationKey(m.rule, f) \notin GroupKey(m).ids
                 PROVE  PressedFinding(m.rule, f)
      OBVIOUS
    <3>1. ViolationKey(m.rule, f) \in approvedV
      BY <2>3 DEF Identities
    <3> QED
      BY <3>1, RememberedFinding
  <2> QED
    BY <1>1, <1>4, <2>2, <2>3, <2>4 DEF Fits
<1> QED
  BY <1>2, <1>3, <1>4

\* Handlers that have begun know their message, and their group once they have one.
LEMMA NextHandlersKnown == Inv /\ [Next]_vars => HandlersKnown'
<1> SUFFICES ASSUME Inv, [Next]_vars PROVE HandlersKnown'
  OBVIOUS
<1>0. Stands /\ TypeOK /\ HandlersKnown /\ KeysAssumption
  BY NextStands, KeysAssumption DEF Inv
<1>1. SUFFICES ASSUME NEW r \in Requests
               PROVE  /\ IF pc'[r] = "idle" THEN answer'[r] = NoAnswer ELSE Known(r)'
                      /\ pc'[r] \in {"writing", "written", "rewriting", "rewritten", "waiting"} =>
                           joined'[r] \in Requests /\ keyOf'[joined'[r]] # None
  BY DEF HandlersKnown
<1>2. ASSUME NEW m \in Messages, NEW q \in Requests, Receive(q, m)
      PROVE  /\ IF pc'[r] = "idle" THEN answer'[r] = NoAnswer ELSE Known(r)'
             /\ pc'[r] \in {"writing", "written", "rewriting", "rewritten", "waiting"} =>
                  joined'[r] \in Requests /\ keyOf'[joined'[r]] # None
  BY <1>0, <1>2 DEF Receive, TypeOK, HandlersKnown, Known
<1>3. ASSUME NEW q \in Requests, CreateGroup(q) \/ JoinGroup(q)
      PROVE  /\ IF pc'[r] = "idle" THEN answer'[r] = NoAnswer ELSE Known(r)'
             /\ pc'[r] \in {"writing", "written", "rewriting", "rewritten", "waiting"} =>
                  joined'[r] \in Requests /\ keyOf'[joined'[r]] # None
  <2>0. msg' = msg /\ \A x \in Requests : pc[x] # "idle" => Known(x)'
    BY <1>0, <1>3 DEF HandlersKnown, Stands, Known, CreateGroup, JoinGroup
  <2>1. GroupKey(msg[q]) \in Keys /\ GroupKey(msg[q]) # None
    BY <1>0, <1>3, GroupKeyType DEF CreateGroup, JoinGroup, HandlersKnown, Known, KeysAssumption
  <2>2. CASE CreateGroup(q)
    BY <1>0, <2>0, <2>1, <2>2 DEF CreateGroup, TypeOK, HandlersKnown, Stands
  <2>3. CASE JoinGroup(q)
    <3>1. groups[GroupKey(msg[q])] \in Requests /\ keyOf[groups[GroupKey(msg[q])]] # None
      BY <1>0, <2>1, <2>3 DEF JoinGroup, TypeOK, Inv, GroupsFit
    <3> QED
      BY <1>0, <2>0, <2>3, <3>1 DEF JoinGroup, TypeOK, HandlersKnown, Stands
  <2> QED
    BY <1>3, <2>2, <2>3
<1>4. CASE /\ UNCHANGED <<msg, joined>>
           /\ pc[r] = "idle" => answer'[r] = answer[r]
           /\ pc'[r] # pc[r] =>
                /\ pc[r] # "idle"
                /\ \/ pc'[r] \in {"audit", "replied", "dropped"}
                   \/ pc[r] \in {"writing", "written", "rewriting", "rewritten"}
  BY <1>0, <1>4 DEF HandlersKnown, Known, Stands
<1>5. ASSUME NEW q \in Requests,
             \/ Decide(q) \/ Reply(q) \/ EntryVisible(q) \/ Rejoin(q) \/ RegisterWaiter(q) \/ Drop(q)
      PROVE  /\ UNCHANGED <<msg, joined>>
             /\ pc[r] = "idle" => answer'[r] = answer[r]
             /\ pc'[r] # pc[r] =>
                  /\ pc[r] # "idle"
                  /\ \/ pc'[r] \in {"audit", "replied", "dropped"}
                     \/ pc[r] \in {"writing", "written", "rewriting", "rewritten"}
  BY <1>0, <1>5 DEF Decide, Reply, EntryVisible, Rejoin, RegisterWaiter, Drop, TypeOK
<1>6. ASSUME NEW t \in Presses \cup Requests, JobStep(t) \/ ResolverFails(t)
      PROVE  /\ UNCHANGED <<msg, joined>>
             /\ pc[r] = "idle" => answer'[r] = answer[r]
             /\ pc'[r] # pc[r] => pc[r] # "idle" /\ pc'[r] = "replied"
  BY <1>0, <1>6 DEF JobStep, NotificationClosed, EntryRemoved, AuditWritten, ResolverFails, TypeOK
<1>7. CASE CloseBegin
  BY <1>0, <1>4, <1>7 DEF CloseBegin, TypeOK
<1>8. CASE \/ UNCHANGED vars \/ Revoke \/ CloseStep \/ \E k \in Keys : Expire(k)
           \/ \E g \in Requests : Timeout(g)
           \/ \E q \in Presses, x \in Requests, o \in {"allow", "deny"}, s \in Scopes : Press(q, x, o, s)
  BY <1>4, <1>8 DEF Revoke, CloseStep, ClearPolicyState, RemovePendingDir, Expire, Timeout, Press
<1> QED
  BY <1>2, <1>3, <1>4, <1>5, <1>6, <1>7, <1>8 DEF Next, HandlerStep

\* The index leads to a key that fits.
LEMMA NextIndexFits == Inv /\ [Next]_vars => IndexFits'
<1> SUFFICES ASSUME Inv, [Next]_vars, NEW r \in Requests, NEW k \in Keys, index'[r] = k
             PROVE  Fits(k, r)'
  BY DEF IndexFits
<1>0. /\ TypeOK /\ IndexFits /\ GroupsFit /\ None \notin Keys
      /\ Fits(k, r) => Fits(k, r)'
  BY NextStands, FactsStand, KeysAssumption DEF Inv
<1>1. CASE index'[r] = index[r]
  BY <1>0, <1>1 DEF IndexFits
<1>2. ASSUME NEW q \in Requests, CreateGroup(q) \/ JoinGroup(q), index'[r] # index[r]
      PROVE  Fits(k, r)'
  <2>1. r = q /\ k = GroupKey(msg[r])
    BY <1>0, <1>2 DEF CreateGroup, JoinGroup, TypeOK
  <2>2. Fits(GroupKey(msg[r]), r)
    BY <1>2, <2>1, NewKeyFits DEF CreateGroup, JoinGroup
  <2> QED
    BY <1>0, <2>1, <2>2
<1>3. ASSUME NEW q \in Requests, Rejoin(q), index'[r] # index[r]
      PROVE  Fits(k, r)'
  <2>1. r = q /\ k = keyOf[r]
    BY <1>0, <1>3 DEF Rejoin, TypeOK
  <2> QED
    BY <1>0, <2>1 DEF GroupsFit
<1>4. ASSUME NEW q \in Requests,
             \/ \E m \in Messages : Receive(q, m)
             \/ Decide(q) \/ Reply(q) \/ EntryVisible(q) \/ RegisterWaiter(q) \/ Drop(q)
      PROVE  index'[r] = index[r]
  BY <1>4 DEF Receive, Decide, Reply, EntryVisible, RegisterWaiter, Drop
<1>5. ASSUME NEW q \in Presses, NEW x \in Requests, NEW o \in {"allow", "deny"}, NEW s \in Scopes,
             Press(q, x, o, s)
      PROVE  index'[r] = index[r]
  BY <1>0, <1>5 DEF Press, ResolveGroup, ResolveRequest, TypeOK
<1>6. ASSUME NEW t \in Presses \cup Requests, JobStep(t) \/ ResolverFails(t)
      PROVE  index'[r] = index[r]
  BY <1>0, <1>6 DEF JobStep, NotificationClosed, EntryRemoved, AuditWritten, ResolverFails,
                    TakeNext,
                    TypeOK
<1>7. CASE \/ UNCHANGED vars \/ Revoke \/ CloseBegin \/ CloseStep \/ \E c \in Keys : Expire(c)
           \/ \E g \in Requests : Timeout(g)
  BY <1>0, <1>1, <1>7 DEF Revoke, CloseBegin, CloseStep, ClearPolicyState, RemovePendingDir, Expire,
                         Timeout, ResolveGroup, TypeOK
<1> QED
  BY <1>1, <1>2, <1>3, <1>4, <1>5, <1>6, <1>7 DEF Next, HandlerStep

\* The keys of the groups fit.
LEMMA NextGroupsFit == Inv /\ [Next]_vars => GroupsFit'
<1> SUFFICES ASSUME Inv, [Next]_vars PROVE GroupsFit'
  OBVIOUS
<1>0. /\ TypeOK /\ TypeOK' /\ GroupsFit /\ HandlersKnown /\ None \notin Keys
      /\ \A k : \A x \in Requests : Fits(k, x) => Fits(k, x)'
  BY NextStands, NextTypes, FactsStand, KeysAssumption DEF Inv
<1>1. ASSUME NEW q \in Requests, CreateGroup(q)
      PROVE  GroupsFit'
  <2>0. PICK k \in Keys : k = GroupKey(msg[q])
    BY <1>0, <1>1, GroupKeyType DEF CreateGroup, HandlersKnown, Known
  <2>1. Fits(k, q)'
    <3>1. Fits(k, q)
      BY <1>1, <2>0, NewKeyFits DEF CreateGroup
    <3> QED
      BY <1>0, <3>1
  <2>2. /\ groups' = [groups EXCEPT ![k] = q] /\ keyOf' = [keyOf EXCEPT ![q] = k]
        /\ members' = [members EXCEPT ![q] = {q}] /\ timer' = [timer EXCEPT ![q] = "armed"]
        /\ pc' = [pc EXCEPT ![q] = "writing"] /\ keyOf[q] = None
    BY <1>0, <1>1, <2>0 DEF CreateGroup, GroupsFit
  <2>3. \A c \in Keys : groups'[c] # None => keyOf'[groups'[c]] = c
    BY <1>0, <2>2 DEF GroupsFit, TypeOK
  <2>4. ASSUME NEW g \in Requests
        PROVE  /\ keyOf'[g] # None => pc'[g] \notin {"idle", "received"}
               /\ timer'[g] = "armed" \/ members'[g] # {} => keyOf'[g] # None
    BY <1>0, <2>2 DEF GroupsFit, TypeOK
  <2>5. ASSUME NEW g \in Requests, NEW c \in Keys, keyOf'[g] = c, NEW r \in members'[g] \cup {g}
        PROVE  Fits(c, r)'
    <3>1. CASE g = q
      BY <1>0, <2>1, <2>2, <2>5, <3>1 DEF TypeOK
    <3>2. CASE g # q
      <4>1. keyOf[g] = c /\ r \in members[g] \cup {g} /\ r \in Requests
        BY <1>0, <2>2, <2>5, <3>2 DEF TypeOK
      <4> QED
        BY <1>0, <4>1 DEF GroupsFit
    <3> QED
      BY <3>1, <3>2
  <2> QED
    BY <2>3, <2>4, <2>5 DEF GroupsFit
<1>2. ASSUME NEW q \in Requests, NEW g \in Requests, NEW k \in Keys,
             keyOf[g] = k, Fits(k, q)', members' = [members EXCEPT ![g] = @ \cup {q}],
             pc'[q] \notin {"idle", "received"}, \A x \in Requests \ {q} : pc'[x] = pc[x],
             UNCHANGED <<groups, keyOf, timer>>
      PROVE  GroupsFit'
  <2>1. ASSUME NEW h \in Requests
        PROVE  /\ keyOf'[h] # None => pc'[h] \notin {"idle", "received"}
               /\ timer'[h] = "armed" \/ members'[h] # {} => keyOf'[h] # None
    BY <1>0, <1>2 DEF GroupsFit, TypeOK
  <2>2. ASSUME NEW h \in Requests, NEW c \in Keys, keyOf'[h] = c, NEW r \in members'[h] \cup {h}
        PROVE  Fits(c, r)'
    <3>1. CASE r \in members[h] \cup {h}
      BY <1>0, <1>2, <2>2, <3>1 DEF GroupsFit, TypeOK
    <3>2. CASE r \notin members[h] \cup {h}
      <4>1. h = g /\ r = q /\ c = k
        BY <1>0, <1>2, <2>2, <3>2 DEF TypeOK
      <4> QED
        BY <1>2, <4>1
    <3> QED
      BY <3>1, <3>2
  <2> QED
    BY <1>0, <1>2, <2>1, <2>2 DEF GroupsFit
<1>3. ASSUME NEW q \in Requests, JoinGroup(q)
      PROVE  GroupsFit'
  <2>0. PICK k \in Keys : k = GroupKey(msg[q])
    BY <1>0, <1>3, GroupKeyType DEF JoinGroup, HandlersKnown, Known
  <2>1. Fits(k, q)
    BY <1>3, <2>0, NewKeyFits DEF JoinGroup
  <2>2. groups[k] \in Requests /\ keyOf[groups[k]] = k
    BY <1>0, <1>3, <2>0 DEF JoinGroup, GroupsFit, TypeOK
  <2>3. /\ members' = [members EXCEPT ![groups[k]] = @ \cup {q}]
        /\ pc'[q] \notin {"idle", "received"} /\ \A x \in Requests \ {q} : pc'[x] = pc[x]
        /\ UNCHANGED <<groups, keyOf, timer>>
    BY <1>0, <1>3, <2>0 DEF JoinGroup, TypeOK
  <2> QED
    BY <1>0, <1>2, <2>1, <2>2, <2>3
<1>4. ASSUME NEW q \in Requests, Rejoin(q)
      PROVE  GroupsFit'
  <2>1. keyOf[q] \in Keys
    BY <1>0, <1>4 DEF Rejoin, HandlersKnown, TypeOK
  <2>2. PICK k \in Keys : k = keyOf[q] /\ Fits(k, q)
    BY <1>0, <2>1 DEF GroupsFit
  <2>3. /\ members' = [members EXCEPT ![q] = @ \cup {q}]
        /\ pc'[q] \notin {"idle", "received"} /\ \A x \in Requests \ {q} : pc'[x] = pc[x]
        /\ UNCHANGED <<groups, keyOf, timer>>
    BY <1>0, <1>4 DEF Rejoin, TypeOK
  <2> QED
    BY <1>0, <1>2, <2>2, <2>3
<1>5. CASE /\ UNCHANGED keyOf
           /\ \A k \in Keys : groups'[k] \in {groups[k], None}
           /\ \A g \in Requests :
                /\ members'[g] \subseteq members[g]
                /\ timer'[g] = "armed" => timer[g] = "armed"
                /\ pc'[g] \in {"idle", "received"} => pc[g] \in {"idle", "received"}
  <2>1. ASSUME NEW h \in Requests, NEW c \in Keys, keyOf'[h] = c, NEW r \in members'[h] \cup {h}
        PROVE  Fits(c, r)'
    <3>1. keyOf[h] = c /\ r \in members[h] \cup {h} /\ r \in Requests
      BY <1>0, <1>5, <2>1 DEF TypeOK
    <3> QED
      BY <1>0, <3>1 DEF GroupsFit
  <2>2. \A g \in Requests :
          /\ keyOf'[g] # None => pc'[g] \notin {"idle", "received"}
          /\ timer'[g] = "armed" \/ members'[g] # {} => keyOf'[g] # None
    BY <1>0, <1>5 DEF GroupsFit
  <2>3. \A k \in Keys : groups'[k] # None => keyOf'[groups'[k]] = k
    BY <1>0, <1>5 DEF GroupsFit
  <2> QED
    BY <2>1, <2>2, <2>3 DEF GroupsFit
<1>6. ASSUME NEW q \in Requests,
             \/ \E m \in Messages : Receive(q, m)
             \/ Decide(q) \/ Reply(q) \/ EntryVisible(q) \/ RegisterWaiter(q) \/ Drop(q)
      PROVE  GroupsFit'
  <2>1. UNCHANGED <<keyOf, groups, members, timer>>
    BY <1>6 DEF Receive, Decide, Reply, EntryVisible, RegisterWaiter, Drop
  <2>2. \A g \in Requests : pc'[g] \in {"idle", "received"} => pc[g] \in {"idle", "received"}
    BY <1>0, <1>6 DEF Receive, Decide, Reply, EntryVisible, RegisterWaiter, Drop, TypeOK
  <2> QED
    BY <1>5, <2>1, <2>2
<1>7. ASSUME NEW q \in Presses, NEW x \in Requests, NEW o \in {"allow", "deny"}, NEW s \in Scopes,
             Press(q, x, o, s)
      PROVE  GroupsFit'
  <2>1. UNCHANGED <<keyOf, pc>>
    BY <1>7 DEF Press, ResolveGroup, ResolveRequest
  <2>2. \A k \in Keys : groups'[k] \in {groups[k], None}
    BY <1>0, <1>7 DEF Press, ResolveGroup, ResolveRequest, TypeOK
  <2>3. \A g \in Requests : /\ members'[g] \subseteq members[g]
                            /\ timer'[g] = "armed" => timer[g] = "armed"
    BY <1>0, <1>7 DEF Press, ResolveGroup, ResolveRequest, TypeOK
  <2> QED
    BY <1>5, <2>1, <2>2, <2>3
<1>8. ASSUME NEW q \in Requests, Timeout(q)
      PROVE  GroupsFit'
  <2>1. UNCHANGED <<keyOf, pc, members>>
    BY <1>8 DEF Timeout, ResolveGroup
  <2>2. \A k \in Keys : groups'[k] \in {groups[k], None}
    BY <1>0, <1>8 DEF Timeout, ResolveGroup, TypeOK
  <2>3. \A g \in Requests : timer'[g] = "armed" => timer[g] = "armed"
    BY <1>0, <1>8 DEF Timeout, TypeOK
  <2> QED
    BY <1>5, <2>1, <2>2, <2>3
<1>9. ASSUME NEW t \in Presses \cup Requests, JobStep(t) \/ ResolverFails(t)
      PROVE  GroupsFit'
  <2>1. UNCHANGED <<keyOf, groups, members, timer>>
    BY <1>9 DEF JobStep, NotificationClosed, EntryRemoved, AuditWritten, ResolverFails
  <2>2. \A g \in Requests : pc'[g] \in {"idle", "received"} => pc[g] \in {"idle", "received"}
    BY <1>0, <1>9 DEF JobStep, NotificationClosed, EntryRemoved, AuditWritten, ResolverFails, TypeOK
  <2> QED
    BY <1>5, <2>1, <2>2
<1>10. CASE \/ UNCHANGED vars \/ Revoke \/ CloseBegin \/ CloseStep \/ \E k \in Keys : Expire(k)
  <2>1. UNCHANGED <<keyOf, members>>
    BY <1>10 DEF Revoke, CloseBegin, CloseStep, ClearPolicyState, RemovePendingDir, Expire
  <2>2. \A k \in Keys : groups'[k] \in {groups[k], None}
    BY <1>10 DEF Revoke, CloseBegin, CloseStep, ClearPolicyState, RemovePendingDir, Expire
  <2>3. \A g \in Requests :
          /\ timer'[g] = "armed" => timer[g] = "armed"
          /\ pc'[g] \in {"idle", "received"} => pc[g] \in {"idle", "received"}
    BY <1>10 DEF Revoke, CloseBegin, CloseStep, ClearPolicyState, RemovePendingDir, Expire
  <2> QED
    BY <1>5, <2>1, <2>2, <2>3
<1> QED
  BY <1>1, <1>3, <1>4, <1>6, <1>7, <1>8, <1>9, <1>10 DEF Next, HandlerStep

\* What a press does, in one place: it finds a group whose key fits the card, is
\* remembered under that key, and starts a resolver on that group.
LEMMA PressFacts ==
    ASSUME Inv, NEW p \in Presses, NEW r \in Requests, NEW o \in {"allow", "deny"},
           NEW s \in Scopes, Press(p, r, o, s)
    PROVE  \E k \in Keys, g \in Requests, sel \in Scopes :
             /\ keyOf[g] = k /\ Fits(k, r) /\ Remember(k, sel, o)
             /\ o = "allow" => sel \in AllowedScopes(k)
             /\ job'[p].pc \in {"closing", "removing"} /\ job'[p].outcome = o
             /\ job'[p].scope = sel /\ job'[p].target = r /\ job'[p].group = g
             /\ sel = "once" => job'[p].cur = r
             /\ sel # "once" => job'[p].pc = "closing"
             /\ \A t \in (Presses \cup Requests) \ {p} : job'[t] = job[t]
<1> DEFINE g == FindGroupByRequestId(r)
           k == keyOf[g]
           sel == IF o = "allow" /\ s = "none" THEN "once" ELSE s
<1>0. TypeOK /\ IndexFits /\ GroupsFit /\ None \notin Keys
  BY KeysAssumption DEF Inv
<1>1. g # None /\ s \in AllowedScopes(k) \cup {"none"} /\ Remember(k, sel, o)
  BY DEF Press
<1>2. g \in Requests /\ k \in Keys /\ index[r] = k
  BY <1>0, <1>1 DEF FindGroupByRequestId, TypeOK, GroupsFit
<1>3. Fits(k, r)
  BY <1>0, <1>2 DEF IndexFits
<1>4. sel \in Scopes /\ (o = "allow" => sel \in AllowedScopes(k))
  BY <1>1 DEF Scopes, AllowedScopes, ApprovalScopesFor, ViolationScopesFor
<1>5. \/ sel = "once" /\ ResolveRequest(p, g, o, r)
      \/ sel # "once" /\ ResolveGroup(p, g, o, sel, r)
  BY DEF Press
<1>6. /\ job'[p].pc \in {"closing", "removing"} /\ job'[p].outcome = o
      /\ job'[p].scope = sel /\ job'[p].target = r /\ job'[p].group = g
      /\ sel = "once" => job'[p].cur = r
      /\ sel # "once" => job'[p].pc = "closing"
      /\ \A t \in (Presses \cup Requests) \ {p} : job'[t] = job[t]
  <2> HIDE DEF g, sel, k
  <2>1. job \in [Presses \cup Requests -> Jobs]
    BY <1>0 DEF TypeOK
  <2>2. CASE sel = "once" /\ ResolveRequest(p, g, o, r)
    BY <2>1, <2>2 DEF ResolveRequest, Idle
  <2>3. CASE sel # "once" /\ ResolveGroup(p, g, o, sel, r)
    BY <2>1, <2>3 DEF ResolveGroup, Idle
  <2> QED
    BY <1>5, <2>2, <2>3
<1> HIDE DEF g, k, sel
<1>7. keyOf[g] = k
  BY DEF k
<1> QED
  BY <1>1, <1>2, <1>3, <1>4, <1>6, <1>7

\* Every remembered approval was pressed on a card that fits it.
LEMMA NextMemoryFits == Inv /\ [Next]_vars => MemoryFits'
<1> SUFFICES ASSUME Inv, [Next]_vars PROVE MemoryFits'
  OBVIOUS
<1>0. Stands /\ MemoryFits /\ JobsFit /\ TypeOK
  BY NextStands DEF Inv
<1>1. \A p \in Presses : job[p].pc # "idle" => Card(p)' = Card(p)
  BY <1>0 DEF Stands, JobsFit, JobFits, Known, Card
<1>2. ASSUME NEW a \in approved
      PROVE  \E p \in Presses : /\ Pressed(p, "allow")'
                                /\ job'[p].scope \in {"rule", "host-port", "host"}
                                /\ Card(p)'.kind = "authorize"
                                /\ a = ApprovalKey(Card(p)', job'[p].scope)
  BY <1>0, <1>1 DEF MemoryFits, Stands, Pressed
<1>3. ASSUME NEW id \in approvedV
      PROVE  \E p \in Presses : /\ Pressed(p, "allow")' /\ job'[p].scope = "violation"
                                /\ Card(p)'.kind = "violation" /\ id \in Identities(Card(p)')
  BY <1>0, <1>1 DEF MemoryFits, Stands, Pressed
<1>4. CASE approved' \subseteq approved /\ approvedV' \subseteq approvedV
  <2>1. \A a \in approved' : \E p \in Presses :
             /\ Pressed(p, "allow")' /\ job'[p].scope \in {"rule", "host-port", "host"}
             /\ Card(p)'.kind = "authorize" /\ a = ApprovalKey(Card(p)', job'[p].scope)
    BY <1>2, <1>4
  <2>2. \A id \in approvedV' : \E p \in Presses :
             /\ Pressed(p, "allow")' /\ job'[p].scope = "violation"
             /\ Card(p)'.kind = "violation" /\ id \in Identities(Card(p)')
    BY <1>3, <1>4
  <2> QED
    BY <2>1, <2>2 DEF MemoryFits, ApprovalKey, Identities, Asked
<1>5. ASSUME NEW p \in Presses, NEW r \in Requests, NEW o \in {"allow", "deny"}, NEW s \in Scopes,
             Press(p, r, o, s)
      PROVE  MemoryFits'
  <2>1. PICK k \in Keys, sel \in Scopes :
             /\ Fits(k, r) /\ Remember(k, sel, o)
             /\ job'[p].pc # "idle" /\ job'[p].outcome = o
             /\ job'[p].scope = sel /\ job'[p].target = r
    BY <1>5, PressFacts
  <2>2. Card(p)' = msg[r] /\ Card(p)'.kind = k.kind /\ k.kind \in {"authorize", "violation"}
    BY <1>5, <2>1, KeyMemory DEF Press, Card, Fits
  <2>3. ASSUME NEW a \in approved'
        PROVE  \E q \in Presses :
                  /\ Pressed(q, "allow")' /\ job'[q].scope \in {"rule", "host-port", "host"}
                  /\ Card(q)'.kind = "authorize" /\ a = ApprovalKey(Card(q)', job'[q].scope)
    <3>1. CASE a \in approved
      BY <1>2, <3>1
    <3>2. CASE a \notin approved
      <4>1. k.kind = "authorize" /\ o = "allow" /\ sel \in {"rule", "host-port", "host"}
            /\ a = ApprovalKey(k, sel)
        BY <2>1, <2>2, <2>3, <3>2 DEF Remember
      <4>2. ApprovalKey(k, sel) = ApprovalKey(msg[r], sel)
        BY <2>1, <4>1 DEF Fits, PendingGroupKey, ApprovalKey
      <4>3. Pressed(p, "allow")'
        BY <2>1, <4>1 DEF Pressed
      <4> QED
        BY <2>1, <2>2, <4>1, <4>2, <4>3
    <3> QED
      BY <3>1, <3>2
  <2>4. ASSUME NEW id \in approvedV'
        PROVE  \E q \in Presses :
                  /\ Pressed(q, "allow")' /\ job'[q].scope = "violation"
                  /\ Card(q)'.kind = "violation" /\ id \in Identities(Card(q)')
    <3>1. CASE id \in approvedV
      BY <1>3, <3>1
    <3>2. CASE id \notin approvedV
      <4>1. k.kind = "violation" /\ o = "allow" /\ sel = "violation" /\ id \in k.ids
        BY <2>1, <2>2, <2>4, <3>2 DEF Remember
      <4>2. id \in Identities(msg[r])
        BY <2>1, <4>1 DEF Fits
      <4>3. Pressed(p, "allow")'
        BY <2>1, <4>1 DEF Pressed
      <4> QED
        BY <2>1, <2>2, <4>1, <4>2, <4>3
    <3> QED
      BY <3>1, <3>2
  <2> QED
    BY <2>3, <2>4 DEF MemoryFits, ApprovalKey, Identities, Asked
<1>6. CASE \/ UNCHANGED vars \/ Revoke \/ CloseBegin \/ CloseStep \/ \E k \in Keys : Expire(k)
           \/ \E g \in Requests : Timeout(g)
           \/ \E t \in Presses \cup Requests : JobStep(t) \/ ResolverFails(t)
           \/ \E r \in Requests : (\E m \in Messages : Receive(r, m)) \/ HandlerStep(r) \/ Drop(r)
  <2>1. approved' \subseteq approved /\ approvedV' \subseteq approvedV
    BY <1>6 DEF Revoke, CloseBegin, CloseStep, ClearPolicyState, RemovePendingDir, Expire, Timeout,
                JobStep, NotificationClosed, EntryRemoved, AuditWritten, ResolverFails, Receive,
                HandlerStep, Decide, Reply, CreateGroup, JoinGroup, EntryVisible, Rejoin,
                RegisterWaiter, Drop
  <2> QED
    BY <1>4, <2>1
<1> QED
  BY <1>5, <1>6 DEF Next

\* A resolver that does not move keeps fitting.
LEMMA JobStandsStill ==
    ASSUME Inv, Stands, NEW t \in Presses \cup Requests, job'[t] = job[t]
    PROVE  JobFits(t)'
<1>0. /\ JobFits(t)
      /\ \A r \in Requests : Known(r) => Known(r)'
      /\ \A k : \A r \in Requests : Fits(k, r) => Fits(k, r)'
  BY FactsStand DEF Inv, JobsFit
<1>1. Running(t)' => Running(t) /\ keyOf'[job[t].group] = keyOf[job[t].group]
  BY <1>0 DEF JobFits, Running, Stands
<1>2. job'[t].pc # "idle" =>
        /\ t \in Presses => \E r \in Requests : job'[t].target = r /\ Known(r)'
        /\ t \in Requests => job'[t].outcome = "deny" /\ job'[t].scope # "once"
  BY <1>0 DEF JobFits
<1>3. Running(t)' =>
         /\ job'[t].group \in Requests /\ keyOf'[job'[t].group] # None
         /\ job'[t].scope = "once" => job'[t].cur = job'[t].target
         /\ job'[t].scope # "once" /\ job'[t].pc # "closing" => job'[t].cur \in Requests
         /\ \A k \in Keys : keyOf'[job'[t].group] = k =>
              /\ job'[t].outcome = "allow" => job'[t].scope \in AllowedScopes(k)
              /\ \A r \in Requests :
                   (\/ t \in Presses /\ r = job'[t].target
                    \/ job'[t].scope # "once" /\ job'[t].pc # "closing" /\ r = job'[t].cur) => Fits(k, r)'
  BY <1>0, <1>1 DEF JobFits
<1> QED
  BY <1>2, <1>3 DEF JobFits, AllowedScopes, ApprovalScopesFor, ViolationScopesFor

\* A resolver that takes its next step keeps fitting: it turns to a member of its group.
LEMMA JobMoves ==
    ASSUME Inv, Stands, TypeOK', NEW t \in Presses \cup Requests, Running(t),
           job'[t].outcome = job[t].outcome, job'[t].scope = job[t].scope,
           job'[t].target = job[t].target, job'[t].pc \in {"removing", "auditing"},
           job'[t].group = job[t].group, keyOf' = keyOf,
           \/ job'[t].cur = job[t].cur /\ (job[t].pc # "closing" \/ job[t].scope = "once")
           \/ job'[t].cur \in members[job[t].group] /\ job[t].scope # "once"
    PROVE  JobFits(t)'
<1>0. /\ JobFits(t) /\ TypeOK /\ GroupsFit
      /\ \A r \in Requests : Known(r) => Known(r)'
      /\ \A k : \A r \in Requests : Fits(k, r) => Fits(k, r)'
  BY FactsStand DEF Inv, JobsFit
<1>1. job'[t].pc # "idle" =>
        /\ t \in Presses => \E r \in Requests : job'[t].target = r /\ Known(r)'
        /\ t \in Requests => job'[t].outcome = "deny" /\ job'[t].scope # "once"
  BY <1>0 DEF JobFits, Running
<1>2. PICK k \in Keys : keyOf[job[t].group] = k /\ job[t].group \in Requests
  BY <1>0 DEF JobFits, TypeOK
<1>3. \A r \in Requests : t \in Presses /\ r = job'[t].target => Fits(k, r)'
  <2>1. \A r \in Requests : t \in Presses /\ r = job[t].target => Fits(k, r)
    BY <1>0, <1>2 DEF JobFits
  <2> QED
    BY <1>0, <2>1
<1>4. job'[t].scope # "once" => job'[t].cur \in Requests
  <2>1. CASE job'[t].cur = job[t].cur /\ (job[t].pc # "closing" \/ job[t].scope = "once")
    BY <1>0, <2>1 DEF JobFits
  <2>2. CASE job'[t].cur \in members[job[t].group]
    BY <1>0, <1>2, <2>2 DEF TypeOK
  <2> QED
    BY <2>1, <2>2
<1>5. \A r \in Requests : job'[t].scope # "once" /\ r = job'[t].cur => Fits(k, r)'
  <2> SUFFICES ASSUME NEW r \in Requests, job'[t].scope # "once", r = job'[t].cur
               PROVE  Fits(k, r)
    BY <1>0
  <2>1. CASE job'[t].cur = job[t].cur /\ (job[t].pc # "closing" \/ job[t].scope = "once")
    BY <1>0, <1>2, <2>1 DEF JobFits
  <2>2. CASE job'[t].cur \in members[job[t].group]
    BY <1>0, <1>2, <2>2 DEF GroupsFit
  <2> QED
    BY <2>1, <2>2
<1>6. /\ job'[t].group \in Requests /\ keyOf'[job'[t].group] # None
      /\ job'[t].scope = "once" => job'[t].cur = job'[t].target
      /\ job'[t].outcome = "allow" => job'[t].scope \in AllowedScopes(k)
  BY <1>0, <1>2 DEF JobFits
<1>7. \A c \in Keys : keyOf'[job'[t].group] = c => c = k
  BY <1>2
<1> QED
  BY <1>1, <1>3, <1>4, <1>5, <1>6, <1>7
     DEF JobFits, AllowedScopes, ApprovalScopesFor, ViolationScopesFor

\* A resolver that ends, or one that a timer starts, fits.
LEMMA JobEnds ==
    ASSUME Inv, Stands, NEW t \in Presses \cup Requests, job[t].pc # "idle",
           job'[t].outcome = job[t].outcome, job'[t].scope = job[t].scope,
           job'[t].target = job[t].target, job'[t].pc \in {"done", "aborted"}
    PROVE  JobFits(t)'
<1>0. JobFits(t) /\ \A r \in Requests : Known(r) => Known(r)'
  BY FactsStand DEF Inv, JobsFit
<1>1. /\ t \in Presses => \E r \in Requests : job'[t].target = r /\ Known(r)'
      /\ t \in Requests => job'[t].outcome = "deny" /\ job'[t].scope # "once"
  BY <1>0 DEF JobFits
<1> QED
  BY <1>1 DEF JobFits, Running

\* The loop of a resolver keeps it fitting, whether it takes a request or ends.
LEMMA TakeNextFits ==
    ASSUME Inv, Stands, TypeOK', NEW t \in Presses \cup Requests, Running(t),
           job[t].scope # "once", NEW visited, TakeNext(t, visited), keyOf' = keyOf
    PROVE  JobFits(t)' /\ \A u \in (Presses \cup Requests) \ {t} : job'[u] = job[u]
<1>0. job[t] \in Jobs /\ job \in [Presses \cup Requests -> Jobs] /\ job[t].pc # "idle"
  BY DEF Inv, TypeOK, Running
<1>1. CASE job' = [job EXCEPT ![t] = Ended(t, "done")]
  <2>1. /\ job'[t].outcome = job[t].outcome /\ job'[t].scope = job[t].scope
        /\ job'[t].target = job[t].target /\ job'[t].pc = "done"
        /\ \A u \in (Presses \cup Requests) \ {t} : job'[u] = job[u]
    BY <1>0, <1>1 DEF Ended, Jobs
  <2> QED
    BY <1>0, <2>1, JobEnds
<1>2. ASSUME NEW c \in members[job[t].group],
             job' = [job EXCEPT ![t].pc = "removing", ![t].cur = c,
                                ![t].visited = visited \cup {c}]
      PROVE  JobFits(t)' /\ \A u \in (Presses \cup Requests) \ {t} : job'[u] = job[u]
  <2>1. /\ job'[t].outcome = job[t].outcome /\ job'[t].scope = job[t].scope
        /\ job'[t].target = job[t].target /\ job'[t].pc = "removing"
        /\ job'[t].group = job[t].group /\ job'[t].cur = c
        /\ \A u \in (Presses \cup Requests) \ {t} : job'[u] = job[u]
    BY <1>0, <1>2 DEF Jobs
  <2> QED
    BY <1>2, <2>1, JobMoves
<1> QED
  BY <1>1, <1>2 DEF TakeNext

\* Every resolver works on a group that fits what was pressed.
LEMMA NextJobsFit == Inv /\ [Next]_vars => JobsFit'
<1> SUFFICES ASSUME Inv, [Next]_vars PROVE JobsFit'
  OBVIOUS
<1>0. /\ Stands /\ TypeOK /\ TypeOK' /\ GroupsFit /\ None \notin Keys
      /\ job \in [Presses \cup Requests -> Jobs] /\ Requests \cap Presses = {}
      /\ \A r \in Requests : Known(r) => Known(r)'
      /\ \A k : \A r \in Requests : Fits(k, r) => Fits(k, r)'
  BY NextStands, NextTypes, FactsStand, KeysAssumption, BrokerAssumption DEF Inv, TypeOK
<1>1. ASSUME NEW t \in Presses \cup Requests, JobFits(t)',
             \A u \in (Presses \cup Requests) \ {t} : job'[u] = job[u]
      PROVE  JobsFit'
  <2>1. \A u \in (Presses \cup Requests) \ {t} : JobFits(u)'
    BY <1>0, <1>1, JobStandsStill
  <2> QED
    BY <1>1, <2>1 DEF JobsFit
<1>2. CASE job' = job
  <2>1. \A u \in Presses \cup Requests : JobFits(u)'
    BY <1>0, <1>2, JobStandsStill
  <2> QED
    BY <2>1 DEF JobsFit
<1>3. ASSUME NEW p \in Presses, NEW r \in Requests, NEW o \in {"allow", "deny"},
             NEW s \in Scopes, Press(p, r, o, s)
      PROVE  JobsFit'
  <2>1. PICK k \in Keys, g \in Requests, sel \in Scopes :
             /\ keyOf[g] = k /\ Fits(k, r)
             /\ o = "allow" => sel \in AllowedScopes(k)
             /\ job'[p].pc \in {"closing", "removing"} /\ job'[p].outcome = o
             /\ job'[p].scope = sel /\ job'[p].target = r /\ job'[p].group = g
             /\ sel = "once" => job'[p].cur = r
             /\ sel # "once" => job'[p].pc = "closing"
             /\ \A t \in (Presses \cup Requests) \ {p} : job'[t] = job[t]
    BY <1>3, PressFacts
  <2>2. Known(r)' /\ Fits(k, r)' /\ keyOf'[g] = k /\ p \notin Requests
    BY <1>0, <2>1 DEF Stands, Fits
  <2>3. JobFits(p)'
    <3>1. \A c \in Keys : keyOf'[job'[p].group] = c => c = k
      BY <2>1, <2>2
    <3>2. \A x \in Requests :
            (\/ p \in Presses /\ x = job'[p].target
             \/ job'[p].scope # "once" /\ job'[p].pc # "closing" /\ x = job'[p].cur) => Fits(k, x)'
      BY <2>1, <2>2
    <3>3. /\ job'[p].group \in Requests /\ keyOf'[job'[p].group] # None
          /\ job'[p].scope = "once" => job'[p].cur = job'[p].target
          /\ job'[p].scope # "once" => job'[p].pc = "closing"
          /\ job'[p].outcome = "allow" => job'[p].scope \in AllowedScopes(k)
          /\ \E x \in Requests : job'[p].target = x /\ Known(x)'
      BY <1>0, <2>1, <2>2
    <3> QED
      BY <2>2, <3>1, <3>2, <3>3 DEF JobFits, AllowedScopes, ApprovalScopesFor, ViolationScopesFor
  <2> QED
    BY <1>1, <2>1, <2>3
<1>4. ASSUME NEW g \in Requests, Timeout(g)
      PROVE  JobsFit'
  <2>1. CASE groups[keyOf[g]] = None
    BY <1>2, <1>4, <2>1 DEF Timeout
  <2>2. CASE groups[keyOf[g]] # None
    <3> DEFINE h == groups[keyOf[g]]
    <3>1. h \in Requests /\ keyOf[h] \in Keys /\ ResolveGroup(g, h, "deny", "none", None)
      BY <1>0, <1>4, <2>2 DEF Timeout, TypeOK, GroupsFit
    <3> HIDE DEF h
    <3>2. /\ job'[g].pc = "closing" /\ job'[g].outcome = "deny" /\ job'[g].scope = "none"
          /\ job'[g].group = h
          /\ \A u \in (Presses \cup Requests) \ {g} : job'[u] = job[u]
      BY <1>0, <3>1 DEF ResolveGroup, Idle
    <3>3. keyOf'[h] # None /\ g \notin Presses
      BY <1>0, <3>1 DEF Stands
    <3>4. JobFits(g)'
      BY <3>1, <3>2, <3>3 DEF JobFits, Running
    <3> QED
      BY <1>1, <3>2, <3>4
  <2> QED
    BY <2>1, <2>2
<1>5. ASSUME NEW t \in Presses \cup Requests, JobStep(t) \/ ResolverFails(t)
      PROVE  JobsFit'
  <2>0. Running(t) /\ job[t] \in Jobs /\ keyOf' = keyOf
    BY <1>0, <1>5 DEF JobStep, NotificationClosed, EntryRemoved, AuditWritten, ResolverFails, Running
  <2>1. CASE job[t].scope # "once" /\ \E v : TakeNext(t, v)
    BY <1>0, <1>1, <2>0, <2>1, TakeNextFits
  <2>2. CASE job[t].scope = "once" /\ job' = [job EXCEPT ![t].pc = "removing"]
    <3>1. /\ job'[t].outcome = job[t].outcome /\ job'[t].scope = job[t].scope
          /\ job'[t].target = job[t].target /\ job'[t].pc = "removing"
          /\ job'[t].group = job[t].group /\ job'[t].cur = job[t].cur
          /\ \A u \in (Presses \cup Requests) \ {t} : job'[u] = job[u]
      BY <1>0, <2>0, <2>2 DEF Jobs
    <3>2. JobFits(t)'
      BY <1>0, <2>0, <2>2, <3>1, JobMoves
    <3> QED
      BY <1>1, <3>1, <3>2
  <2>3. CASE EntryRemoved(t)
    <3>1. /\ job'[t].outcome = job[t].outcome /\ job'[t].scope = job[t].scope
          /\ job'[t].target = job[t].target /\ job'[t].pc = "auditing"
          /\ job'[t].group = job[t].group /\ job'[t].cur = job[t].cur /\ job[t].pc = "removing"
          /\ \A u \in (Presses \cup Requests) \ {t} : job'[u] = job[u]
      BY <1>0, <2>0, <2>3 DEF EntryRemoved, Jobs
    <3>2. JobFits(t)'
      BY <1>0, <2>0, <3>1, JobMoves
    <3> QED
      BY <1>1, <3>1, <3>2
  <2>4. CASE \E how \in {"done", "aborted"} : job' = [job EXCEPT ![t] = Ended(t, how)]
    <3>1. /\ job'[t].outcome = job[t].outcome /\ job'[t].scope = job[t].scope
          /\ job'[t].target = job[t].target /\ job'[t].pc \in {"done", "aborted"}
          /\ job[t].pc # "idle"
          /\ \A u \in (Presses \cup Requests) \ {t} : job'[u] = job[u]
      BY <1>0, <2>0, <2>4 DEF Ended, Jobs, Running
    <3>2. JobFits(t)'
      BY <1>0, <3>1, JobEnds
    <3> QED
      BY <1>1, <3>1, <3>2
  <2> QED
    BY <1>5, <2>1, <2>2, <2>3, <2>4 DEF JobStep, NotificationClosed, AuditWritten, ResolverFails
<1>6. CASE \/ UNCHANGED vars \/ Revoke \/ CloseBegin \/ CloseStep \/ \E k \in Keys : Expire(k)
           \/ \E r \in Requests : (\E m \in Messages : Receive(r, m)) \/ HandlerStep(r) \/ Drop(r)
  <2>1. job' = job
    BY <1>6 DEF Revoke, CloseBegin, CloseStep, ClearPolicyState, RemovePendingDir, Expire, Receive,
                HandlerStep, Decide, Reply, CreateGroup, JoinGroup, EntryVisible, Rejoin,
                RegisterWaiter, Drop
  <2> QED
    BY <1>2, <2>1
<1> QED
  BY <1>3, <1>4, <1>5, <1>6 DEF Next

-----------------------------------------------------------------------------
(* Every allow is justified. *)

\* What justified an answer once justifies it for ever.
LEMMA JustifiedStands ==
    ASSUME Inv, Stands, NEW r \in Requests, pc[r] # "idle", Justified(r)
    PROVE  Justified(r)'
<1>0. PICK m : msg[r] = m /\ msg'[r] = m
  BY DEF Stands
<1>1. /\ PressedOnce(r) => PressedOnce(r)'
      /\ \A x : PressedWide(x) => PressedWide(x)'
      /\ \A rule, f : PressedFinding(rule, f) => PressedFinding(rule, f)'
  BY FactsStand
<1>2. CASE m.kind = "authorize" /\ m.action = "allow" /\ ~m.blocked
  BY <1>0, <1>2 DEF Justified
<1>3. CASE m.principal = "agent" /\ ApprovedByPerson(r)
  <2>1. CASE PressedOnce(r)
    BY <1>0, <1>1, <1>3, <2>1 DEF Justified, ApprovedByPerson
  <2>2. CASE PressedWide(m)
    <3>1. PressedWide(m)'
      BY <1>1, <2>2
    <3>2. PressedWide(msg[r])'
      BY <1>0, <3>1 DEF PressedWide, Pressed, Card, SpeaksFor
    <3> QED
      BY <1>0, <1>3, <3>2 DEF Justified, ApprovedByPerson
  <2>3. CASE m.kind = "violation" /\ \A f \in Asked(m) : PressedFinding(m.rule, f)
    <3>1. \A f \in Asked(m) : PressedFinding(m.rule, f)'
      BY <1>1, <2>3
    <3> QED
      BY <1>0, <1>3, <2>3, <3>1 DEF Justified, ApprovedByPerson, PressedFinding, Asked,
                                    ViolationNeedsApproval, Shows
  <2> QED
    BY <1>0, <1>3, <2>1, <2>2, <2>3 DEF ApprovedByPerson
<1> QED
  BY <1>0, <1>2, <1>3 DEF Justified

\* An allow given at once comes from the policy or from remembered presses.
LEMMA DecideJustified ==
    ASSUME Inv, NEW r \in Requests, pc[r] = "received", Decision(msg[r]).decision = "allow"
    PROVE  Justified(r)
<1> DEFINE m == msg[r]
<1>0. m \in Messages /\ m.kind \in {"authorize", "violation"} /\ m.principal \in {"agent", "dind"}
      /\ (m.kind = "authorize" => m.action \in {"allow", "deny", "review"})
  BY BrokerAssumption DEF Inv, HandlersKnown, Known
<1>1. CASE m.kind = "authorize"
  <2>0. AuthorizeDecision(m).decision = "allow"
    BY <1>1 DEF Decision
  <2>1. ~m.blocked /\ (\/ m.action = "allow"
                       \/ m.principal = "agent" /\ ApprovalKeys(m) \cap approved # {})
    BY <1>0, <1>1, <2>0 DEF AuthorizeDecision, DenyDecision, NoAnswer
  <2>2. CASE m.action = "allow"
    BY <1>1, <2>1, <2>2 DEF Justified
  <2>3. CASE m.principal = "agent" /\ ApprovalKeys(m) \cap approved # {}
    <3>1. PICK s \in {"rule", "host-port", "host"} : ApprovalKey(m, s) \in approved
      BY <2>3 DEF ApprovalKeys
    <3>2. PICK p \in Presses :
             /\ Pressed(p, "allow") /\ job[p].scope \in {"rule", "host-port", "host"}
             /\ Card(p).kind = "authorize" /\ ApprovalKey(m, s) = ApprovalKey(Card(p), job[p].scope)
      BY <3>1 DEF Inv, MemoryFits
    <3>3. SpeaksFor(Card(p), job[p].scope, m)
      BY <1>1, <3>2 DEF SpeaksFor, ApprovalKey
    <3>4. PressedWide(m)
      BY <3>2, <3>3 DEF PressedWide
    <3> QED
      BY <2>3, <3>4 DEF Justified, ApprovedByPerson
  <2> QED
    BY <2>1, <2>2, <2>3
<1>2. CASE m.kind = "violation"
  <2>0. ReviewDecision(m).decision = "allow"
    BY <1>2 DEF Decision
  <2>1. m.principal = "agent" /\ Identities(m) \subseteq approvedV
    BY <1>0, <2>0 DEF ReviewDecision, DenyDecision, NoAnswer
  <2>2. \A f \in Asked(m) : PressedFinding(m.rule, f)
    BY <2>1, RememberedFinding DEF Identities
  <2> QED
    BY <1>2, <2>1, <2>2 DEF Justified, ApprovedByPerson
<1> QED
  BY <1>0, <1>1, <1>2

\* A resolver that answers "allow" carries out a press that speaks for the request.
LEMMA JobJustified ==
    ASSUME Inv, NEW t \in Presses \cup Requests, job[t].pc = "auditing",
           job[t].outcome = "allow"
    PROVE  job[t].cur \in Requests => Justified(job[t].cur)
<1> SUFFICES ASSUME NEW c \in Requests, job[t].cur = c PROVE Justified(c)
  OBVIOUS
<1>0. JobFits(t) /\ Running(t) /\ TypeOK
  BY DEF Inv, JobsFit, Running
<1>1. t \in Presses /\ Pressed(t, "allow")
  BY <1>0 DEF JobFits, Pressed
<1>2. PICK k \in Keys : keyOf[job[t].group] = k
  BY <1>0 DEF JobFits, TypeOK
<1>3. PICK x \in Requests : job[t].target = x
  BY <1>0, <1>1 DEF JobFits
<1>4. job[t].scope \in AllowedScopes(k) /\ Fits(k, x) /\ Card(t) = msg[x]
  BY <1>0, <1>1, <1>2, <1>3 DEF JobFits, Card
<1>5. CASE job[t].scope = "once"
  <2>1. c = x
    BY <1>0, <1>3, <1>5 DEF JobFits
  <2> QED
    BY <1>1, <1>3, <1>4, <1>5, <2>1 DEF Fits, Justified, ApprovedByPerson, PressedOnce
<1>6. CASE job[t].scope # "once"
  <2>1. Fits(k, c)
    BY <1>0, <1>2, <1>6 DEF JobFits
  <2>2. CASE k.kind = "authorize"
    <3>1. PendingGroupKey(msg[x]) = PendingGroupKey(msg[c])
          /\ msg[x].kind = "authorize" /\ msg[c].kind = "authorize"
      BY <1>4, <2>1, <2>2 DEF Fits
    <3>2. SpeaksFor(msg[x], job[t].scope, msg[c])
      BY <3>1 DEF SpeaksFor, PendingGroupKey
    <3>3. PressedWide(msg[c])
      BY <1>1, <1>4, <1>6, <3>2 DEF PressedWide
    <3> QED
      BY <2>1, <3>3 DEF Fits, Justified, ApprovedByPerson
  <2>3. CASE k.kind # "authorize"
    <3>0. k.kind = "violation"
      BY <2>3, KeyMemory
    <3>1. job[t].scope = "violation"
      BY <1>4, <1>6, <2>3 DEF AllowedScopes, ViolationScopesFor
    <3>2. ASSUME NEW f \in Asked(msg[c]) PROVE PressedFinding(msg[c].rule, f)
      <4>1. CASE PressedFinding(msg[c].rule, f)
        BY <4>1
      <4>2. CASE ViolationKey(msg[c].rule, f) \in k.ids
        <5>1. ViolationKey(msg[c].rule, f) \in Identities(msg[x]) /\ msg[x].kind = "violation"
          BY <1>4, <3>0, <4>2 DEF Fits
        <5>2. PICK y \in Asked(msg[x]) :
                ViolationKey(msg[c].rule, f) = ViolationKey(msg[x].rule, y)
          BY <5>1 DEF Identities
        <5>3. y \in msg[x].findings /\ msg[x].rule = msg[c].rule
              /\ y.expect = f.expect /\ y.value = f.value
          BY <5>2 DEF Asked, ViolationKey
        <5>4. Shows(msg[x], msg[c].rule, f)
          BY <5>1, <5>3 DEF Shows
        <5> QED
          BY <1>1, <1>4, <3>1, <5>4 DEF PressedFinding
      <4> QED
        BY <2>1, <3>0, <4>1, <4>2 DEF Fits
    <3> QED
      BY <2>1, <3>0, <3>2 DEF Fits, Justified, ApprovedByPerson
  <2> QED
    BY <2>2, <2>3
<1> QED
  BY <1>5, <1>6

\* Every step answers "allow" only where it is justified.
LEMMA NextAllowIsJustified == Inv /\ [Next]_vars => AllowIsJustified'
<1> SUFFICES ASSUME Inv, [Next]_vars, NEW r \in Requests, answer'[r].decision = "allow"
             PROVE  Justified(r)'
  BY DEF AllowIsJustified
<1>0. Stands /\ TypeOK /\ AllowIsJustified /\ HandlersKnown
  BY NextStands DEF Inv
<1>1. CASE answer'[r] = answer[r]
  <2>1. pc[r] # "idle" /\ Justified(r)
    BY <1>0, <1>1 DEF AllowIsJustified, HandlersKnown, NoAnswer
  <2> QED
    BY <1>0, <2>1, JustifiedStands
<1>2. ASSUME NEW q \in Requests, Decide(q)
      PROVE  Justified(r)'
  <2>1. CASE q = r
    <3>1. pc[r] = "received" /\ Decision(msg[r]).decision = "allow"
      BY <1>0, <1>2, <2>1 DEF Decide, TypeOK
    <3> QED
      BY <1>0, <3>1, DecideJustified, JustifiedStands
  <2>2. CASE q # r
    BY <1>0, <1>1, <1>2, <2>2 DEF Decide, TypeOK
  <2> QED
    BY <2>1, <2>2
<1>3. ASSUME NEW t \in Presses \cup Requests, AuditWritten(t)
      PROVE  Justified(r)'
  <2>1. CASE job[t].cur = r /\ pc[r] = "waiting" /\ answer'[r] = JobAnswer(t)
    <3>1. job[t].pc = "auditing" /\ job[t].outcome = "allow"
      BY <1>3, <2>1 DEF AuditWritten, JobAnswer
    <3>2. Justified(r)
      BY <2>1, <3>1, JobJustified
    <3> QED
      BY <1>0, <2>1, <3>2, JustifiedStands
  <2>2. CASE answer'[r] = answer[r]
    BY <1>1, <2>2
  <2> QED
    BY <1>0, <1>3, <2>1, <2>2 DEF AuditWritten, TypeOK
<1>4. CASE CloseBegin
  <2>1. answer'[r] = DenyDecision("broker closed") \/ answer'[r] = answer[r]
    BY <1>4 DEF CloseBegin
  <2>2. DenyDecision("broker closed").decision # "allow"
    BY DEF DenyDecision
  <2> QED
    BY <1>1, <2>1, <2>2
<1>5. CASE answer' = answer
  BY <1>1, <1>5
<1>6. ASSUME NEW q \in Requests, (\E m \in Messages : Receive(q, m)) \/ HandlerStep(q) \/ Drop(q)
      PROVE  Justified(r)'
  <2>1. Decide(q) \/ answer' = answer
    BY <1>6 DEF Receive, HandlerStep, Reply, CreateGroup, JoinGroup, EntryVisible, Rejoin,
                RegisterWaiter, Drop
  <2> QED
    BY <1>2, <1>5, <2>1
<1>7. ASSUME NEW t \in Presses \cup Requests, JobStep(t) \/ ResolverFails(t)
      PROVE  Justified(r)'
  <2>1. AuditWritten(t) \/ answer' = answer
    BY <1>7 DEF JobStep, NotificationClosed, EntryRemoved, ResolverFails
  <2> QED
    BY <1>3, <1>5, <2>1
<1>8. CASE \/ UNCHANGED vars \/ Revoke \/ CloseStep \/ \E k \in Keys : Expire(k)
           \/ \E g \in Requests : Timeout(g)
           \/ \E p \in Presses, x \in Requests, o \in {"allow", "deny"}, s \in Scopes :
                 Press(p, x, o, s)
  BY <1>5, <1>8 DEF Revoke, CloseStep, ClearPolicyState, RemovePendingDir, Expire, Timeout, Press
<1> QED
  BY <1>4, <1>6, <1>7, <1>8 DEF Next

-----------------------------------------------------------------------------
(* The theorems. *)

\* A fresh broker satisfies the invariant.
LEMMA InitInv == Init => Inv
<1> SUFFICES ASSUME Init PROVE Inv
  OBVIOUS
<1>0. Idle \in Jobs /\ NoAnswer \in Answers
  BY DEF Idle, Jobs, Scopes, NoAnswer, Answers
<1>1. TypeOK
  BY <1>0 DEF Init, TypeOK
<1>2. HandlersKnown
  BY DEF Init, HandlersKnown
<1>3. IndexFits /\ GroupsFit
  BY KeysAssumption DEF Init, IndexFits, GroupsFit
<1>4. MemoryFits
  BY DEF Init, MemoryFits
<1>5. JobsFit
  BY DEF Init, JobsFit, JobFits, Idle, Running
<1>6. AllowIsJustified
  BY DEF Init, AllowIsJustified, NoAnswer
<1> QED
  BY <1>1, <1>2, <1>3, <1>4, <1>5, <1>6 DEF Inv

\* Inv is inductive: it holds in every reachable state of the broker.
THEOREM InvHolds == Spec => []Inv
<1>1. Inv /\ [Next]_vars => Inv'
  BY NextTypes, NextHandlersKnown, NextIndexFits, NextGroupsFit, NextMemoryFits, NextJobsFit,
     NextAllowIsJustified DEF Inv
<1> QED
  BY <1>1, InitInv, PTL DEF Spec

\* Every variable of the broker keeps its type; the two memories of presses stay apart.
THEOREM TypeCorrect == Spec => []TypeOK
<1>1. Inv => TypeOK
  BY DEF Inv
<1> QED
  BY <1>1, InvHolds, PTL

\* No request of any kind is let out of the sandbox unless the policy allows it or a
\* person's press speaks for it, however arrivals, presses, timers, failures and
\* close() interleave.
THEOREM AllowJustified == Spec => []AllowIsJustified
<1>1. Inv => AllowIsJustified
  BY DEF Inv
<1> QED
  BY <1>1, InvHolds, PTL
=============================================================================
