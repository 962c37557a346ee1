---------------------------- MODULE NetworkBroker ----------------------------
(***************************************************************************)
(* The session's network broker (src/src/network/broker.ts, SessionBroker).*)
(*                                                                         *)
(* The proxy asks the broker about every request that leaves the sandbox.  *)
(* The broker answers from the policy document, from what a person has     *)
(* already pressed, or after putting a card (a pending entry on disk) in   *)
(* front of a person.  The broker is one JavaScript thread: what happens   *)
(* between two awaits is one atomic step here, and everything else         *)
(* interleaves -- requests that join a card, presses, timers, close().     *)
(*                                                                         *)
(* What a request is, is chosen when it arrives, from the set Messages:    *)
(*   [kind |-> "authorize", principal, blocked, injects, action,           *)
(*    rule, reason, host, port]                                            *)
(*   [kind |-> "violation", principal, rule, findings]                     *)
(* blocked: refused before the policy is read; injects: the target is one  *)
(* a host-owned credential is put on; action, rule, reason: what decide()  *)
(* says.  A finding is [expect, value, approvable].                        *)
(***************************************************************************)
CONSTANTS
    Requests,        \* request ids; the id also names the group it creates and that group's timer
    Presses,         \* control connections, each carrying one approve or deny
    Messages,        \* what an arriving request may be
    PinnedRules,     \* rules whose scope has one exact host and port
    RecordedExpects, \* pairs <<rule, expect>> whose onViolation is "allow"
    Labelled,        \* finding values that are per-request UUIDs
    IOFails,         \* may the write or removal of a pending entry or an audit insert throw?
    MayClose,        \* may the session end while requests are in flight?
    None

ASSUME BrokerAssumption ==
    /\ Requests \cap Presses = {}
    /\ None \notin Requests \cup Messages
    /\ IOFails \in BOOLEAN /\ MayClose \in BOOLEAN
    /\ \A m \in Messages :
         /\ m.kind \in {"authorize", "violation"} /\ m.principal \in {"agent", "dind"}
         /\ m.kind = "authorize" => m.action \in {"allow", "deny", "review"}

VARIABLES
    msg,        \* the message of each request
    pc,         \* where the handler of each request is
    answer,     \* what the handler answers, once it knows
    joined,     \* the handler's local `group`
    groups,     \* this.groups: group key -> group, a group being named by its creator
    keyOf,      \* group.groupKey
    members,    \* group.requests
    waiters,    \* group.waiters
    timer,      \* group.timer
    index,      \* this.requestIndex
    approved, denied, approvedV, deniedV, \* what people pressed
    negCache,   \* this.negativeCache
    files,      \* the pending entries on disk
    shown,      \* the requests that were ever on disk: what a person can press
    credential, \* can the host's credential still be used?
    job,        \* the resolver runs: one per press, one per timer
    closing     \* how far close() has come

remembered == <<approved, denied, approvedV, deniedV>>
grouping == <<groups, keyOf, members, waiters, timer, index>>
handlers == <<msg, pc, answer, joined>>
disk == <<files, shown>>
vars == <<handlers, grouping, remembered, negCache, disk,
                   credential, job, closing>>

-----------------------------------------------------------------------------
(* Identities: what a press is remembered under, and what shares a card. *)

\* Seeded fault: the reason of the review is left out of the key.
ApprovalKeyWithoutReason(x, scope) ==
    <<x.rule, scope, IF scope = "host" THEN <<x.host>> ELSE <<x.host, x.port>> >>

ApprovalKey(x, scope) ==
    <<x.rule, x.reason, scope, IF scope = "host" THEN <<x.host>> ELSE <<x.host, x.port>> >>

ApprovalKeys(x) == {ApprovalKey(x, s) : s \in {"rule", "host-port", "host"}}

\* Seeded fault: requests to one target share a card whatever the reason.
PendingGroupKeyByTarget(m) ==
    [kind |-> "authorize", rule |-> m.rule, reason |-> "rule",
     host |-> m.host, port |-> m.port]

PendingGroupKey(m) ==
    [kind |-> "authorize", rule |-> m.rule, reason |-> m.reason,
     host |-> m.host, port |-> m.port]

\* Seeded fault: the position of the expectation is left out of the key.
ViolationKeyByValue(rule, f) == [rule |-> rule, expect |-> 0, value |-> f.value]

ViolationKey(rule, f) == [rule |-> rule, expect |-> f.expect, value |-> f.value]

ViolationGroupKey(rule, ids) == [kind |-> "violation", rule |-> rule, ids |-> ids]

ViolationNeedsApproval(rule, f) == <<rule, f.expect>> \notin RecordedExpects

Asked(m) == {f \in m.findings : ViolationNeedsApproval(m.rule, f)}

Identities(m) == {ViolationKey(m.rule, f) : f \in Asked(m)}

GroupKey(m) ==
    IF m.kind = "authorize" THEN PendingGroupKey(m)
                            ELSE ViolationGroupKey(m.rule, Identities(m) \ approvedV)

ApprovalScopesFor(key) ==
    IF key.rule \in PinnedRules THEN {"once", "rule"} ELSE {"once", "host-port", "host"}

ViolationScopesFor(key) ==
    IF \A id \in key.ids : id.value \in Labelled THEN {"once"} ELSE {"once", "violation"}

AllowedScopes(key) ==
    IF key.kind = "authorize" THEN ApprovalScopesFor(key) ELSE ViolationScopesFor(key)

Keys ==
    {PendingGroupKey(m) : m \in {x \in Messages : x.kind = "authorize"}}
    \cup UNION {{ViolationGroupKey(m.rule, ids) : ids \in SUBSET Identities(m)} :
                  m \in {x \in Messages : x.kind = "violation"}}

ASSUME KeysAssumption == None \notin Keys

-----------------------------------------------------------------------------
(* Answers. *)

NoAnswer == [decision |-> "none", reason |-> "none", headers |-> "container"]
DenyDecision(reason) == [decision |-> "deny", reason |-> reason, headers |-> "container"]
AllowDecision(reason, headers) ==
    [decision |-> "allow", reason |-> reason, headers |-> headers]

\* decorateAllow: the host's credential replaces the container's, if there is one to use.
DecorateAllow(m) ==
    IF m.kind = "authorize" /\ m.injects /\ credential = "usable" THEN "host" ELSE "container"

\* What authorize() answers without asking anybody; NoAnswer sends it to a card.
AuthorizeDecision(m) ==
    IF m.blocked THEN DenyDecision("blocked")
    ELSE IF m.injects /\ credential = "revoked" THEN DenyDecision("credential-revoked")
    ELSE IF m.action = "deny" \/ (m.principal = "dind" /\ m.action = "review")
           THEN DenyDecision("policy")
    ELSE IF m.action = "allow" THEN AllowDecision("policy", DecorateAllow(m))
    ELSE IF ApprovalKeys(m) \cap denied # {} THEN DenyDecision("denied-by-user")
    ELSE IF ApprovalKeys(m) \cap approved # {}
           THEN AllowDecision("approved", DecorateAllow(m))
    ELSE IF GroupKey(m) \in negCache THEN DenyDecision("recent-deny")
    ELSE NoAnswer

\* What reviewViolations() answers without asking anybody.
ReviewDecision(m) ==
    IF m.principal = "dind" THEN DenyDecision("policy")
    ELSE IF Asked(m) = {} \/ \E f \in Asked(m) : ~f.approvable
           THEN DenyDecision("unapprovable")
    ELSE IF Identities(m) \cap deniedV # {} THEN DenyDecision("denied-by-user")
    ELSE IF Identities(m) \subseteq approvedV THEN AllowDecision("approved", "container")
    ELSE IF GroupKey(m) \in negCache THEN DenyDecision("recent-deny")
    ELSE NoAnswer

Decision(m) == IF m.kind = "authorize" THEN AuthorizeDecision(m) ELSE ReviewDecision(m)

-----------------------------------------------------------------------------
Idle == [pc |-> "idle", outcome |-> "none", scope |-> "none", target |-> None,
         group |-> None, waiter |-> "absent", cur |-> None,
         visited |-> {}, headers |-> "container"]

Init ==
    /\ msg = [r \in Requests |-> None]
    /\ pc = [r \in Requests |-> "idle"]
    /\ answer = [r \in Requests |-> NoAnswer]
    /\ joined = [r \in Requests |-> None]
    /\ groups = [k \in Keys |-> None]
    /\ keyOf = [g \in Requests |-> None]
    /\ members = [g \in Requests |-> {}]
    /\ waiters = [g \in Requests |-> {}]
    /\ timer = [g \in Requests |-> "unset"]
    /\ index = [r \in Requests |-> None]
    /\ approved = {} /\ denied = {} /\ approvedV = {} /\ deniedV = {}
    /\ negCache = {} /\ files = {} /\ shown = {}
    /\ credential = "usable"
    /\ job = [t \in Presses \cup Requests |-> Idle]
    /\ closing = "open"

-----------------------------------------------------------------------------
(* The handler of a request: authorize() and reviewViolations(). *)

\* A connection is accepted and its message parsed; authorize() first stores the
\* request body, so the decision is taken in a later step.
Receive(r, m) ==
    /\ pc[r] = "idle"
    /\ closing = "open"
    /\ msg' = [msg EXCEPT ![r] = m]
    /\ pc' = [pc EXCEPT ![r] = "received"]
    /\ UNCHANGED <<answer, joined, grouping, remembered, negCache, disk,
                   credential, job, closing>>

\* The answer is known at once; it is returned after the audit insert.
Decide(r) ==
    /\ pc[r] = "received"
    /\ Decision(msg[r]) # NoAnswer
    /\ answer' = [answer EXCEPT ![r] = Decision(msg[r])]
    /\ pc' = [pc EXCEPT ![r] = "audit"]
    /\ UNCHANGED <<msg, joined, grouping, remembered, negCache, disk,
                   credential, job, closing>>

Reply(r) ==
    /\ pc[r] = "audit"
    /\ pc' = [pc EXCEPT ![r] = "replied"]
    /\ UNCHANGED <<msg, answer, joined, grouping, remembered, negCache, disk,
                   credential, job, closing>>

\* createPendingGroup / createViolationGroup up to the await of the entry's write.
CreateGroup(r) ==
    LET k == GroupKey(msg[r]) IN
    /\ pc[r] = "received"
    /\ Decision(msg[r]) = NoAnswer
    /\ groups[k] = None
    /\ groups' = [groups EXCEPT ![k] = r]
    /\ keyOf' = [keyOf EXCEPT ![r] = k]
    /\ members' = [members EXCEPT ![r] = {r}]
    /\ timer' = [timer EXCEPT ![r] = "armed"]
    /\ index' = [index EXCEPT ![r] = k]
    /\ joined' = [joined EXCEPT ![r] = r]
    /\ pc' = [pc EXCEPT ![r] = "writing"]
    /\ UNCHANGED <<msg, answer, waiters, remembered, negCache, disk,
                   credential, job, closing>>

\* The question is already on a card: join its group, then write an entry too.
JoinGroup(r) ==
    LET k == GroupKey(msg[r]) IN
    /\ pc[r] = "received"
    /\ Decision(msg[r]) = NoAnswer
    /\ groups[k] # None
    /\ members' = [members EXCEPT ![groups[k]] = @ \cup {r}]
    /\ index' = [index EXCEPT ![r] = k]
    /\ joined' = [joined EXCEPT ![r] = groups[k]]
    /\ pc' = [pc EXCEPT ![r] = "writing"]
    /\ UNCHANGED <<msg, answer, groups, keyOf, waiters, timer, remembered, negCache, disk,
                   credential, job, closing>>

\* The rename makes the entry visible; the handler resumes in a later step.
EntryVisible(r) ==
    /\ pc[r] \in {"writing", "rewriting"}
    /\ files' = files \cup {r}
    /\ shown' = shown \cup {r}
    /\ pc' = [pc EXCEPT ![r] = IF @ = "writing" THEN "written" ELSE "rewritten"]
    /\ UNCHANGED <<msg, answer, joined, grouping, remembered, negCache, credential, job, closing>>

\* Seeded fault: the creator that adds itself again does not enter the index again.
RejoinWithoutIndex(r) ==
    /\ pc[r] = "written"
    /\ joined[r] = r
    /\ r \notin members[r]
    /\ members' = [members EXCEPT ![r] = @ \cup {r}]
    /\ pc' = [pc EXCEPT ![r] = "rewriting"]
    /\ UNCHANGED <<msg, answer, joined, groups, keyOf, waiters, timer, index, remembered,
                   negCache, disk,
                   credential, job, closing>>

\* A creator that was detached while its entry was being written finds itself
\* missing from its own group, adds itself again and writes its entry again.
Rejoin(r) ==
    /\ pc[r] = "written"
    /\ joined[r] = r
    /\ r \notin members[r]
    /\ members' = [members EXCEPT ![r] = @ \cup {r}]
    /\ index' = [index EXCEPT ![r] = keyOf[r]]
    /\ pc' = [pc EXCEPT ![r] = "rewriting"]
    /\ UNCHANGED <<msg, answer, joined, groups, keyOf, waiters, timer, remembered, negCache,
                   disk, credential, job, closing>>

\* Only now does the handler leave a waiter in the group it joined.
RegisterWaiter(r) ==
    /\ \/ pc[r] = "written" /\ ~(joined[r] = r /\ r \notin members[r])
       \/ pc[r] = "rewritten"
    /\ waiters' = [waiters EXCEPT ![joined[r]] = @ \cup {r}]
    /\ pc' = [pc EXCEPT ![r] = "waiting"]
    /\ UNCHANGED <<msg, answer, joined, groups, keyOf, members, timer, index, remembered,
                   negCache, disk,
                   credential, job, closing>>

\* A throwing write or audit ends the handler: the socket is closed unanswered.
Drop(r) ==
    /\ IOFails
    /\ pc[r] \in {"audit", "writing", "rewriting"}
    /\ pc' = [pc EXCEPT ![r] = "dropped"]
    /\ UNCHANGED <<msg, answer, joined, grouping, remembered, negCache, disk,
                   credential, job, closing>>

-----------------------------------------------------------------------------
(* Presses and timers: approve(), deny(), resolveRequest(), resolveGroup(). *)

\* findGroupByRequestId: by way of the key, so it may be a later group of that key.
FindGroupByRequestId(r) == IF index[r] = None THEN None ELSE groups[index[r]]

\* Seeded fault: a press for this request only is remembered like the others.
RememberOnce(key, scope, outcome) ==
    LET new == IF scope = "none" \/ key.kind # "authorize"
                 THEN {} ELSE {ApprovalKey(key, scope)} IN
    /\ approved' = IF outcome = "allow" THEN approved \cup new ELSE approved \ new
    /\ denied' = IF outcome = "deny" THEN denied \cup new ELSE denied \ new
    /\ UNCHANGED <<approvedV, deniedV>>

\* remember: the press goes into one set and its opposite leaves the other.
Remember(key, scope, outcome) ==
    IF key.kind = "authorize"
      THEN LET new == IF scope \in {"rule", "host-port", "host"}
                        THEN {ApprovalKey(key, scope)} ELSE {} IN
           /\ approved' = IF outcome = "allow" THEN approved \cup new ELSE approved \ new
           /\ denied' = IF outcome = "deny" THEN denied \cup new ELSE denied \ new
           /\ UNCHANGED <<approvedV, deniedV>>
      ELSE LET new == IF scope = "violation" THEN key.ids ELSE {} IN
           /\ approvedV' = IF outcome = "allow" THEN approvedV \cup new ELSE approvedV \ new
           /\ deniedV' = IF outcome = "deny" THEN deniedV \cup new ELSE deniedV \ new
           /\ UNCHANGED <<approved, denied>>

\* resolveGroup up to closeNotification: the group leaves the map, its timer is off.
ResolveGroup(t, g, outcome, scope, target) ==
    /\ groups' = [groups EXCEPT ![keyOf[g]] = None]
    /\ job' = [job EXCEPT ![t] =
                 [Idle EXCEPT !.pc = "closing", !.outcome = outcome, !.scope = scope,
                              !.target = target, !.group = g]]
    /\ UNCHANGED <<keyOf, members, waiters, index>>

\* Seeded fault: detachRequest stops the timer although others still wait.
ResolveRequestStopsTimer(t, g, outcome, r) ==
    /\ r \in members[g]
    /\ index' = [index EXCEPT ![r] = None]
    /\ members' = [members EXCEPT ![g] = @ \ {r}]
    /\ waiters' = [waiters EXCEPT ![g] = @ \ {r}]
    /\ timer' = [timer EXCEPT ![g] = "cleared"]
    /\ groups' = IF members[g] = {r} THEN [groups EXCEPT ![keyOf[g]] = None] ELSE groups
    /\ job' = [job EXCEPT ![t] =
                 [Idle EXCEPT !.pc = "closing", !.outcome = outcome, !.scope = "once",
                              !.target = r, !.group = g, !.cur = r,
                              !.waiter = IF r \in waiters[g] THEN "present" ELSE "absent"]]
    /\ UNCHANGED keyOf

\* resolveRequest up to its first real await, detachRequest included: the request
\* leaves its group, and the last one to leave takes the group out of the map.
ResolveRequest(t, g, outcome, r) ==
    /\ r \in members[g]
    /\ index' = [index EXCEPT ![r] = None]
    /\ members' = [members EXCEPT ![g] = @ \ {r}]
    /\ waiters' = [waiters EXCEPT ![g] = @ \ {r}]
    /\ timer' = IF members[g] = {r} THEN [timer EXCEPT ![g] = "cleared"] ELSE timer
    /\ groups' = IF members[g] = {r} THEN [groups EXCEPT ![keyOf[g]] = None] ELSE groups
    /\ job' = [job EXCEPT ![t] =
                 [Idle EXCEPT !.pc = IF members[g] = {r} THEN "closing" ELSE "removing",
                              !.outcome = outcome, !.scope = "once", !.target = r,
                              !.group = g, !.cur = r,
                              !.waiter = IF r \in waiters[g] THEN "present" ELSE "absent"]]
    /\ UNCHANGED keyOf

\* approve() and deny().  A press whose card is gone, or whose scope the card does
\* not offer, is answered with an error and changes nothing.
Press(p, r, outcome, scope) ==
    LET g == FindGroupByRequestId(r) IN
    /\ job[p].pc = "idle"
    /\ r \in shown
    /\ g # None
    /\ scope \in AllowedScopes(keyOf[g]) \cup {"none"}
    /\ LET selected == IF outcome = "allow" /\ scope = "none" THEN "once" ELSE scope IN
       /\ Remember(keyOf[g], selected, outcome)
       /\ \/ selected = "once" /\ ResolveRequest(p, g, outcome, r)
          \/ /\ selected # "once"
             /\ ResolveGroup(p, g, outcome, selected, r)
             /\ timer' = [timer EXCEPT ![g] = "cleared"]
    /\ UNCHANGED <<handlers, negCache, disk, credential, closing>>

\* The timer of group g fires; its callback resolves whatever group has the key now.
Timeout(g) ==
    /\ timer[g] = "armed"
    /\ LET now == groups[keyOf[g]] IN
       IF now = None
         THEN /\ timer' = [timer EXCEPT ![g] = "fired"]
              /\ UNCHANGED <<groups, keyOf, members, waiters, index, job>>
         ELSE /\ timer' = [timer EXCEPT ![now] = "cleared", ![g] = "fired"]
              /\ ResolveGroup(g, now, "deny", "none", None)
    /\ UNCHANGED <<handlers, remembered, negCache, disk, credential, closing>>

\* A resolver that ends leaves behind only what was pressed.
Ended(t, how) == [job[t] EXCEPT !.pc = how, !.group = None, !.waiter = "absent", !.cur = None,
                                !.visited = {}, !.headers = "container"]

\* The loop of resolveAuthorizeGroup / resolveViolationGroup takes its next request
\* (in whatever order they joined) or ends.
TakeNext(t, visited) ==
    LET g == job[t].group
        left == members[g] \ visited IN
    \/ /\ left = {}
       /\ job' = [job EXCEPT ![t] = Ended(t, "done")]
       /\ UNCHANGED index
    \/ \E c \in left :
         /\ job' = [job EXCEPT ![t].pc = "removing", ![t].cur = c,
                              ![t].visited = visited \cup {c}]
         /\ index' = [index EXCEPT ![c] = None]

NotificationClosed(t) ==
    /\ job[t].pc = "closing"
    /\ IF job[t].scope = "once"
         THEN /\ job' = [job EXCEPT ![t].pc = "removing"]
              /\ UNCHANGED <<index, negCache>>
         ELSE /\ negCache' = IF job[t].outcome = "deny" /\ job[t].scope = "none"
                               THEN negCache \cup {keyOf[job[t].group]} ELSE negCache
              /\ TakeNext(t, {})
    /\ UNCHANGED <<handlers, groups, keyOf, members, waiters, timer, remembered, disk,
                   credential, closing>>

\* removePendingEntry has finished; the answer is made up before the audit insert.
EntryRemoved(t) ==
    /\ job[t].pc = "removing"
    /\ files' = files \ {job[t].cur}
    /\ job' = [job EXCEPT ![t].pc = "auditing",
                          ![t].headers = DecorateAllow(msg[job[t].cur])]
    /\ UNCHANGED <<handlers, grouping, remembered, negCache, shown, credential, closing>>

JobAnswer(t) ==
    [decision |-> job[t].outcome,
     reason |-> IF job[t].outcome = "allow" THEN "approved-by-user"
                ELSE IF t \in Presses THEN "denied-by-user" ELSE "prompt-timeout",
     headers |-> IF job[t].outcome = "allow" THEN job[t].headers ELSE "container"]

\* The audit insert has finished: whoever waits for this request gets the answer,
\* and only the first answer counts.
AuditWritten(t) ==
    LET c == job[t].cur
        waits == IF job[t].scope = "once" THEN job[t].waiter = "present"
                 ELSE c \in waiters[job[t].group] IN
    /\ job[t].pc = "auditing"
    /\ IF waits /\ pc[c] = "waiting"
         THEN /\ pc' = [pc EXCEPT ![c] = "replied"]
              /\ answer' = [answer EXCEPT ![c] = JobAnswer(t)]
         ELSE UNCHANGED <<pc, answer>>
    /\ IF job[t].scope = "once"
         THEN job' = [job EXCEPT ![t] = Ended(t, "done")] /\ UNCHANGED index
         ELSE TakeNext(t, job[t].visited)
    /\ UNCHANGED <<msg, joined, groups, keyOf, members, waiters, timer, remembered, negCache,
                   disk, credential, closing>>

\* removePendingEntry (which rethrows all but ENOENT) or the audit insert throws: that
\* ends the resolver and with it the rest of its loop.  An entry not removed stays.
ResolverFails(t) ==
    /\ IOFails
    /\ job[t].pc \in {"removing", "auditing"}
    /\ job' = [job EXCEPT ![t] = Ended(t, "aborted")]
    /\ UNCHANGED <<handlers, grouping, remembered, negCache, disk, credential, closing>>

-----------------------------------------------------------------------------
(* The rest: the cache's clock, the host credential, close(). *)

Expire(k) ==
    /\ k \in negCache
    /\ negCache' = negCache \ {k}
    /\ UNCHANGED <<handlers, grouping, remembered, disk, credential, job, closing>>

\* The host replaced its credential file: headers() is null from now on.
Revoke ==
    /\ \E m \in Messages : m.kind = "authorize" /\ m.injects
    /\ credential = "usable"
    /\ credential' = "revoked"
    /\ UNCHANGED <<handlers, grouping, remembered, negCache, disk, job, closing>>

LiveGroups == {g \in Requests : \E k \in Keys : groups[k] = g}

\* Seeded fault: close() stops the timers and leaves the waiters to themselves.
CloseBeginSilently ==
    /\ MayClose
    /\ closing = "open"
    /\ closing' = "closing"
    /\ timer' = [g \in Requests |-> IF g \in LiveGroups THEN "cleared" ELSE timer[g]]
    /\ UNCHANGED <<handlers, groups, keyOf, members, waiters, index, remembered, negCache,
                   disk, credential, job>>

\* close() up to the wait for the notification tasks.
CloseBegin ==
    LET told == {r \in Requests : pc[r] = "waiting" /\ \E g \in LiveGroups : r \in waiters[g]} IN
    /\ MayClose
    /\ closing = "open"
    /\ closing' = "closing"
    /\ timer' = [g \in Requests |-> IF g \in LiveGroups THEN "cleared" ELSE timer[g]]
    /\ pc' = [r \in Requests |-> IF r \in told THEN "replied" ELSE pc[r]]
    /\ answer' = [r \in Requests |-> IF r \in told THEN DenyDecision("broker closed")
                                      ELSE answer[r]]
    /\ UNCHANGED <<msg, joined, groups, keyOf, members, waiters, index, remembered, negCache,
                   disk, credential, job>>

ClearPolicyState ==
    /\ closing = "closing"
    /\ closing' = "cleared"
    /\ groups' = [k \in Keys |-> None]
    /\ index' = [r \in Requests |-> None]
    /\ approved' = {} /\ denied' = {} /\ approvedV' = {} /\ deniedV' = {}
    /\ negCache' = {}
    /\ UNCHANGED <<handlers, keyOf, members, waiters, timer, disk, credential, job>>

RemovePendingDir ==
    /\ closing = "cleared"
    /\ closing' = "closed"
    /\ files' = {}
    /\ UNCHANGED <<handlers, grouping, remembered, negCache, shown, credential, job>>

-----------------------------------------------------------------------------
HandlerStep(r) ==
    \/ Decide(r) \/ Reply(r) \/ CreateGroup(r) \/ JoinGroup(r)
    \/ EntryVisible(r) \/ Rejoin(r) \/ RegisterWaiter(r)

JobStep(t) == NotificationClosed(t) \/ EntryRemoved(t) \/ AuditWritten(t)

CloseStep == ClearPolicyState \/ RemovePendingDir

Scopes == {"none", "once", "rule", "host-port", "host", "violation"}

Next ==
    \/ \E r \in Requests : (\E m \in Messages : Receive(r, m)) \/ HandlerStep(r) \/ Drop(r)
    \/ \E p \in Presses, r \in Requests, o \in {"allow", "deny"}, s \in Scopes :
          Press(p, r, o, s)
    \/ \E g \in Requests : Timeout(g)
    \/ \E t \in Presses \cup Requests : JobStep(t) \/ ResolverFails(t)
    \/ \E k \in Keys : Expire(k)
    \/ Revoke \/ CloseBegin \/ CloseStep

Spec == Init /\ [][Next]_vars

\* Every await in the broker returns (file system, audit database, notification
\* daemon) and setTimeout fires.  Arrivals, presses, revocation, cache expiry and
\* close() itself are up to the outside.
Fairness ==
    /\ \A r \in Requests : WF_vars(HandlerStep(r)) /\ WF_vars(Timeout(r))
    /\ \A t \in Presses \cup Requests : WF_vars(JobStep(t))
    /\ WF_vars(CloseStep)

FairSpec == Spec /\ Fairness

-----------------------------------------------------------------------------
(* Properties. *)

Answers == [decision : {"none", "allow", "deny"},
            reason : {"none", "blocked", "credential-revoked", "policy", "unapprovable",
                      "denied-by-user", "approved", "recent-deny", "approved-by-user",
                      "prompt-timeout", "broker closed"},
            headers : {"host", "container"}]

Jobs == [pc : {"idle", "closing", "removing", "auditing", "done", "aborted"},
         outcome : {"none", "allow", "deny"}, scope : Scopes,
         target : Requests \cup {None}, group : Requests \cup {None},
         waiter : {"absent", "present"}, cur : Requests \cup {None},
         visited : SUBSET Requests, headers : {"host", "container"}]

AuthorizeIdentities ==
    UNION {ApprovalKeys(m) : m \in {x \in Messages : x.kind = "authorize"}}

ViolationIdentities ==
    UNION {Identities(m) : m \in {x \in Messages : x.kind = "violation"}}

\* Every variable has its type.  In particular the memory of authorize presses holds
\* only authorize identities and the memory of violation presses only violation
\* identities (broker.ts keeps them apart so that neither unlocks the other).
TypeOK ==
    /\ msg \in [Requests -> Messages \cup {None}]
    /\ pc \in [Requests -> {"idle", "received", "audit", "writing", "written", "rewriting",
                            "rewritten", "waiting", "replied", "dropped"}]
    /\ answer \in [Requests -> Answers]
    /\ joined \in [Requests -> Requests \cup {None}]
    /\ groups \in [Keys -> Requests \cup {None}]
    /\ keyOf \in [Requests -> Keys \cup {None}]
    /\ members \in [Requests -> SUBSET Requests]
    /\ waiters \in [Requests -> SUBSET Requests]
    /\ timer \in [Requests -> {"unset", "armed", "cleared", "fired"}]
    /\ index \in [Requests -> Keys \cup {None}]
    /\ approved \subseteq AuthorizeIdentities /\ denied \subseteq AuthorizeIdentities
    /\ approvedV \subseteq ViolationIdentities /\ deniedV \subseteq ViolationIdentities
    /\ negCache \subseteq Keys
    /\ files \subseteq Requests /\ shown \subseteq Requests
    /\ credential \in {"usable", "revoked"}
    /\ job \in [Presses \cup Requests -> Jobs]
    /\ closing \in {"open", "closing", "cleared", "closed"}

\* What a card shows: the request it was put up for.  A press on it, read with its
\* scope, speaks for requests of the same rule, for the same reason, at the same place.
SpeaksFor(c, scope, m) ==
    /\ c.kind = "authorize" /\ m.kind = "authorize"
    /\ c.rule = m.rule /\ c.reason = m.reason /\ c.host = m.host
    /\ scope = "host" \/ c.port = m.port

\* The card of a violation review shows this finding of this rule.
Shows(c, rule, f) ==
    /\ c.kind = "violation" /\ c.rule = rule
    /\ \E x \in c.findings : x.expect = f.expect /\ x.value = f.value

Pressed(p, outcome) == p \in Presses /\ job[p].pc # "idle" /\ job[p].outcome = outcome

Card(p) == msg[job[p].target]

PressedOnce(r) ==
    \E p \in Presses : Pressed(p, "allow") /\ job[p].scope = "once" /\ job[p].target = r

PressedWide(m) ==
    \E p \in Presses :
      Pressed(p, "allow") /\ job[p].scope # "once" /\ SpeaksFor(Card(p), job[p].scope, m)

PressedFinding(rule, f) ==
    \E p \in Presses :
      Pressed(p, "allow") /\ job[p].scope = "violation" /\ Shows(Card(p), rule, f)

ApprovedByPerson(r) ==
    \/ PressedOnce(r)
    \/ PressedWide(msg[r])
    \/ msg[r].kind = "violation" /\ \A f \in Asked(msg[r]) : PressedFinding(msg[r].rule, f)

\* The policy lets r through, or a person did -- and no person helps docker-in-docker.
Justified(r) ==
    \/ msg[r].kind = "authorize" /\ msg[r].action = "allow" /\ ~msg[r].blocked
    \/ msg[r].principal = "agent" /\ ApprovedByPerson(r)

\* No request gets out of the sandbox unless the policy allows it or a person
\* pressed for it: for that very request, or -- with a wider scope -- on a card of the
\* same rule, reason and place, or on cards that showed every violation it has.
\* Presses on one kind of card never let the other kind through, and the
\* docker-in-docker principal is never helped by a press.
AllowIsJustified ==
    \A r \in Requests : answer[r].decision = "allow" => Justified(r)

\* A card that asks what request m asks, or -- violations -- part of it.
SameQuestion(c, scope, m) ==
    \/ SpeaksFor(c, scope, m)
    \/ m.kind = "violation" /\ \E f \in Asked(m) : Shows(c, m.rule, f)

\* A denial says truly where it comes from: "denied-by-user" needs a deny pressed on a
\* card with this question (or with one of its violations), "recent-deny" an unscoped
\* deny or a timeout of the same question, "prompt-timeout" a timer of the same
\* question.
DenyIsJustified ==
    \A r \in Requests :
      /\ answer[r].reason = "denied-by-user" =>
           \E p \in Presses : Pressed(p, "deny") /\ SameQuestion(Card(p), job[p].scope, msg[r])
      /\ answer[r].reason = "recent-deny" =>
           \/ \E p \in Presses : /\ Pressed(p, "deny") /\ job[p].scope = "none"
                                 /\ SameQuestion(Card(p), "none", msg[r])
           \/ \E g \in Requests : timer[g] = "fired" /\ SameQuestion(msg[g], "none", msg[r])
      /\ answer[r].reason = "prompt-timeout" =>
           \E g \in Requests : timer[g] = "fired" /\ SameQuestion(msg[g], "none", msg[r])

\* Until close() clears the maps, a group that can still be pressed has its timer
\* running (so that it cannot wait for ever), and a running timer belongs to the
\* group its key leads to (so that it never times out somebody else's card).
TimerGuardsGroup ==
    closing = "open" =>
      \A g \in Requests : timer[g] = "armed" <=> (keyOf[g] # None /\ groups[keyOf[g]] = g)

\* A request that sits in a group that can still be pressed can itself be pressed:
\* requestIndex leads from its id to that group.
MembersCanBePressed ==
    \A g \in LiveGroups, r \in Requests :
      closing \in {"open", "closing"} /\ r \in members[g] => FindGroupByRequestId(r) = g

\* Resolver t has r's group in its hands, or r alone.
InHand(t, r) ==
    /\ job[t].pc \in {"closing", "removing", "auditing"}
    /\ job[t].group = joined[r]
    /\ job[t].scope = "once" => job[t].cur = r

\* The removal of an entry or an audit insert threw, and nothing has r in hand any more.
Abandoned(r) ==
    /\ joined[r] \in LiveGroups => r \notin members[joined[r]]
    /\ \A t \in Presses \cup Requests : ~InHand(t, r)
    /\ \E t \in Presses \cup Requests : job[t].pc = "aborted"

\* A request whose waiter is in place before its group is resolved, and before close()
\* has walked the groups, gets an answer, and its card leaves the disk.  What leaves it
\* waiting is the removal of a pending entry or an audit insert that throws in a resolver
\* and ends it (resolveRequest, resolveAuthorizeGroup, resolveViolationGroup), nothing else.
WaiterIsAnswered ==
    \A r \in Requests :
      (/\ closing = "open" /\ pc[r] = "waiting" /\ joined[r] \in LiveGroups
       /\ r \in members[joined[r]] \cap waiters[joined[r]])
        ~> (pc[r] = "replied" /\ r \notin files) \/ Abandoned(r)

\* What nas_addon.py says of the broker: a query that waits always gets an answer.
AlwaysAnswered ==
    \A r \in Requests : pc[r] = "waiting" ~> pc[r] = "replied"

\* What authorize() says of a revoked host credential: a request to the credential's
\* target never leaves with the container's own credential on it.
NeverBareAfterRevocation ==
    \A r \in Requests :
      (pc[r] = "replied" /\ answer[r].decision = "allow" /\ msg[r].kind = "authorize")
        => (msg[r].injects => answer[r].headers = "host")

-----------------------------------------------------------------------------
(* Why AllowIsJustified holds: what a group key says of every request filed *)
(* under it, and what every remembered press says of the card it was made on. *)

Known(r) == pc[r] # "idle" /\ msg[r] \in Messages

\* r asks what the card of key k asks, save for findings a person has let pass before.
Fits(k, r) ==
    /\ Known(r)
    /\ msg[r].principal = "agent"
    /\ k.kind = msg[r].kind
    /\ k.kind = "authorize" => k = PendingGroupKey(msg[r])
    /\ k.kind = "violation" =>
         /\ k.rule = msg[r].rule
         /\ k.ids \subseteq Identities(msg[r])
         /\ \A f \in Asked(msg[r]) :
              ViolationKey(msg[r].rule, f) \in k.ids \/ PressedFinding(msg[r].rule, f)

HandlersKnown ==
    \A r \in Requests :
      /\ IF pc[r] = "idle" THEN answer[r] = NoAnswer ELSE Known(r)
      /\ pc[r] \in {"writing", "written", "rewriting", "rewritten", "waiting"} =>
           joined[r] \in Requests /\ keyOf[joined[r]] # None

IndexFits == \A r \in Requests, k \in Keys : index[r] = k => Fits(k, r)

\* A group's key is set once, by its creator, and fits the creator and every member.
GroupsFit ==
    /\ \A k \in Keys : groups[k] # None => keyOf[groups[k]] = k
    /\ \A g \in Requests :
         /\ keyOf[g] # None => pc[g] \notin {"idle", "received"}
         /\ timer[g] = "armed" \/ members[g] # {} => keyOf[g] # None
         /\ \A k \in Keys : keyOf[g] = k => \A r \in members[g] \cup {g} : Fits(k, r)

MemoryFits ==
    /\ \A a \in approved :
         \E p \in Presses : /\ Pressed(p, "allow")
                           /\ job[p].scope \in {"rule", "host-port", "host"}
                           /\ Card(p).kind = "authorize" /\ a = ApprovalKey(Card(p), job[p].scope)
    /\ \A id \in approvedV :
         \E p \in Presses : /\ Pressed(p, "allow") /\ job[p].scope = "violation"
                           /\ Card(p).kind = "violation" /\ id \in Identities(Card(p))

Running(t) == job[t].pc \in {"closing", "removing", "auditing"}

\* A resolver works on a group whose key fits the card that was pressed and the
\* request it is answering.
JobFits(t) ==
    /\ t \in Presses /\ job[t].pc # "idle" => \E r \in Requests : job[t].target = r /\ Known(r)
    /\ t \in Requests /\ job[t].pc # "idle" => job[t].outcome = "deny" /\ job[t].scope # "once"
    /\ Running(t) =>
         /\ job[t].group \in Requests /\ keyOf[job[t].group] # None
         /\ job[t].scope = "once" => job[t].cur = job[t].target
         /\ job[t].scope # "once" /\ job[t].pc # "closing" => job[t].cur \in Requests
         /\ \A k \in Keys : keyOf[job[t].group] = k =>
              /\ job[t].outcome = "allow" => job[t].scope \in AllowedScopes(k)
              /\ \A r \in Requests :
                   (\/ t \in Presses /\ r = job[t].target
                    \/ job[t].scope # "once" /\ job[t].pc # "closing" /\ r = job[t].cur) => Fits(k, r)

JobsFit == \A t \in Presses \cup Requests : JobFits(t)

Inv ==
    /\ TypeOK /\ HandlersKnown /\ IndexFits /\ GroupsFit /\ MemoryFits /\ JobsFit
    /\ AllowIsJustified
=============================================================================
