---------------------------- MODULE HostExecBroker ----------------------------
(***************************************************************************)
(* The host-exec broker (src/src/hostexec/broker.ts, HostExecBroker).      *)
(*                                                                         *)
(* A command the agent may not run inside the sandbox is sent, through a   *)
(* gateway process, to this broker.  It runs at once when a rule or an     *)
(* earlier press allows it and the file it names has not changed since the *)
(* session began; otherwise the request waits on a card.  Requests for the *)
(* same capability share a group, one timer and, if a person says so, one  *)
(* press.  The peer may disappear at any time, and every await lets        *)
(* handlers, cancellations, presses and timers interleave.                 *)
(***************************************************************************)
EXTENDS Naturals, FiniteSets

CONSTANTS
    Requests,      \* gateway connections (their request ids are distinct); also name groups and timers
    Presses,       \* control connections, each carrying one approve or deny
    Commands,      \* what is asked: [key, approval], approval what the matching rule says
    Keys,          \* approval keys (digests of a capability)
    PromptEnabled, \* config.prompt.enable
    IOFails,       \* may an audit insert or the removal of an entry throw?
    MayClose,      \* may the session end while requests are in flight?
    Verdicts,      \* what the integrity check may return
    Leavers,       \* bound: the requests whose peer may go away
    None

ASSUME HostExecAssumption ==
    /\ Requests \cap Presses = {}
    /\ None \notin Requests /\ None \notin Keys /\ None \notin Commands
    /\ PromptEnabled \in BOOLEAN /\ IOFails \in BOOLEAN /\ MayClose \in BOOLEAN
    /\ Verdicts \subseteq {"pass", "prompt", "error"} /\ Leavers \subseteq Requests
    /\ \A c \in Commands : c.key \in Keys /\ c.approval \in {"allow", "prompt", "deny", "none"}

VARIABLES
    cmd,          \* the command of each request
    pc,           \* where executeStreaming is
    life,         \* GatewayRequestLifecycle.state
    deferred,     \* requests with a deferredMonitorEvent: the gateway withdrew them early
    verdict,      \* integrityVerdict
    cleanup,      \* removePendingRequest for a request whose peer is gone: how far, how it ended
    cleaning,     \* the group the cleanup task holds, None if it found none
    answer,       \* what the gateway was told
    started,      \* requests whose command was started on the host
    released,     \* requests whose deferred promise was resolved
    groups,       \* this.groups: approval key -> group, named by its creator
    keyOf,        \* group.approvalKey
    members,      \* group.requests; its waiters and pendingEntries have the same ids
    timer,        \* group.timer
    index,        \* this.requestToApprovalKey
    approvedKeys, \* this.approvedKeys
    files, shown, \* the pending entries on disk; the ones that were ever there
    job,          \* resolveGroup runs: one per press, one per timer
    closing       \* how far close() has come

request == <<cmd, pc, life, deferred, verdict, answer, started, released>>
tidying == <<cleanup, cleaning>>
grouping == <<groups, keyOf, members, timer, index>>
disk == <<files, shown>>
vars == <<request, tidying, grouping, approvedKeys, disk, job, closing>>

Idle == [pc |-> "idle", outcome |-> "none", scope |-> "none", group |-> None, cur |-> None,
         todo |-> {}, covers |-> {}, target |-> None]

Init ==
    /\ cmd = [r \in Requests |-> None]
    /\ pc = [r \in Requests |-> "idle"]
    /\ life = [r \in Requests |-> "preflight"]
    /\ verdict = [r \in Requests |-> "none"]
    /\ cleanup = [r \in Requests |-> "none"]
    /\ cleaning = [r \in Requests |-> None]
    /\ answer = [r \in Requests |-> "none"]
    /\ deferred = {} /\ started = {} /\ released = {}
    /\ groups = [k \in Keys |-> None]
    /\ keyOf = [g \in Requests |-> None]
    /\ members = [g \in Requests |-> {}]
    /\ timer = [g \in Requests |-> "unset"]
    /\ index = [r \in Requests |-> None]
    /\ approvedKeys = {} /\ files = {} /\ shown = {}
    /\ job = [t \in Presses \cup Requests |-> Idle]
    /\ closing = "open"

Cancelled(r) == life[r] = "cancelled"

-----------------------------------------------------------------------------
(* The handler of a request: handleGatewayConnection() and executeStreaming(). *)

Receive(r, c) ==
    /\ pc[r] = "idle"
    /\ closing = "open"
    /\ cmd' = [cmd EXCEPT ![r] = c]
    /\ pc' = [pc EXCEPT ![r] = "resolving"]
    /\ UNCHANGED <<life, deferred, verdict, answer, started, released, tidying, grouping,
                   approvedKeys, disk, job, closing>>

\* The rule has been matched; a request no rule matches goes back to the sandbox.
Resolve(r) ==
    /\ pc[r] = "resolving"
    /\ LET a == cmd[r].approval IN
       IF Cancelled(r) THEN pc' = [pc EXCEPT ![r] = "done"] /\ UNCHANGED <<life, answer>>
       ELSE IF a = "none"
         THEN /\ pc' = [pc EXCEPT ![r] = "done"]
              /\ life' = [life EXCEPT ![r] = "terminal"]
              /\ answer' = [answer EXCEPT ![r] = "fallback"]
       ELSE /\ pc' = [pc EXCEPT ![r] = IF a = "deny" THEN "refusing" ELSE "checking"]
            /\ UNCHANGED <<life, answer>>
    /\ UNCHANGED <<cmd, deferred, verdict, started, released, tidying, grouping, approvedKeys, disk,
                   job, closing>>

\* Seeded fault: an "allow" rule or a remembered press is enough, whatever became of the file.
OutcomeIgnoringFile(r, v) ==
    IF v = "error" \/ (v = "prompt" /\ ~PromptEnabled) THEN "refusing"
    ELSE IF cmd[r].approval = "allow" \/ cmd[r].key \in approvedKeys \/ ~PromptEnabled
      THEN IF cmd[r].approval = "prompt" /\ ~PromptEnabled THEN "refusing" ELSE "admitting"
    ELSE "asking"

\* What follows from the rule, the file, the presses so far and the configuration.
Outcome(r, v) ==
    IF v = "error" \/ (v = "prompt" /\ ~PromptEnabled) THEN "refusing"
    ELSE IF v = "pass" /\ (\/ cmd[r].approval = "allow"
                           \/ cmd[r].key \in approvedKeys
                           \/ ~PromptEnabled)
      THEN IF cmd[r].approval = "prompt" /\ ~PromptEnabled THEN "refusing" ELSE "admitting"
    ELSE "asking"

\* Seeded fault: the request that must be asked about falls through.
CheckFallsThrough(r, v) ==
    /\ pc[r] = "checking"
    /\ verdict' = [verdict EXCEPT ![r] = v]
    /\ pc' = [pc EXCEPT ![r] = IF Cancelled(r) THEN "done" ELSE Outcome(r, v)]
    /\ UNCHANGED <<cmd, life, deferred, answer, started, released, tidying, grouping, approvedKeys,
                   disk, job, closing>>

\* The integrity check has returned v and nobody needs to be asked.
Check(r, v) ==
    /\ pc[r] = "checking"
    /\ Cancelled(r) \/ Outcome(r, v) # "asking"
    /\ verdict' = [verdict EXCEPT ![r] = v]
    /\ pc' = [pc EXCEPT ![r] = IF Cancelled(r) THEN "done" ELSE Outcome(r, v)]
    /\ UNCHANGED <<cmd, life, deferred, answer, started, released, tidying, grouping, approvedKeys,
                   disk, job, closing>>

\* The audit insert of a refusal or of an immediate run has finished.
Audited(r) ==
    /\ pc[r] \in {"refusing", "admitting"}
    /\ IF Cancelled(r)
         THEN pc' = [pc EXCEPT ![r] = "done"] /\ UNCHANGED <<life, answer, started>>
       ELSE IF pc[r] = "refusing"
         THEN /\ pc' = [pc EXCEPT ![r] = "done"]
              /\ life' = [life EXCEPT ![r] = "terminal"]
              /\ answer' = [answer EXCEPT ![r] = "denied"]
              /\ UNCHANGED started
       ELSE /\ pc' = [pc EXCEPT ![r] = "running"]
            /\ life' = [life EXCEPT ![r] = "running"]
            /\ started' = started \cup {r}
            /\ UNCHANGED answer
    /\ UNCHANGED <<cmd, deferred, verdict, released, tidying, grouping, approvedKeys, disk, job,
                   closing>>

RunEnds(r) ==
    /\ pc[r] = "running"
    /\ pc' = [pc EXCEPT ![r] = "done"]
    /\ life' = [life EXCEPT ![r] = IF @ = "cancelled" THEN @ ELSE "terminal"]
    /\ answer' = [answer EXCEPT ![r] = IF Cancelled(r) THEN @ ELSE "ran"]
    /\ UNCHANGED <<cmd, deferred, verdict, started, released, tidying, grouping, approvedKeys, disk,
                   job, closing>>

\* Somebody must be asked, but the gateway has withdrawn the request meanwhile: the
\* line the monitor kept back is handled now and cancels it.
AskWithdrawn(r, v) ==
    /\ pc[r] = "checking" /\ ~Cancelled(r) /\ Outcome(r, v) = "asking"
    /\ r \in deferred
    /\ verdict' = [verdict EXCEPT ![r] = v]
    /\ deferred' = deferred \ {r}
    /\ life' = [life EXCEPT ![r] = "cancelled"]
    /\ cleanup' = [cleanup EXCEPT ![r] = "started"]
    /\ pc' = [pc EXCEPT ![r] = "done"]
    /\ UNCHANGED <<cmd, answer, started, released, cleaning, grouping, approvedKeys, disk, job,
                   closing>>

\* Join the group of this key, or create it and arm its timer; the waiter is in place
\* before the entry is written.
Ask(r, v) ==
    LET k == cmd[r].key
        g == IF groups[k] = None THEN r ELSE groups[k] IN
    /\ pc[r] = "checking" /\ ~Cancelled(r) /\ Outcome(r, v) = "asking"
    /\ r \notin deferred
    /\ verdict' = [verdict EXCEPT ![r] = v]
    /\ life' = [life EXCEPT ![r] = "awaiting"]
    /\ groups' = [groups EXCEPT ![k] = g]
    /\ keyOf' = [keyOf EXCEPT ![g] = k]
    /\ timer' = IF groups[k] = None THEN [timer EXCEPT ![g] = "armed"] ELSE timer
    /\ members' = [members EXCEPT ![g] = @ \cup {r}]
    /\ index' = [index EXCEPT ![r] = k]
    /\ pc' = [pc EXCEPT ![r] = "writing"]
    /\ UNCHANGED <<cmd, deferred, answer, started, released, tidying, approvedKeys, disk, job, closing>>

EntryVisible(r) ==
    /\ pc[r] = "writing"
    /\ files' = files \cup {r}
    /\ shown' = shown \cup {r}
    /\ pc' = [pc EXCEPT ![r] = "written"]
    /\ UNCHANGED <<cmd, life, deferred, verdict, answer, started, released, tidying, grouping,
                   approvedKeys, job, closing>>

\* Seeded fault: a handler cancelled while it wrote its entry does not look back.
ResumeUnchecked(r) ==
    /\ pc[r] = "written"
    /\ pc' = [pc EXCEPT ![r] = "waiting"]
    /\ UNCHANGED <<cmd, life, deferred, verdict, answer, started, released, tidying, grouping,
                   approvedKeys, disk, job, closing>>

Resume(r) ==
    /\ pc[r] = "written"
    /\ pc' = [pc EXCEPT ![r] = IF Cancelled(r) THEN "leaving" ELSE "waiting"]
    /\ UNCHANGED <<cmd, life, deferred, verdict, answer, started, released, tidying, grouping,
                   approvedKeys, disk, job, closing>>

\* The cleanup task is over; removePendingRequest runs once more (it finds no group).
Leave(r) ==
    /\ pc[r] = "leaving"
    /\ cleanup[r] \in {"done", "failed"}
    /\ files' = files \ {r}
    /\ cleanup' = [cleanup EXCEPT ![r] = "done"]
    /\ pc' = [pc EXCEPT ![r] = "done"]
    /\ UNCHANGED <<cmd, life, deferred, verdict, answer, started, released, cleaning, grouping,
                   approvedKeys, shown, job, closing>>

\* That removal throws: handleGatewayConnection catches it and says nothing.
LeaveFails(r) ==
    /\ IOFails
    /\ pc[r] = "leaving"
    /\ cleanup[r] \in {"done", "failed"}
    /\ cleanup' = [cleanup EXCEPT ![r] = "failed"]
    /\ pc' = [pc EXCEPT ![r] = "done"]
    /\ UNCHANGED <<cmd, life, deferred, verdict, answer, started, released, cleaning, grouping,
                   approvedKeys, disk, job, closing>>

WakeUp(r) ==
    /\ pc[r] = "waiting"
    /\ r \in released
    /\ pc' = [pc EXCEPT ![r] = "done"]
    /\ UNCHANGED <<cmd, life, deferred, verdict, answer, started, released, tidying, grouping,
                   approvedKeys, disk, job, closing>>

-----------------------------------------------------------------------------
(* The peer goes away: GatewayRequestLifecycle and removePendingRequest(). *)

\* lifecycle.cancel: it wins over everything but a terminal state.
Cancel(r) ==
    /\ pc[r] \notin {"idle", "done"} /\ r \notin released
    /\ life[r] \notin {"cancelled", "terminal"}
    /\ life' = [life EXCEPT ![r] = "cancelled"]
    /\ cleanup' = [cleanup EXCEPT ![r] = "started"]
    /\ UNCHANGED <<cleaning, deferred>>

\* The peer goes away: its socket closes or fails, which cancels the request in any
\* state; or the gateway sends a line (a cancellation, an error, the end), which is
\* kept back until somebody is to be asked, obeyed while the request waits, and left
\* to the execution once it runs.
PeerLeaves(r) ==
    /\ r \in Leavers
    /\ \/ Cancel(r)
       \/ /\ life[r] = "preflight" /\ pc[r] \notin {"idle", "done"}
          /\ deferred' = deferred \cup {r}
          /\ UNCHANGED <<life, tidying>>
    /\ UNCHANGED <<cmd, pc, verdict, answer, started, released, grouping, approvedKeys, disk, job,
                   closing>>

\* findGroupByRequestId: by way of the key, so it may be a later group of that key.
FindGroupByRequestId(r) == IF index[r] = None THEN None ELSE groups[index[r]]

\* removePendingRequest up to the removal of the entry.
CleanupBegin(r) ==
    LET g == FindGroupByRequestId(r) IN
    /\ cleanup[r] = "started"
    /\ index' = [index EXCEPT ![r] = None]
    /\ cleaning' = [cleaning EXCEPT ![r] = g]
    /\ cleanup' = [cleanup EXCEPT ![r] = IF g # None /\ r \in members[g] THEN "removing waiter"
                                                                         ELSE "removing"]
    /\ members' = IF g = None THEN members ELSE [members EXCEPT ![g] = @ \ {r}]
    /\ UNCHANGED <<request, groups, keyOf, timer, approvedKeys, disk, job, closing>>

\* The entry is gone; a group that is empty NOW goes too, if it is still the one in the map.
CleanupRemoved(r) ==
    LET g == cleaning[r]
        empty == g # None /\ members[g] = {} IN
    /\ cleanup[r] \in {"removing", "removing waiter"}
    /\ files' = files \ {r}
    /\ timer' = IF empty THEN [timer EXCEPT ![g] = "cleared"] ELSE timer
    /\ groups' = IF empty /\ groups[keyOf[g]] = g THEN [groups EXCEPT ![keyOf[g]] = None]
                                                 ELSE groups
    /\ IF empty
         THEN /\ cleanup' = [cleanup EXCEPT ![r] = IF @ = "removing" THEN "closing"
                                                                    ELSE "closing waiter"]
              /\ UNCHANGED <<cleaning, released>>
         ELSE /\ cleanup' = [cleanup EXCEPT ![r] = "done"]
              /\ cleaning' = [cleaning EXCEPT ![r] = None]
              /\ released' = IF cleanup[r] = "removing waiter" THEN released \cup {r} ELSE released
    /\ UNCHANGED <<cmd, pc, life, deferred, verdict, answer, started, keyOf, members, index,
                   approvedKeys, shown, job, closing>>

\* The removal of the entry throws and startCleanup only logs it: the group stays as it
\* is, with the request out of it, and a waiter that was taken out is not resolved.
CleanupFails(r) ==
    /\ IOFails
    /\ cleanup[r] \in {"removing", "removing waiter"}
    /\ cleanup' = [cleanup EXCEPT ![r] = "failed"]
    /\ cleaning' = [cleaning EXCEPT ![r] = None]
    /\ UNCHANGED <<request, grouping, approvedKeys, disk, job, closing>>

\* Seeded fault: the waiter of a group that went with it is forgotten.
CleanupClosedSilently(r) ==
    /\ cleanup[r] \in {"closing", "closing waiter"}
    /\ cleanup' = [cleanup EXCEPT ![r] = "done"]
    /\ cleaning' = [cleaning EXCEPT ![r] = None]
    /\ UNCHANGED <<request, grouping, approvedKeys, disk, job, closing>>

\* The notification is closed; the waiter, if there was one, is resolved.
CleanupClosed(r) ==
    /\ cleanup[r] \in {"closing", "closing waiter"}
    /\ released' = IF cleanup[r] = "closing waiter" THEN released \cup {r} ELSE released
    /\ cleanup' = [cleanup EXCEPT ![r] = "done"]
    /\ cleaning' = [cleaning EXCEPT ![r] = None]
    /\ UNCHANGED <<cmd, pc, life, deferred, verdict, answer, started, grouping, approvedKeys, disk,
                   job, closing>>

-----------------------------------------------------------------------------
(* Presses and timers: approve(), deny(), resolveGroup(). *)

\* resolveGroup for the whole group, up to the await of closeNotification.
ResolveAll(t, g, outcome, target) ==
    /\ groups' = [groups EXCEPT ![keyOf[g]] = None]
    /\ job' = [job EXCEPT ![t] =
                 [Idle EXCEPT !.pc = "closing", !.outcome = outcome, !.scope = "capability",
                              !.group = g, !.covers = members[g], !.target = target]]
    /\ UNCHANGED <<keyOf, members, index>>

\* resolveGroup for one request, up to the removal of its entry.
ResolveOne(t, g, outcome, r) ==
    /\ r \in members[g]
    /\ members' = [members EXCEPT ![g] = @ \ {r}]
    /\ index' = [index EXCEPT ![r] = None]
    /\ job' = [job EXCEPT ![t] =
                 [Idle EXCEPT !.pc = "removing", !.outcome = outcome, !.scope = "once",
                              !.group = g, !.cur = r, !.covers = {r}, !.target = r]]
    /\ UNCHANGED <<groups, keyOf, timer>>

\* approve() with a scope, deny() for one request.  A press whose card is gone is
\* answered with an error and changes nothing.
Press(p, r, outcome, scope) ==
    LET g == FindGroupByRequestId(r) IN
    /\ job[p].pc = "idle" /\ closing = "open"
    /\ r \in shown
    /\ g # None
    /\ \/ /\ outcome = "approve" /\ scope = "capability"
          /\ approvedKeys' = approvedKeys \cup {keyOf[g]}
          /\ timer' = [timer EXCEPT ![g] = "cleared"]
          /\ ResolveAll(p, g, "approve", r)
       \/ /\ scope = "once"
          /\ ResolveOne(p, g, outcome, r)
          /\ UNCHANGED approvedKeys
    /\ UNCHANGED <<request, tidying, disk, closing>>

\* The timer of group g fires; its callback denies whatever group has the key now.
Timeout(g) ==
    /\ timer[g] = "armed"
    /\ LET now == groups[keyOf[g]] IN
       IF now = None
         THEN /\ timer' = [timer EXCEPT ![g] = "fired"]
              /\ UNCHANGED <<groups, keyOf, members, index, job>>
         ELSE /\ timer' = [timer EXCEPT ![now] = "cleared", ![g] = "fired"]
              /\ ResolveAll(g, now, "deny", None)
    /\ UNCHANGED <<request, tidying, approvedKeys, disk, closing>>

\* A resolver that ends leaves behind only what was pressed.
Ended(t, how) == [job[t] EXCEPT !.pc = how, !.group = None, !.cur = None, !.todo = {}]

\* The loop takes its next request (in whatever order they joined) or ends.
TakeNext(t, todo) ==
    LET left == todo \cap members[job[t].group] IN
    \/ /\ left = {}
       /\ job' = [job EXCEPT ![t] = Ended(t, "done")]
       /\ UNCHANGED index
    \/ \E c \in left :
         /\ job' = [job EXCEPT ![t].pc = "removing", ![t].cur = c, ![t].todo = left \ {c}]
         /\ index' = [index EXCEPT ![c] = None]

NotificationClosed(t) ==
    /\ job[t].pc = "closing"
    /\ TakeNext(t, members[job[t].group])
    /\ UNCHANGED <<request, tidying, groups, keyOf, members, timer, approvedKeys, disk, closing>>

\* A request that was cancelled meanwhile is only released; the others go to the audit log.
AfterRemoval(t) ==
    IF Cancelled(job[t].cur)
      THEN released' = released \cup {job[t].cur} /\ TakeNext(t, job[t].todo)
      ELSE job' = [job EXCEPT ![t].pc = "auditing"] /\ UNCHANGED <<released, index>>

\* Seeded fault: the timer is stopped although others still wait.
EntryRemovedStopsTimer(t) ==
    LET g == job[t].group IN
    /\ job[t].pc = "removing"
    /\ files' = files \ {job[t].cur}
    /\ IF job[t].scope = "once"
         THEN /\ timer' = [timer EXCEPT ![g] = "cleared"]
              /\ groups' = IF members[g] = {} THEN [groups EXCEPT ![keyOf[g]] = None] ELSE groups
              /\ job' = [job EXCEPT ![t].pc = "quieting"]
              /\ UNCHANGED <<released, index>>
         ELSE AfterRemoval(t) /\ UNCHANGED <<groups, timer>>
    /\ UNCHANGED <<cmd, pc, life, deferred, verdict, answer, started, tidying, keyOf, members,
                   approvedKeys, shown, closing>>

\* The entry is gone.  After a press for one request, a group that is empty NOW is
\* dropped: whatever group has its key, this one or a later one.
EntryRemoved(t) ==
    LET g == job[t].group IN
    /\ job[t].pc = "removing"
    /\ files' = files \ {job[t].cur}
    /\ IF job[t].scope = "once" /\ members[g] = {}
         THEN /\ timer' = [timer EXCEPT ![g] = "cleared"]
              /\ groups' = [groups EXCEPT ![keyOf[g]] = None]
              /\ job' = [job EXCEPT ![t].pc = "quieting"]
              /\ UNCHANGED <<released, index>>
         ELSE AfterRemoval(t) /\ UNCHANGED <<groups, timer>>
    /\ UNCHANGED <<cmd, pc, life, deferred, verdict, answer, started, tidying, keyOf, members,
                   approvedKeys, shown, closing>>

Quieted(t) ==
    /\ job[t].pc = "quieting"
    /\ AfterRemoval(t)
    /\ UNCHANGED <<cmd, pc, life, deferred, verdict, answer, started, tidying, groups, keyOf, members,
                   timer, approvedKeys, disk, closing>>

\* A throwing removal ends the resolver before its try block: this waiter stays behind.
RemovalFails(t) ==
    /\ IOFails
    /\ job[t].pc = "removing"
    /\ job' = [job EXCEPT ![t] = Ended(t, "aborted")]
    /\ UNCHANGED <<request, tidying, grouping, approvedKeys, disk, closing>>

\* Seeded fault: the second look at the lifecycle, after the audit insert, is missing.
JobAuditedUnchecked(t) ==
    LET c == job[t].cur IN
    /\ job[t].pc = "auditing"
    /\ \/ /\ job[t].outcome = "deny"
          /\ life' = [life EXCEPT ![c] = IF Cancelled(c) THEN @ ELSE "terminal"]
          /\ answer' = [answer EXCEPT ![c] = IF Cancelled(c) THEN @ ELSE "denied"]
          /\ released' = released \cup {c}
          /\ TakeNext(t, job[t].todo)
          /\ UNCHANGED started
       \/ /\ job[t].outcome = "approve"
          /\ started' = started \cup {c}
          /\ job' = [job EXCEPT ![t].pc = "running"]
          /\ UNCHANGED <<life, answer, released, index>>
    /\ UNCHANGED <<cmd, pc, deferred, verdict, tidying, groups, keyOf, members, timer, approvedKeys,
                   disk, closing>>

\* The audit insert has finished: the denial is sent, or the command is started.
JobAudited(t) ==
    LET c == job[t].cur IN
    /\ job[t].pc = "auditing"
    /\ \/ /\ job[t].outcome = "deny"
          /\ life' = [life EXCEPT ![c] = IF Cancelled(c) THEN @ ELSE "terminal"]
          /\ answer' = [answer EXCEPT ![c] = IF Cancelled(c) THEN @ ELSE "denied"]
          /\ released' = released \cup {c}
          /\ TakeNext(t, job[t].todo)
          /\ UNCHANGED started
       \/ /\ job[t].outcome = "approve" /\ Cancelled(c)
          /\ released' = released \cup {c}
          /\ TakeNext(t, job[t].todo)
          /\ UNCHANGED <<life, answer, started>>
       \/ /\ job[t].outcome = "approve" /\ ~Cancelled(c)
          /\ life' = [life EXCEPT ![c] = "running"]
          /\ started' = started \cup {c}
          /\ job' = [job EXCEPT ![t].pc = "running"]
          /\ UNCHANGED <<answer, released, index>>
    /\ UNCHANGED <<cmd, pc, deferred, verdict, tidying, groups, keyOf, members, timer, approvedKeys,
                   disk, closing>>

\* A throwing audit insert is caught: this request goes unanswered, the others go on.
JobAuditFails(t) ==
    /\ IOFails
    /\ job[t].pc = "auditing"
    /\ released' = released \cup {job[t].cur}
    /\ TakeNext(t, job[t].todo)
    /\ UNCHANGED <<cmd, pc, life, deferred, verdict, answer, started, tidying, groups, keyOf, members,
                   timer, approvedKeys, disk, closing>>

\* The command has ended (by itself, or because its peer is gone); the next one's turn.
JobRunEnds(t) ==
    LET c == job[t].cur IN
    /\ job[t].pc = "running"
    /\ life' = [life EXCEPT ![c] = IF Cancelled(c) THEN @ ELSE "terminal"]
    /\ answer' = [answer EXCEPT ![c] = IF Cancelled(c) THEN @ ELSE "ran"]
    /\ released' = released \cup {c}
    /\ TakeNext(t, job[t].todo)
    /\ UNCHANGED <<cmd, pc, deferred, verdict, started, tidying, groups, keyOf, members, timer,
                   approvedKeys, disk, closing>>

-----------------------------------------------------------------------------
(* close() *)

LiveGroups == {g \in Requests : \E k \in Keys : groups[k] = g}

CloseBegin ==
    /\ MayClose
    /\ closing = "open"
    /\ closing' = "telling"
    /\ UNCHANGED <<request, tidying, grouping, approvedKeys, disk, job>>

\* Group by group, waiter by waiter, with an await for each.
CloseTell(g, r) ==
    /\ closing = "telling"
    /\ g \in LiveGroups /\ r \in members[g] \ released
    /\ timer' = [timer EXCEPT ![g] = "cleared"]
    /\ answer' = [answer EXCEPT ![r] = IF Cancelled(r) THEN @ ELSE "closed"]
    /\ released' = released \cup {r}
    /\ UNCHANGED <<cmd, pc, life, deferred, verdict, started, tidying, groups, keyOf, members, index,
                   approvedKeys, disk, job, closing>>

\* Every waiter has been told; close() waits for the notification tasks.
CloseSettle ==
    /\ closing = "telling"
    /\ \A g \in LiveGroups : members[g] \subseteq released
    /\ closing' = "settling"
    /\ timer' = [g \in Requests |-> IF g \in LiveGroups THEN "cleared" ELSE timer[g]]
    /\ UNCHANGED <<request, tidying, groups, keyOf, members, index, approvedKeys, disk, job>>

CloseClear ==
    /\ closing = "settling"
    /\ closing' = "cleared"
    /\ groups' = [k \in Keys |-> None]
    /\ index' = [r \in Requests |-> None]
    /\ UNCHANGED <<request, tidying, keyOf, members, timer, approvedKeys, disk, job>>

RemovePendingDir ==
    /\ closing = "cleared"
    /\ closing' = "closed"
    /\ files' = {}
    /\ UNCHANGED <<request, tidying, grouping, approvedKeys, shown, job>>

-----------------------------------------------------------------------------
HandlerStep(r) ==
    \/ Resolve(r) \/ Audited(r) \/ EntryVisible(r) \/ Resume(r) \/ Leave(r) \/ LeaveFails(r)
    \/ WakeUp(r)
    \/ \E v \in Verdicts : Check(r, v) \/ AskWithdrawn(r, v) \/ Ask(r, v)

CleanupStep(r) == CleanupBegin(r) \/ CleanupRemoved(r) \/ CleanupFails(r) \/ CleanupClosed(r)

JobStep(t) == NotificationClosed(t) \/ EntryRemoved(t) \/ Quieted(t) \/ JobAudited(t)

CloseStep == (\E g, r \in Requests : CloseTell(g, r)) \/ CloseSettle \/ CloseClear \/ RemovePendingDir

Next ==
    \/ \E r \in Requests : \/ \E c \in Commands : Receive(r, c)
                           \/ HandlerStep(r) \/ RunEnds(r) \/ PeerLeaves(r)
                           \/ CleanupStep(r) \/ Timeout(r)
    \/ \E p \in Presses, r \in Requests, o \in {"approve", "deny"}, s \in {"once", "capability"} :
          Press(p, r, o, s)
    \/ \E t \in Presses \cup Requests : \/ JobStep(t) \/ RemovalFails(t)
                                        \/ JobAuditFails(t) \/ JobRunEnds(t)
    \/ CloseBegin \/ CloseStep

Spec == Init /\ [][Next]_vars

\* Every await on the file system, the audit database and the notification daemon
\* returns or throws, and setTimeout fires.  Nothing makes a command end, a peer
\* disconnect, a person press or the session close.
Fairness ==
    /\ \A r \in Requests : WF_vars(HandlerStep(r)) /\ WF_vars(CleanupStep(r)) /\ WF_vars(Timeout(r))
    /\ \A t \in Presses \cup Requests : WF_vars(JobStep(t))
    /\ WF_vars(CloseStep)

FairSpec == Spec /\ Fairness

-----------------------------------------------------------------------------
(* Properties. *)

Jobs == [pc : {"idle", "closing", "removing", "quieting", "auditing", "running", "done", "aborted"},
         outcome : {"none", "approve", "deny"}, scope : {"none", "once", "capability"},
         group : Requests \cup {None}, cur : Requests \cup {None},
         todo : SUBSET Requests, covers : SUBSET Requests, target : Requests \cup {None}]

\* Every variable has its type.
TypeOK ==
    /\ cmd \in [Requests -> Commands \cup {None}]
    /\ pc \in [Requests -> {"idle", "resolving", "checking", "refusing", "admitting", "running",
                            "writing", "written", "leaving", "waiting", "done"}]
    /\ life \in [Requests -> {"preflight", "awaiting", "running", "terminal", "cancelled"}]
    /\ verdict \in [Requests -> {"none", "pass", "prompt", "error"}]
    /\ cleanup \in [Requests -> {"none", "started", "removing", "removing waiter", "closing",
                                 "closing waiter", "done", "failed"}]
    /\ cleaning \in [Requests -> Requests \cup {None}]
    /\ answer \in [Requests -> {"none", "fallback", "denied", "ran", "closed"}]
    /\ deferred \subseteq Requests /\ started \subseteq Requests /\ released \subseteq Requests
    /\ groups \in [Keys -> Requests \cup {None}]
    /\ keyOf \in [Requests -> Keys \cup {None}]
    /\ members \in [Requests -> SUBSET Requests]
    /\ timer \in [Requests -> {"unset", "armed", "cleared", "fired"}]
    /\ index \in [Requests -> Keys \cup {None}]
    /\ approvedKeys \subseteq Keys
    /\ files \subseteq Requests /\ shown \subseteq Requests
    /\ job \in [Presses \cup Requests -> Jobs]
    /\ closing \in {"open", "telling", "settling", "cleared", "closed"}

Approved(p) == p \in Presses /\ job[p].outcome = "approve"

\* Nothing runs on the host unless a rule allows it or a person approved this capability
\* -- and then only while the file is the one the session began with -- or a person
\* approved a card while this very request was waiting on it.  A file that changed
\* is never run on the strength of a rule or of an earlier press (executeStreaming).
RunIsJustified ==
    \A r \in started :
      \/ /\ verdict[r] = "pass"
         /\ \/ cmd[r].approval = "allow"
            \/ \E p \in Presses : /\ Approved(p) /\ job[p].scope = "capability"
                                  /\ cmd[job[p].target].key = cmd[r].key
      \/ \E p \in Presses : Approved(p) /\ r \in job[p].covers

\* A request whose peer is gone before its command was started is never started
\* (the two looks at lifecycle.isCancelled around the audit insert).
CancelledIsNotStarted ==
    [][\A r \in Requests : Cancelled(r) /\ r \notin started => r \notin started']_vars

\* Until close() begins, a group that can be joined or pressed has its timer running,
\* whatever requests leave it and join it while an entry is being removed.
TimerGuardsGroup ==
    closing = "open" =>
      \A k \in Keys : groups[k] # None => keyOf[groups[k]] = k /\ timer[groups[k]] = "armed"

\* A peer that disappears leaves no card behind once its handler and the cleanup are
\* over, however the cancellation races with the write of the entry, a press or the
\* timer (executeStreaming looks again after the write, and cleans up once more) --
\* unless the last removal tried for it threw (removePendingRequest).
CancelledLeavesNoCard ==
    \A r \in Requests :
      Cancelled(r) /\ cleanup[r] \in {"none", "done"} /\ pc[r] = "done" => r \notin files

\* r's group is out of the map, and no resolver has r: a press for one request dropped
\* the group of its key, or the removal of an entry threw.
Orphaned(r) ==
    /\ \A g \in LiveGroups : r \notin members[g]
    /\ \A t \in Presses \cup Requests : r # job[t].cur /\ r \notin job[t].todo
    /\ \E t \in Presses \cup Requests :
         \/ job[t].scope = "once" /\ job[t].target # r
         \/ job[t].pc = "aborted"

\* A command that is running keeps the requests of the same press waiting for their turn.
Queued(r) == \E t \in Presses \cup Requests : job[t].pc = "running" /\ (r = job[t].cur \/ r \in job[t].todo)

\* A request that waits on a card before close() begins is released -- by a press, the
\* timer, the cleanup after its peer's departure or close() -- unless it is behind a
\* running command of the same press, in a group that a press for another request took
\* out of the map, or in the hands of a resolver (resolveGroup) or of a cleanup
\* (removePendingRequest) that a failing removal of an entry ended.
WaiterIsReleased ==
    \A r \in Requests :
      (pc[r] = "waiting" /\ closing = "open")
        ~> (r \in released \/ Queued(r) \/ Orphaned(r) \/ cleanup[r] = "failed")

=============================================================================
