# A TLA+ verification project for nix-agent-sandbox

nix-agent-sandbox (`nas`) runs an AI coding agent in a container and puts brokers on
the host between the agent and everything it may not reach by itself. This directory
models the parts of it that decide, wait and remember: TLA+ modules, TLC
configurations that check them on small instances, and TLAPS proofs of the properties
that matter most. `PROJECT.json` lists the components, runs, seeded faults, the map from
definitions to source lines, the findings, the hazards and the theorems.

    tlc -config MCNetworkBroker_answers.cfg MCNetworkBroker      # a run
    tlapm NetworkBrokerProofs.tla                                # a proof module

## 1. The system

| part | state it keeps | operations | what is hard about it |
|---|---|---|---|
| network session broker (`network/broker.ts`) | pending groups, waiters, timers, request index, remembered approvals and denials, negative cache, pending entries on disk | authorize, reviewViolations, approve, deny, timeout, close | every `await` lets handlers, presses and timers interleave; keys lead to groups that may have been replaced |
| host-exec broker (`hostexec/broker.ts`) | pending groups, per-request life cycles, approved capabilities, pending entries | executeStreaming, approve, deny, timeout, cancel, removePendingRequest, close | peers that disappear; cleanup racing with resolvers; integrity of files; commands of unbounded length |
| authorization rules (`network/authz/*.ts`) | the resolved document | admission of a configuration, decide | partial orders, cycles, three-valued conditions |
| mitmproxy addon (`docker/mitmproxy/nas_addon.py`) | flows | asks the network broker, enforces the answer | waits for as long as the broker does |
| gateway and interception (`hostexec/intercept/*.zig`, `gateway_execution.ts`) | processes and descriptors | relay a command to the host and its output back | process life cycles |
| host OAuth sources (`network/host_oauth_source.ts`, `lib/oauth_refresh_lock.ts`) | tokens in memory and on disk, a pending write-back, a directory lock | refresh, adopt, write back, abandon, close | single-use tokens shared by processes, locks that can be taken over |
| port forwarding (`network/port_bind_*.ts`, `docker/embed/port-relay.mjs`) | managed forwards, owners, generations, listeners, the gateway's table, the persisted registry | prepareInitial, add, remove, state events, forward, unforward, close | a queue of mutations against asynchronous relay events; a relay that is lost, refuses or answers late |
| runtime registry (`lib/runtime_registry.ts`) | session files, pending directories, broker sockets | register, write and remove entries, gcRuntime | several processes without a lock |
| session store and ownership (`sessions/*.ts`) | session records, owner files | create, update, claim, release | crashes, hook processes |
| session broker service (`stages/proxy/session_broker_service.ts`) | the open credentials, the kill loop | startSessionBroker, close, onRevoked | a start that fails half way; sweeps of other processes; a container that comes up after it should be killed |
| pipeline, stages, docker, worktrees, dev containers | containers, networks, volumes, git worktrees | start in order, tear down in reverse | half-finished starts |
| audit, history, UI, CLI, configuration, agents | databases, views, files | record, render, parse | mostly sequential or delegated to SQLite |

How they meet: the addon sends the network broker one JSON line per request and blocks on
the answer; the broker asks `decide()` of the resolved authorization document; the
host-exec gateway sends the host-exec broker one command and watches the connection. Both
brokers put a *card* (a pending entry, a JSON file in the runtime registry) on disk for a
person; the CLI, the UI and desktop notifications read the cards and send `approve`/`deny`
to the broker's control socket. Credentials come from the host OAuth sources and are put on
an allowed request by the network broker; when the host's file is replaced, the source
revokes them and the session broker service kills the container. A session claims its id,
registers in the runtime registry and makes its broker directory there; the UI and the CLI
sweep that registry before they read it. Port forwards go through a broker on the host, a
gateway beside it and a relay in the container. Each broker is one JavaScript thread: code
between two awaits is atomic, everything else interleaves.

The properties that make the modelled parts correct:

* network broker: no request gets out without the policy or a person's press that
  speaks for it; a denial says truly where it comes from; cards, timers and groups stay
  together; whoever waits is answered;
* host-exec broker: nothing runs without a rule or a press, and never a changed file on
  the strength of an old approval; nothing runs for a peer that is gone, and nothing of
  it stays behind; whoever waits is released;
* authorization rules: comparisons of accepted sets are sound; an admitted
  configuration can always be ordered; a request never gets around a rule that should
  have been tried first; declaration order never decides between rules that differ;
* host OAuth sources: the refresh token the server accepts is never lost by failed writes
  or a lost lock; a write-back that waits is tried again; a replaced file is not written;
* port forwarding: a connection reaches a host port only along a mapping that stands, and
  ends with it; no listener is forgotten; the states shown and the registry are current;
  neither the queue nor the initial forwards hang;
* session life: an id has one owner; a sweep spares registered sessions and removes what
  dead ones left; a container does not outlive the revocation of its credential.

## 2. The modules

| module | models | role |
|---|---|---|
| `NetworkBroker` | `network/broker.ts`, with `agent_credential.ts`, `ttl_lru_cache.ts` and the entry functions of `runtime_registry.ts` as far as it uses them | component |
| `NetworkBrokerProofs` | | its inductive invariant and theorems |
| `NetworkBrokerGroupProofs` | | its cards: timers, members, denials |
| `MCNetworkBroker` | | instances for TLC |
| `HostExecBroker` | `hostexec/broker.ts` | component |
| `HostExecBrokerProofs` | | its inductive invariants and theorems |
| `MCHostExecBroker` | | instances for TLC |
| `AuthzRules` | `authz/relation.ts`, `specificity.ts`, `semantics.ts`, the overlap and override checks of `validate.ts`, `decide` of `resolve.ts` | component |
| `AuthzRulesProofs` | | its inductive invariant and theorems |
| `MCAuthzRules` | | instances for TLC |
| `HostOAuth` | `network/host_oauth_source.ts` with its Claude and Codex flavours, `codex_auth_watch.ts`, `lib/oauth_refresh_lock.ts` | component |
| `HostOAuthProofs` | | its inductive invariants and theorems |
| `MCHostOAuth` | | instances for TLC |
| `PortPermissions` | | abstract specification of port forwarding |
| `PortForwards` | `network/port_bind_broker.ts`, `port_bind_relay.ts`, `port_bind_supervisor.ts`, `port_forward_model.ts`, `docker/embed/port-relay.mjs` | composition of broker, gateway and relay; implements `PortPermissions` |
| `PortForwardsProofs` | | its inductive invariant, theorems and the refinement |
| `PortForwardsBrokerProofs` | | what the broker shows and the registry lists, the listeners, and that forwards have no loop |
| `MCPortForwards` | | instances for TLC |
| `SessionRuntime` | `sessions/ownership.ts`, `stages/proxy/session_broker_service.ts`, `gcRuntime` of `lib/runtime_registry.ts`, `start` and `close` of `network/broker.ts` seen from the file system | composition of processes and a sweep over shared files |
| `SessionRuntimeProofs` | | its inductive invariants and theorems |
| `MCSessionRuntime` | | instances for TLC |

Operators whose comment begins with "Seeded fault" are not part of a specification: each
is a plausible mistake in the definition below it, and `PROJECT.json` names the property
that notices when it takes that definition's place.

### NetworkBroker

A request is a record of what the broker tells apart: the principal, whether the target
is blocked or carries a host credential, and what `decide()` said (`action`, `rule`,
`reason`), or the findings of a violation review. Group keys, approval keys and
violation keys are built as in the code (`PendingGroupKey`, `ApprovalKey`,
`ViolationKey`), as tuples and records instead of strings. A group is named by the request
that opens it, and so is its timer; `groups` maps a key to a group or `None`.

The handler of a request (`pc`) goes through the awaits of `authorize` and
`reviewViolations`: `Receive`, `Decide` (everything that is settled without asking,
audit included) and `Reply`; or `CreateGroup`/`JoinGroup`, `EntryVisible` (the write of
the entry), possibly `Rejoin` (the request was detached while it wrote), and
`RegisterWaiter`. `Drop` is an exception that ends the connection. A press or a timer
starts a resolver (`job`): `Press`, `Timeout`, then `NotificationClosed`, `EntryRemoved`
and `AuditWritten` for each member; `ResolverFails` is a removal of an entry or an
audit insert that throws and ends the resolver. `Expire` empties the negative cache
at any time (a TTL or a full cache), `Revoke` takes the host's credential away, and
`CloseBegin`, `ClearPolicyState` and `RemovePendingDir` are the three parts of `close()`.

### HostExecBroker

A command is `[key, approval]`: the approval key of its capability and what the matching
rule says. `Receive` and `Resolve` lead to `Check` (the integrity verdict is an input) or
`Ask`. `life` is `GatewayRequestLifecycle.state`; `PeerLeaves` is a lost socket or an early
withdrawal that the monitor keeps back (`deferred`, handled by `AskWithdrawn`);
`CleanupBegin`, `CleanupRemoved` and `CleanupClosed` are `removePendingRequest` from await
to await, `CleanupFails` its removal throwing in the cleanup (logged and forgotten),
`Leave` and `LeaveFails` the second removal that the handler itself tries after its write.
Resolvers are as in the network broker, except that they run the approved commands one
after the other (`JobAudited`, `JobRunEnds`). `CloseBegin` ... `RemovePendingDir` are
`close()`, which tells its waiters one by one.

### AuthzRules

One scope. A rule is a position in declaration order, what it accepts a record of
methods, path patterns (each the set of paths it accepts), a body format and accepted
values at JSON pointers. `MatchSubsumes`, `MatchesIntersect` and `CompareSpecificity` are
`relation.ts` and `specificity.ts`; `EvaluateBody` and `EvaluateMatch` the three-valued
`semantics.ts`. The machine sorts the whole scope (`Emit` is one round of
`precedenceOrder`), looks for a cycle when it is stuck (`Stuck`, `Walk`, `Cycle` are
`findCycle`), admits or rejects the configuration (`Load`), and then sorts the candidates
of one request with the same steps (`Ask`) and takes the first that does not decline
(`Decide`).

### HostOAuth

The server keeps one generation of tokens per login and accepts it once (`latest`); the
credentials file is one token (`disk`), possibly `Torn`. A source goes through
`acquireLockOrAdopt` (`Mkdir`, `StatDir`, `RmdirStale`, `Remkdir`, `StatOwn`, or
`Contended`, which adopts what another process wrote), then `Read`, the refresh (`Grant`,
`Refuse` and `LoseAnswer` are the server; `Answer` the continuation), and the write-back
(`Truncate` for the in-place flavour, `WriteLands`, `WriteFails`, `Written`), then
`Release` and `Unlock`; `EndRun` plans the next attempt. Codex has one lock, Claude two:
the same steps take the second after the first (`which`), a second lock that is held gives
the first back before the attempt is contended, and they are released in reverse. A lock
directory is the set of sources whose remembered inode and mtime are what a `stat` of it
returns (`known`), and whether it is stale; `Beat` and `Touch` are the two halves of the
heartbeat, `Lapse` is STALE_MS without one. `Revoke` is the watch that finds the file
replaced (`Relogin`) and abandons the source, `Close` and `CloseTail` are `close()`,
`Crash` ends a process anywhere, `HostRefresh` and `HostSave` are the host's own agent.
Time is left out: a timer may fire whenever it is set.

### PortPermissions and PortForwards

`PortPermissions` says what a session's user relies on: a map from container ports to
host ports, mapped and revoked atomically, and streams that only open along a mapping and
go when it goes. `PortForwards` is three parties. The broker's mutations run one at a time
(`cur`, `queue`): `StartAdd`, `Pick`, `Listen`, `EnsureReady`, the answer, `PersistAdd`
and the roll-back of each; `StartRemove`, `Unforward`, `PersistRevocation` with its one
retry; `StartPrepare` ... `CompleteInitial` or `FailInitial` for the initial forwards;
`StartState` for what the gateway reports. The gateway keeps a table with a token per
listener, the tokens that were given up and may still be open (`retired`) and its requests
(`waiting`), which are answered, time out or are lost with the connection. The relay keeps
its listeners (`fwd`) and the ones cancelled before they were ready (`limbo`). The mapping
to `PortPermissions` takes the wanted ports from the broker and, between the end of the
broker and that of the gateway, from the gateway. Generations, request ids and tokens are
any number that is not in use (`Unused`): the code counts, the model reuses.

### SessionRuntime

Per process a program counter over the accesses to the file system: the claim
(`LockForClaim` ... `FillOwner`), the start (`Reserve`, `MakeDir`, `RemoveOldSocket`,
`ListenSocket`, `Register`), the end (`ClosePending` ... `ClosePendingAgain`) and the
release. `StartFails` is any failing step with the cleanup the code gives it, `Crash` a
SIGKILL that frees the flock and nothing else. `WritePendingDir` and `WritePendingEntry`
are a pending entry whose write the end of the session does not wait for. `Launch`,
`ContainerStep`, `Revoke` and `Kill` are the container and the loop of
`killSessionContainer`. The sweep (`gc`) follows `gcRuntime` access by access: each entry
is read, its pid and its socket are looked at, it is removed in three steps; then the
entries are listed again, and directories without one are removed.

## 3. The runs

| run | instance | checks |
|---|---|---|
| `broker_answers` | 2 requests, 2 presses, 15 kinds of question | `Inv`, `AllowIsJustified`, `DenyIsJustified` |
| `broker_liveness` | 2 requests on one question, 1 press, failing I/O, `close()` | `TypeOK`, `TimerGuardsGroup`, `MembersCanBePressed`, `WaiterIsAnswered` |
| `broker_answered` | 2 requests, 1 press | `AlwaysAnswered` -- violated, finding 1 |
| `broker_revoked` | 1 request, 1 press, credential revoked | `NeverBareAfterRevocation` -- violated, finding 2 |
| `hostexec_safety` | 2 requests, 1 press, 4 kinds of rule, 3 verdicts, 1 peer that leaves, failing I/O | `TypeOK`, `RunIsJustified`, `TimerGuardsGroup`, `CancelledLeavesNoCard`, `CancelledIsNotStarted` |
| `hostexec_liveness` | 2 requests, 1 press, 1 peer that leaves, failing I/O, `close()` | `WaiterIsReleased` |
| `authz_decide` | 3 rules out of 7 matches, up to 2 overrides, 24 requests | `TypeOK`, `RingIsACycle`, `AdmittedNeverStuck`, `OnlyRefutedAreSkipped`, `MatchIsUndisputed`, `RelationIsSound`, `Inv` |
| `oauth_tokens` | 2 sessions, both flavours with their locks, 2 lock attempts, 3 kinds of failing writes, a crash, lost answer, lapsing lock or new login, sessions that end | `TypeOK`, `TokenIsKept`, `PendingIsRetried`, `RevokedStartsNoWrite` |
| `oauth_exclusive` | 2 Codex sessions | `TokenUsedByOne` -- violated, finding 3 |
| `port_forwards` | 1 container port, 2 host ports, 3 sets of initial forwards, 2 calls, 1 lost relay, 1 failing write, `close()` | `TypeOK`, `PermissionIsManaged`, `ListenerIsKnown`, `StateIsLatest`, `TroubleIsItsOwn`, `NoForwardLoop`, `RegistryIsCurrent`, `KeepsPermissions`, `MutationsEnd`, `InitialIsSettled` |
| `session_life` | 2 processes with one id, 1 crash, 1 failing start, revocation, sweeps | `TypeOK`, `OneOwner`, `SettledIsSpared`, `LeftoversGo`, `RevokedContainerDies` |
| `session_swept` | 1 process, sweeps, nothing fails | `UpIsReachable` -- violated, finding 4 |

What they show. `broker_answers`: whatever the interleaving, an allow or a deny can be
traced to the policy or to a press on a card that asked the same thing, so the keys of
groups, memories and caches are fine enough and an index that leads to a newer group does
no harm. `broker_liveness`: requests that join, are detached and rejoin never leave a group
without its timer or a member that cannot be pressed, and a waiter in a group that can be
pressed is answered and its card removed, whoever of press, timer and `close()` comes
first; only a removal of an entry or an audit insert that throws in the resolver that has
the request leaves it waiting (`safeRemove` rethrows all but ENOENT). `hostexec_safety`:
what runs was allowed, for the file the session began with or by a person who was asked; a
peer's departure at any point starts nothing and leaves nothing. `hostexec_liveness`: a
request that waits before `close()` begins is released, also when its peer leaves, unless
it queues behind a running command or one of three things happens that the code does not
guard against: a press for another request, resuming late, deletes by key a group that is
no longer its own (`hostexec/broker.ts:1189`; `removePendingRequest` checks first); the
removal of an entry throws outside the loop's `try` (`:1186`); or it throws in the cleanup
of a peer that left (`:1132`, logged at `:221-225`), which skips the waiter's release.
`authz_decide`: every configuration of three rules is rejected with a true cycle, rejected
for an undecided overlap, or decides every request as it should. `oauth_tokens`: the one
token the server accepts is in the file, on its way there, or waits in a source that has
not shut down, although locks lapse, are taken over or are left by a crash. Four things may
lose it: a crash of the process that had it; an answer that never came; a last attempt of
`close()` that cannot take the lock, read the file or write it (the code logs that and
ends); and a write that fails after its text is in the file (the `fsync`), because its
retry may put the older token back over a newer one. `port_forwards`: the three parties
together implement `PortPermissions`, although the broker learns of the relay's state late.
`session_life`: flock and the owner file keep an id to one live process through any crash,
a sweep does no harm to a session that had its entry when the sweep began, repeated sweeps
remove what killed and failed sessions leave behind, and a container that comes up after
its credential was revoked is killed.

Deadlock is checked in the session runs only (a sweep can always begin). Elsewhere a
session in which every request has been answered, every press spent and every timer stopped
is quiet, a request machine that has decided is at its end, and a source or a broker that
was closed stays closed.

### Bounds

* `Requests`, `Presses`: each stands for one connection, used once. Two requests give
  every pairwise race (join, detach, a newer group of the same key, a stale index), two
  presses a press against another or against what it left in memory. Requests also
  name groups and timers, so there are as many groups over time as requests.
* `Leavers` (host-exec): whose peer may go away; one that goes and one that stays meet all
  of `removePendingRequest`. In `hostexec_liveness` the constraint `CleanupBeforeClose`
  lets `close()` begin before a peer leaves or after the cleanup is over: it holds back only
  steps that no fairness obliges, so every behaviour it leaves is one of the broker's. The
  full combination (762,583 states) takes twice as long, with two workers and coverage more
  than five minutes; it was checked once with the same result.
* `Verdicts`, `Messages`, `Commands`: one representative for each case the code tells
  apart; the instances say which.
* `IOFails`, `MayClose`: switches for failing writes, removals and audit inserts and for
  `close()`; where I/O fails, the liveness properties name the waiters that a throwing
  audit insert or removal does leave behind.
* `LockAttempts`, `MaxGen`, `WriteFailures`, `MaxIncidents` (OAuth): two attempts are one
  that fails and the last one. Codex's login is refreshed twice, so that a retried write can
  meet a newer token; Claude's once, by either session. An incident is a failed write, a
  lost answer, a crash, a new login or the lapse of a lock that is in use; one is allowed
  for Codex, two for Claude, whose second lock must be lost too before two sessions meet.
  The lapse of a lock whose holder is gone costs nothing. `oauth_exclusive` checks
  behaviours without a lapse, and its trace needs no incident.
* `MaxCalls`, `MaxDrops`, `MaxPersistFails` (ports): two calls are a removal and a new add
  over an event of the old forward; one lost relay falls anywhere between. Three calls
  without failing writes (6.7 million states) and two failing writes were checked once
  with the same result.
* `MaxCrashes`, `MaxFailures` (sessions): two processes with one id are an owner and its
  successor or rival; the successor may meet what the crash left at every step.
  One sweep runs at a time. Two sweeps at once, or by two processes, remove nothing that
  one of them would not.
* `N`, `MaxOverrides`, `Matches`, `Asked` (rules): three rules are the shortest cycle that
  needs more than a pair, and the smallest scope with a rule between two others; the seven
  matches include, overlap and miss each other on every axis; the requests cover every
  kind of body against every pointer condition.

Symmetry is used in runs without liveness only: permutations of requests and of presses in
`broker_answers` and `broker_revoked`, of the two sessions in `oauth_tokens`.

### Fairness

`FairSpec` adds weak fairness for each handler's, cleanup's and resolver's own steps, for
each timer and for the steps of a `close()` that has begun: awaits on the file system, the
audit database and the notification daemon return, `setTimeout` fires, and the event loop
runs every continuation. Nothing makes a command end, a peer leave, a person press, a
cache entry expire, a credential be revoked or the session close. For port forwards the
fair parts are the broker's queue and the gateway with its timeouts; the relay may never
answer. For sessions they are the steps of a live process, the sweeps (every listing of the
UI and the CLI begins with one) and the kill loop, which tries every 250 ms; nothing makes
a container start or end. Neither OAuth run needs fairness: that a write-back is tried
again is stated as a timer that is set.

## 4. The proofs

### NetworkBrokerProofs

From `BrokerAssumption` (requests and presses are different names, messages have the
fields of their kind) and `KeysAssumption` (`None` is no key), for any sets of requests,
presses and messages:

* `InvHolds`: `Spec => []Inv`;
* `TypeCorrect`: `Spec => []TypeOK`;
* `AllowJustified`: `Spec => []AllowIsJustified`.

`AllowIsJustified` is not inductive: an allow is given by a resolver that started some
steps earlier, to requests that joined its group earlier still, or from a memory that an
older press filled. `Inv` carries the link along that way: a handler past its arrival has
a message (`HandlersKnown`); the key in the index fits the request (`IndexFits`); a
group's key fits everyone in the group (`GroupsFit`), where `Fits` says that the request
asks what the key asks, save for findings already pressed away; every remembered approval
goes back to a press on a card with that identity (`MemoryFits`); and a resolver's key
fits the card that was pressed and the request being answered (`JobsFit`). The proof has
one lemma per action.

### AuthzRulesProofs

From `RulesAssumption` (formats and body kinds are the known ones, only JSON matches have
pointer conditions), for any number of rules, any matches and any requests:

* `InvHolds`, `TypeCorrect`;
* `NeverStuck`: `Spec => []AdmittedNeverStuck`. The sort of the whole scope has put every
  rule after its predecessors; the earliest rule of any set in that order therefore has no
  predecessor in the set (`SortedIsAcyclic`, a least element of a set of naturals), so a
  candidate is always ready (`SomeoneIsReady`);
* `SkipsOnlyRefuted`: `Spec => []OnlyRefutedAreSkipped`. The first candidate that does not
  decline has its predecessors before it, and each of those answered "false", which it
  does only when its condition is refuted (`FalseIsRefuted`);
* `Undisputed`: `Spec => []MatchIsUndisputed`. Two rules that match one request intersect
  (`CommonRequestIntersects`), so the overlap check has found them ordered;
* `RelationSound`: `Spec => []RelationIsSound`, from `SubsumesIsSound` and
  `CommonRequestIntersects`.

* `RingIsReal`: `Spec => []RingIsACycle`. The walk goes from each rule to one of its
  predecessors among those left over, which has one too because the sort was stuck
  (`WalkFits`); what it has passed since it first came to the rule it meets again is the
  ring, read backwards (`RingFits`).

`Inv` adds to the safety properties that the sequence put out so far respects the
precedence (`OrderRespectsPrecedence`) and what each phase has established (`PhaseFits`:
an admitted scope passed its checks and is acyclic).

### NetworkBrokerGroupProofs

From the same assumptions, on top of `Inv`:

* `TimerGuards`: `Spec => []TimerGuardsGroup`, and `MembersPressable`:
  `Spec => []MembersCanBePressed`. `GroupInv` adds that a request is a member of the group
  it joined and of no other (`MembersFit`), that the index leads from a member to its
  group's key until `close()` clears it (`IndexLeads`), and that a resolver with a group of
  its own has taken it off the map for good (`LoopsFit`); without the last a resolver that
  resumes late could take members out of a group that can still be pressed;
* `DenialJustified`: `Spec => []DenyIsJustified`. A reason may reach a request long after
  the press or the timer that gave it, so `DenyInv` traces each remembered denial
  (`DenialsFit`: `denied`, `deniedV` and the negative cache) to a press or a fired timer on
  a card that fits it, and keeps a fired timer's group off the map (`TimersFit`).

With these every invariant of `NetworkBroker` that a run checks is a theorem.

### HostExecBrokerProofs

From `HostExecAssumption`, for any requests, presses, commands and verdicts:

* `InvariantHolds`: `Spec => []Inv`; `TypeCorrect`; `RunJustified`:
  `Spec => []RunIsJustified`. A command starts long after what justifies it, so `Inv`
  carries the reason along: the index leads a request to its command's own key
  (`HandlersFit`), a group is on the map under its key and has members that asked
  (`GroupsFit`), a remembered capability goes back to an approving press on a card of that
  key (`MemoryFits`), a handler that runs without asking has a clean file and a rule or
  such a press (`RunsFit`), and a resolver only has requests that its press covered
  (`JobsFit`). The last stays true because a resolver has taken its group off the map for
  good: whoever comes later joins a new one;
* `CancelledNotStarted`: `Spec => CancelledIsNotStarted`, an action property;
* `TimerGuards`: `Spec => []TimerGuardsGroup`. Whoever stops a timer takes its group off
  the map in the same step, and no step puts an old group back (`Guarded`);
* `CancelledCardless`: `Spec => []CancelledLeavesNoCard`. `CardsFit`: a request is
  cleaned up exactly when it was cancelled, and once its entry was removed only its own
  handler may put it back, which looks again after the write. A request whose last removal
  threw is excepted.

With these every invariant of `HostExecBroker` that a run checks is a theorem.

### SessionRuntimeProofs

From `SessionRuntimeAssumption`, for any processes, ids and bounds on crashes and failures:

* `TypeCorrect`, and `OneOwnerHolds`: `Spec => []OneOwner`. `OwnerInv`: whoever is inside a
  claim or a release has the flock (`LockFits`), the owner file names the process that has
  the id (`OwnerFits`), and a file is only replaced after a process that is gone
  (`ClaimFits`);
* `SettledSpared`: `Spec => []SettledIsSpared`. `SweepFits` says what the sweep knows at
  each of its steps of a session that had its entry when the sweep began: what it read is
  that session's own entry, it is taken for alive, and its id is among the live ones when
  directories are removed. The entry of a session that is still starting says so
  (`EntryFits`), which is why a socket that is not there yet does no harm.

### HostOAuthProofs

From `HostOAuthAssumption`, for any sources, bounds and kinds of failing writes:

* `TypeCorrect`: `Spec => []TypeOK`;
* `PendingRetried`: `Spec => []PendingIsRetried`, with what a closed, dead or abandoned
  source may still hold (`LifeFits`);
* `RevokedIsSilent`: `Spec => RevokedStartsNoWrite`, an action property;
* `TokenKept`: `Spec => []TokenIsKept`, for every kind of failing write. The argument of
  `TokenInv`: until the host's file is replaced, a token whose write has not reached the
  file (`Unsaved`) is the server's newest and nobody else has it (`SoleHolder`), so nobody
  can use it up before it is written, and the lock is not needed for this; what a source
  writes is what it has waiting (`WriteFits`), which waits in no other source
  (`PendingFits`); and the last attempt of `close()` gives its lock back only when it has
  saved the token or has an excuse (`LastSaveFits`), so a source shuts down with nothing
  that is not accounted for.

### PortForwardsProofs

From `PortForwardsAssumption`, for any ports, initial forwards and bounds:

* `InvariantHolds`: `Spec => []Inv`; `TypeCorrect`; `PermissionManaged`:
  `Spec => []PermissionIsManaged`;
* `PermissionsKept`: `Spec => KeepsPermissions`, that broker, gateway and relay implement
  `PortPermissions`.

`Inv` is made of the types, with the queue, the lines and the finiteness of sets that
`TypeOK` leaves open (`Types`, in three parts, one per party); the mutation that runs has
its mapping, and a request somebody awaits is awaited by that mutation (`CurFits`,
`WaitFits`); a closed broker keeps nothing (`ClosedFits`); until the initial forwards are
taken up nothing else has happened (`PrepareFits`); `PermissionIsManaged`; and a stream
goes where the gateway's table says and ends with the relay (`StreamsFit`).

Each action has a lemma for what it leaves well formed and one for its effect on the
permissions. There are only four effects: ports are revoked with their streams
(`Revokes`), ports are mapped (`Maps`), the relay is lost with every stream (`Lost`), or a
client connects (`Connected`); every other step leaves them alone. Each effect keeps
`Inv` and is a step of `PortPermissions` or a stutter, which is proved once per effect
and not once per action.

### PortForwardsBrokerProofs

From the same assumption, on top of `Inv`:

* `RegistryKept`: `Spec => []RegistryIsCurrent`. `RegistryFits` says what the registry
  lists at each step of the running mutation: an add that is not saved is missing, so is an
  owner that is not saved, and every other step is on its way to a write; only two failed
  writes, the failure of the initial forwards or the end of the session leave it behind;
* `TroubleOwned`: `Spec => []TroubleIsItsOwn`. A generation exists exactly as long as its
  mapping, and every queued event of that generation is the mapping's own (`TroubleFits`);
* `ListenersKnown`: `Spec => []ListenerIsKnown`. Nothing is left of a lost relay; in the
  line to the relay nothing asks for a token after it was cancelled; an id belongs to one
  request, and the answer to a cancellation means that the listener is gone; a new id or
  token is in use nowhere (`ListenersFit`);
* `StateShown`: `Spec => []StateIsLatest`. The state shown lags behind the table, so
  `LatestFits` speaks of what is still queued: the last event of the current generation
  tells what the table shows (`ShownFits`); an entry that is being established has been
  asked for, or belongs to an add that waits for the relay (`AskedFits`, `EnsuringFits`);
  and active and establishing exclude each other (`ActiveFits`). `Lasting` is what a step
  may do to one port, and one lemma shows that it keeps the invariant;
* `LoopsRefused`: `Spec => []NoForwardLoop`. `LoopsFit`: no two mappings lead out of one
  node (two local ones never share a host port), and no set of nodes is chained. If a new
  mapping closed a loop that the walk of `createsForwardCycle` does not come to, the walk
  would stay in the loop beside the new mapping; it is longer than there are mappings, so
  it meets a node twice (pigeonhole), and the nodes between are an older loop
  (`ChainBeside`). The initial forwards have no order: there a smallest loop would have a
  smaller one beside any of its forwards (`LooplessTogether`). That the walk exists, and
  where it stays, is shown by the least step at which it would not (`LeastNatural`).

With these every invariant of `PortForwards` that a run checks is a theorem.

### Only model-checked

Liveness (`WaiterIsAnswered`, `WaiterIsReleased`, `MutationsEnd`, `InitialIsSettled`,
`LeftoversGo`, `RevokedContainerDies`): fairness is outside the prover. Every
invariant and every action property that a passing run checks is a theorem. The four
violations of section 5 are TLC's.

## 5. Findings

1. `broker_answered`: a group resolved while a request still writes its entry leaves that
   request without an answer (`network/broker.ts:953-977`), although `nas_addon.py:889-892`
   relies on always getting one.
2. `broker_revoked`: a host credential revoked while a request waits for a press lets the
   approved request leave with the container's own credential
   (`network/agent_credential.ts:146`), which `network/broker.ts:800-801` rules out.
3. `oauth_exclusive`: a process whose `mkdir` failed and whose `stat` finds nothing goes on
   to `rmdir` (`lib/oauth_refresh_lock.ts:65-70`) and may remove the lock another one took in
   between; two Codex sessions then use one refresh token, although the comment on their lock
   (`:195`) says that it excludes the sessions from each other. Claude's sessions take a
   second lock after this one, and contend for it.
4. `session_swept`: `gcRuntime` reads the registered sessions before it reads the broker
   directories (`lib/runtime_registry.ts:248,266`); a session that reserves its entry and
   makes its directory in between loses the directory and its socket, although
   `session_broker_service.ts:322` reserves first to prevent just that. Reading the
   directories before the second listing would.

## 6. What is not modelled

GraphQL conditions (a further condition of the same three-valued kind over a parser's
output), pattern languages and the construction of witnesses (strings), the addon's and the
gateway's byte-level work, configuration, CLI, UI, history and audit storage. In the
modelled parts: `protocol.ts`, masking and the wording of cards; reuse of a request id in
the host-exec broker; a file that changes a second time between the card and the run; the
two halves of an entry's write (temporary file and rename are one step); choosing the scope
of a request. In the OAuth sources all durations, and accesses to a lock directory that
fail for reasons of their own. In port forwarding the probe of a target, the pairing of the
streams of local forwards, the scan for candidates with its lease, reserved ports (refused
like a conflict) and the supervisor's waiting times. In the session's life the reuse of a
pid, directories that another user owns, and the records of `sessions/store.ts`.
`PROJECT.json` gives the reason for each component.

Most of the repository's lines are of these kinds: the web frontend, the telemetry store,
renderers, parsers, generated tables, docker and git command lines, and the programs in
Zig. They decide little and keep little state of their own, so a model of them would
restate them.

## 7. Plan

Done, with proofs: 1 `NetworkBroker`, 2 `HostExecBroker`, 3 `AuthzRules`, 4 `HostOAuth`,
5 `PortForwards` with its abstract specification, 6 `SessionRuntime`.

Proved: every invariant and every action property that a passing run checks, for every
value of the constants, and that `PortForwards` implements `PortPermissions`.

Models that would come next: the choice of a scope (`selectScope`, the web-socket gate and
the fallback) in front of `AuthzRules`, the session store, the teardown of the pipeline, the
reaper of docker resources against a session that starts with the same id.
