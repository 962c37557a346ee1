---------------------------- MODULE PortForwards ----------------------------
(***************************************************************************)
(* Port forwarding of a session: the broker that keeps the mappings        *)
(* (network/port_bind_broker.ts, port_forward_model.ts), the gateway that  *)
(* speaks to the container (network/port_bind_relay.ts) and the relay that *)
(* listens there (docker/embed/port-relay.mjs).                            *)
(*                                                                         *)
(* The broker changes its mappings one mutation at a time; the gateway's   *)
(* answers, timeouts and disconnects come at any moment and are queued     *)
(* behind the mutations.  A step is the code between two awaits.           *)
(*                                                                         *)
(* Left out: the probe of a target (no state), the streams of local        *)
(* forwards, and the scan for candidates.                                  *)
(***************************************************************************)
EXTENDS Integers, Sequences, FiniteSets, SequencesExt

CONSTANTS
    Ports,            \* ports of the container
    HostPorts,        \* ports of the host
    InitialForwards,  \* what a session may start with: functions from keys
    MaxCalls,         \* bound: calls of add and remove
    MaxDrops,         \* bound: how often the relay is lost
    MaxPersistFails,  \* bound: how many writes of the registry fail
    MayClose,         \* whether the session ends
    None              \* no entry, no mutation, no generation

Directions == {"local", "remote"}
Keys == Directions \X Ports                 \* forwardKey
Remote(c) == <<"remote", c>>
AnyPort == 0                                \* hostPort null: any free port
Owners == {"config", "dynamic", "internal"}
ForwardState == {"pending", "active", "unavailable", "failed"}
Initial == [host : HostPorts, owners : (SUBSET {"config", "internal"}) \ {{}}]
Entry == [host : HostPorts, owners : SUBSET Owners, state : ForwardState]
Resource == [token : Nat, host : HostPorts, active : BOOLEAN, establishing : BOOLEAN]
Steps == {"pick", "listen", "ensure", "ack", "persistAdd", "persistOwner",
          "rollback", "unforward", "persistRev", "retry", "persistInit",
          "persistPrep", "unforwardAll", "persistFail"}
Mutation == [step : Steps, key : Keys \cup {None}]
Listener == [token : Nat, id : Nat, ready : BOOLEAN]

ASSUME PortForwardsAssumption ==
    /\ IsFiniteSet(Ports)
    /\ IsFiniteSet(HostPorts)
    /\ HostPorts \subseteq Nat \ {0}
    /\ \A f \in InitialForwards : f \in UNION {[K -> Initial] : K \in SUBSET Keys}
    /\ MaxCalls \in Nat
    /\ MaxDrops \in Nat
    /\ MaxPersistFails \in Nat
    /\ MayClose \in BOOLEAN
    /\ None \notin Nat \cup Entry \cup Resource \cup Mutation \cup Listener

VARIABLES
    initial,    \* the state of the initial forwards
    managed,    \* per key: the forward the broker keeps, or None
    gens,       \* per port: generations of the remote key, or None
    openLocal,  \* ports with an open local listener (open)
    queue,      \* mutations behind mutationTail
    cur,        \* the mutation that runs: [step, key], or None
    closing,    \* "open", "closing", "closed" (broker) or "shut" (gateway)
    registry,   \* what the registry file says of managed
    table,      \* per port: forwardTable of the gateway, or None
    retired,    \* per port: tokens whose listener may still be there
    waiting,    \* pending: the requests the relay has not answered
    conn,       \* whether control is connected
    streams,    \* connections from the container to host ports
    toRelay,    \* lines on their way to the relay
    answers,    \* ids the relay answered: [port, id, ok]
    fwd,        \* per port: the relay's listener, or None
    limbo,      \* relay: listeners cancelled before they were ready
    calls,      \* bound counters
    drops,
    persistFails,
    unsaved,    \* history: how many writes of the registry failed in a row
    troubled    \* history, per port: this generation was reported lost

forwards == <<managed, gens, openLocal, troubled>>
gateway == <<table, retired, waiting, streams>>
relay == <<conn, toRelay, answers, fwd, limbo>>
bounds == <<calls, drops, persistFails>>
vars == <<initial, forwards, queue, cur, closing, registry, unsaved, gateway, relay,
          bounds>>

TypeOK ==
    /\ initial \in {"pending", "ready", "failed"}
    /\ managed \in [Keys -> Entry \cup {None}]
    /\ gens \in [Ports -> Nat \cup {None}]
    /\ openLocal \subseteq Ports
    /\ \A i \in DOMAIN queue :
        queue[i].type \in {"add", "remove", "unbind", "state", "connected", "prepare"}
    /\ cur \in Mutation \cup {None}
    /\ closing \in {"open", "closing", "closed", "shut"}
    /\ registry \in [Keys -> Entry \cup {None}]
    /\ table \in [Ports -> Resource \cup {None}]
    /\ retired \in [Ports -> SUBSET Nat]
    /\ waiting \subseteq [port : Ports, id : Nat, kind : {"forward", "unforward"},
                          token : Nat, by : {"add", "adopt", "broker"}]
    /\ conn \in BOOLEAN
    /\ streams \subseteq [port : Ports, host : HostPorts]
    /\ answers \subseteq [port : Ports, id : Nat, ok : BOOLEAN]
    /\ fwd \in [Ports -> Listener \cup {None}]
    /\ limbo \subseteq [port : Ports, id : Nat, removal : Nat]
    /\ unsaved \in 0..MaxPersistFails
    /\ troubled \in [Ports -> BOOLEAN]

Init ==
    /\ initial = "pending"
    /\ managed = [k \in Keys |-> None]
    /\ gens = [c \in Ports |-> None]
    /\ openLocal = {}
    /\ \E f \in InitialForwards : queue = <<[type |-> "prepare", entries |-> f]>>
    /\ cur = None
    /\ closing = "open"
    /\ registry = managed
    /\ table = [c \in Ports |-> None]
    /\ retired = [c \in Ports |-> {}]
    /\ waiting = {}
    /\ conn = FALSE
    /\ streams = {}
    /\ toRelay = <<>>
    /\ answers = {}
    /\ fwd = [c \in Ports |-> None]
    /\ limbo = {}
    /\ calls = 0
    /\ drops = 0
    /\ persistFails = 0
    /\ unsaved = 0
    /\ troubled = [c \in Ports |-> FALSE]

Exit == [kind |-> "initial-failed", port |-> 0, id |-> 0, token |-> 0]

-----------------------------------------------------------------------------
(* Names                                                                   *)

\* An id, a token or a generation: random in the code, one that is unused here.
Unused(S) == CHOOSE n \in 1..(Cardinality(S) + 1) : n \notin S

OfPort(S, c) == {x \in S : x.port = c}

NewId(c) ==
    Unused({w.id : w \in OfPort(waiting, c)} \cup {a.id : a \in OfPort(answers, c)}
           \cup {m.id : m \in OfPort(Range(toRelay), c)}
           \cup {x.id : x \in OfPort(limbo, c)} \cup {x.removal : x \in OfPort(limbo, c)}
           \cup (IF fwd[c] = None THEN {} ELSE {fwd[c].id}))

NewToken(c) ==
    Unused(retired[c] \cup {w.token : w \in OfPort(waiting, c)}
           \cup {m.token : m \in OfPort(Range(toRelay), c)}
           \cup (IF table[c] = None THEN {} ELSE {table[c].token})
           \cup (IF fwd[c] = None THEN {} ELSE {fwd[c].token}))

NewGeneration(c) ==
    Unused({queue[i].gen : i \in {j \in DOMAIN queue :
                queue[j].type = "state" /\ queue[j].port = c}})

-----------------------------------------------------------------------------
(* The gateway: requests, reports and permissions                          *)

\* Seeded fault: a report that comes while a mutation runs is lost.
ReportIfIdle(C, state) ==
    LET told == {c \in C : gens[c] # None /\ closing = "open" /\ cur = None}
    IN  SetToSeq({[type |-> "state", port |-> c, gen |-> gens[c], state |-> state] :
                  c \in told})

\* report: the broker's onForwardState, which takes the generation the key
\* has now and queues the state behind the mutations.
Report(C, state) ==
    LET told == {c \in C : gens[c] # None /\ closing = "open"}
    IN  SetToSeq({[type |-> "state", port |-> c, gen |-> gens[c], state |-> state] :
                  c \in told})

\* send: a line to the relay for each port of T, and an entry of pending
\* beside the others.
Send(kind, by, T, others) ==
    LET asks == {[port |-> c, id |-> NewId(c), kind |-> kind, token |-> T[c]] :
                 c \in DOMAIN T}
    IN  /\ toRelay' = toRelay \o SetToSeq(asks)
        /\ waiting' = others \cup
              {[port |-> a.port, id |-> a.id, kind |-> kind, token |-> a.token,
                by |-> by] : a \in asks}

\* unforward of the ports C: retire ends the permission and the streams at
\* once, then the relay is asked to close one listener after the other.
\* cur goes to step while answers are awaited, else on to its next step.
AfterUnforward(step) ==
    CASE step = "rollback" -> None
      [] step = "unforward" -> [step |-> "persistRev", key |-> None]
      [] step = "unforwardAll" -> [step |-> "persistFail", key |-> None]

\* Seeded fault: retire without the test for an entry.
RetiredAlways(C) ==
    [c \in Ports |-> IF c \in C
        THEN retired[c] \cup {IF table[c] = None THEN None ELSE table[c].token}
        ELSE retired[c]]

\* Seeded fault: a token is not kept once its permission ends.
RetiredNever(C) == [c \in Ports |-> IF c \in C THEN {} ELSE retired[c]]

Retired(C) ==
    [c \in Ports |-> IF c \in C /\ table[c] # None THEN retired[c] \cup {table[c].token}
                                                  ELSE retired[c]]

\* Seeded fault: the entry stays in the table until the relay has confirmed.
UnforwardLate(C, step, others) ==
    /\ retired' = Retired(C)
    /\ Send("unforward", "broker",
            [c \in {x \in C : conn /\ Retired(C)[x] # {}} |->
                CHOOSE t \in Retired(C)[c] : TRUE], others)
    /\ cur' = IF {x \in C : conn /\ Retired(C)[x] # {}} = {} THEN AfterUnforward(step)
              ELSE [step |-> step, key |-> None]
    /\ UNCHANGED <<table, streams, conn, fwd, limbo>>

\* Seeded fault: the permission ends, its streams go on.
UnforwardOnly(C, step, others) ==
    LET asked == {c \in C : conn /\ Retired(C)[c] # {}}
    IN  /\ retired' = Retired(C)
        /\ table' = [c \in Ports |-> IF c \in C THEN None ELSE table[c]]
        /\ UNCHANGED streams
        /\ Send("unforward", "broker",
                [c \in asked |-> CHOOSE t \in Retired(C)[c] : TRUE], others)
        /\ cur' = IF asked = {} THEN AfterUnforward(step)
                                ELSE [step |-> step, key |-> None]
        /\ UNCHANGED <<conn, fwd, limbo>>

Unforward(C, step, others) ==
    LET asked == {c \in C : conn /\ Retired(C)[c] # {}}
    IN  /\ retired' = Retired(C)
        /\ table' = [c \in Ports |-> IF c \in C THEN None ELSE table[c]]
        /\ streams' = {s \in streams : s.port \notin C}
        /\ Send("unforward", "broker",
                [c \in asked |-> CHOOSE t \in Retired(C)[c] : TRUE], others)
        /\ cur' = IF asked = {} THEN AfterUnforward(step)
                                ELSE [step |-> step, key |-> None]
        /\ UNCHANGED <<conn, fwd, limbo>>

-----------------------------------------------------------------------------
(* The broker: mutations                                                   *)

Managed(dir) == {k \in Keys : k[1] = dir /\ managed[k] # None}

\* createsForwardCycle: follow the one edge out of each node from the new
\* target; hosts and containers are nodes of their own.
Source(k, host) == IF k[1] = "local" THEN <<"host", host>> ELSE <<"container", k[2]>>
Target(k, host) == IF k[1] = "local" THEN <<"container", k[2]>> ELSE <<"host", host>>

End == <<"end", 0>>

\* Seeded fault: the walk stops one edge early.
CycleOneShort(entries, k, host) ==
    LET out(n) == {e \in DOMAIN entries : Source(e, entries[e].host) = n}
        next(n) == IF out(n) = {} THEN End
                   ELSE LET e == CHOOSE e \in out(n) : TRUE IN Target(e, entries[e].host)
        length == Cardinality(DOMAIN entries)
        node[i \in 0..length] == IF i = 0 THEN Target(k, host) ELSE next(node[i - 1])
    IN  \E i \in 0..(length - 1) : node[i] = Source(k, host)

CreatesForwardCycle(entries, k, host) ==
    LET out(n) == {e \in DOMAIN entries : Source(e, entries[e].host) = n}
        next(n) == IF out(n) = {} THEN End
                   ELSE LET e == CHOOSE e \in out(n) : TRUE IN Target(e, entries[e].host)
        length == Cardinality(DOMAIN entries)
        node[i \in 0..length] == IF i = 0 THEN Target(k, host) ELSE next(node[i - 1])
    IN  \E i \in 0..length : node[i] = Source(k, host)

\* A mapping that add and prepareInitial refuse beside these entries.
Conflicts(entries, k, host) ==
    \/ k[1] = "local" /\ \E e \in DOMAIN entries : e[1] = "local" /\ entries[e].host = host
    \/ CreatesForwardCycle(entries, k, host)

Entries == [k \in {e \in Keys : managed[e] # None} |-> managed[k]]

\* managed.set and generations.set of a new forward.
Insert(k, host, state) ==
    /\ managed' = [managed EXCEPT ![k] =
                     [host |-> host, owners |-> {"dynamic"}, state |-> state]]
    /\ gens' = IF k[1] = "remote" THEN [gens EXCEPT ![k[2]] = NewGeneration(k[2])]
                                  ELSE gens
    /\ troubled' = IF k[1] = "remote" THEN [troubled EXCEPT ![k[2]] = FALSE] ELSE troubled

\* managed.delete and generations.delete.
Delete(K) ==
    LET C == {k[2] : k \in {e \in K : e[1] = "remote"}}
    IN  /\ managed' = [k \in Keys |-> IF k \in K THEN None ELSE managed[k]]
        /\ gens' = [c \in Ports |-> IF c \in C THEN None ELSE gens[c]]
        /\ troubled' = [c \in Ports |-> IF c \in C THEN FALSE ELSE troubled[c]]

At(step, key) == cur' = [step |-> step, key |-> key]
Done == cur' = None

\* mutate(action): the head of the queue runs when nothing else does.
Start(type) ==
    /\ cur = None
    /\ queue # <<>>
    /\ Head(queue).type = type
    /\ queue' = Tail(queue)
    /\ UNCHANGED <<closing, registry, unsaved, bounds>>

\* add until its first await: a port that is taken by another mapping is
\* refused, a mapping that is there gets the caller as one more owner.
StartAdd ==
    /\ Start("add")
    /\ LET k == Head(queue).key
           e == managed[k]
           host == Head(queue).host
       IN  \/ /\ e # None
              /\ \/ host \notin {e.host, AnyPort}
                 \/ "dynamic" \in e.owners
              /\ Done
              /\ UNCHANGED <<forwards, gateway, relay>>
           \/ /\ e # None
              /\ host \in {e.host, AnyPort}
              /\ "dynamic" \notin e.owners
              /\ managed' = [managed EXCEPT ![k].owners = @ \cup {"dynamic"}]
              /\ At("persistOwner", k)
              /\ UNCHANGED <<gens, openLocal, troubled, gateway, relay>>
           \/ /\ e = None
              /\ host # AnyPort
              /\ Conflicts(Entries, k, host)
              /\ Done
              /\ UNCHANGED <<forwards, gateway, relay>>
           \/ /\ e = None
              /\ host = AnyPort
              /\ At("pick", k)
              /\ UNCHANGED <<forwards, gateway, relay>>
           \/ /\ e = None
              /\ host # AnyPort
              /\ ~Conflicts(Entries, k, host)
              /\ Insert(k, host, "pending")
              \* forward() finds no entry in the table: PermissionIsManaged.
              /\ IF k[1] = "local"
                 THEN At("listen", k) /\ UNCHANGED table
                 ELSE /\ At("ensure", k)
                      /\ table' = [table EXCEPT ![k[2]] =
                            [token |-> NewToken(k[2]), host |-> host, active |-> FALSE,
                             establishing |-> TRUE]]
              /\ UNCHANGED <<openLocal, retired, waiting, streams, relay>>
    /\ UNCHANGED initial

\* addLocal without a host port: listenOn finds a free one and add keeps it,
\* or none is free or the one found makes a cycle.
Pick ==
    /\ cur # None
    /\ cur.step = "pick"
    /\ \/ \E host \in HostPorts :
            /\ \A e \in Managed("local") : managed[e].host # host
            /\ ~Conflicts(Entries, cur.key, host)
            /\ Insert(cur.key, host, "active")
            /\ openLocal' = openLocal \cup {cur.key[2]}
            /\ At("persistAdd", cur.key)
       \/ Done /\ UNCHANGED forwards
    /\ UNCHANGED <<initial, queue, closing, registry, unsaved, gateway, relay, bounds>>

\* listenOn of a local forward answers: the port is open or taken.
Listen ==
    /\ cur # None
    /\ cur.step = "listen"
    /\ \/ /\ managed' = [managed EXCEPT ![cur.key].state = "active"]
          /\ openLocal' = openLocal \cup {cur.key[2]}
          /\ At("persistAdd", cur.key)
          /\ UNCHANGED <<gens, troubled>>
       \/ /\ Delete({cur.key})
          /\ Done
          /\ UNCHANGED openLocal
    /\ UNCHANGED <<initial, queue, closing, registry, unsaved, gateway, relay, bounds>>

\* ensureRelay answers ready: establish reports pending and asks the relay.
EnsureReady ==
    /\ cur # None
    /\ cur.step = "ensure"
    /\ conn
    /\ LET c == cur.key[2]
       IN  /\ queue' = queue \o Report({c}, "pending")
           /\ Send("forward", "add", [x \in {c} |-> table[x].token], waiting)
    /\ At("ack", cur.key)
    /\ UNCHANGED <<initial, forwards, closing, registry, unsaved, table, retired,
                   streams, conn, answers, fwd, limbo, bounds>>

\* The forward of an add failed: reported with the state, retired by the
\* gateway, deleted by the broker, and rolled back at the relay.
AddFails(c, state, others, unread) ==
    /\ queue' = queue \o Report({c}, state)
    /\ Delete({Remote(c)})
    /\ Unforward({c}, "rollback", others)
    /\ answers' = unread
    /\ UNCHANGED openLocal

\* ensureRelay gives up: the container is down, the relay does not answer, or the exec
\* failed -- which it reports even if a relay has connected meanwhile.
EnsureFails ==
    /\ cur # None
    /\ cur.step = "ensure"
    /\ AddFails(cur.key[2], "unavailable", waiting, answers)
    /\ UNCHANGED <<initial, closing, registry, unsaved, bounds>>

\* persist: the registry takes the mappings as they are, or the write fails.
Saved ==
    /\ registry' = managed
    /\ unsaved' = 0
    /\ UNCHANGED persistFails

NotSaved ==
    /\ persistFails < MaxPersistFails
    /\ persistFails' = persistFails + 1
    /\ unsaved' = unsaved + 1
    /\ UNCHANGED registry

Persisting(step) ==
    /\ cur # None
    /\ cur.step = step
    /\ UNCHANGED <<queue, closing, calls, drops>>

\* add: without its registry entry a forward is taken back.
PersistAdd ==
    /\ Persisting("persistAdd")
    /\ \/ Saved /\ Done /\ UNCHANGED <<forwards, gateway, relay>>
       \/ /\ NotSaved
          /\ Delete({cur.key})
          /\ IF cur.key[1] = "local"
             THEN /\ openLocal' = openLocal \ {cur.key[2]}
                  /\ Done
                  /\ UNCHANGED <<gateway, relay>>
             ELSE /\ Unforward({cur.key[2]}, "rollback", waiting)
                  /\ UNCHANGED <<openLocal, answers>>
    /\ UNCHANGED initial

\* add of a mapping that is there: the owner goes again if it is not saved.
PersistOwner ==
    /\ Persisting("persistOwner")
    /\ \/ Saved /\ UNCHANGED managed
       \/ /\ NotSaved
          /\ managed' = [managed EXCEPT ![cur.key].owners = @ \ {"dynamic"}]
    /\ Done
    /\ UNCHANGED <<initial, gens, openLocal, troubled, gateway, relay>>

\* Seeded fault: a failed write is not tried again.
PersistOnce ==
    /\ Persisting("persistRev")
    /\ Saved \/ NotSaved
    /\ Done
    /\ UNCHANGED <<initial, forwards, gateway, relay>>

\* persistRevocation: a failed write is tried once more; nothing is restored.
PersistRevocation ==
    /\ \/ Persisting("persistRev") /\ Saved /\ Done
       \/ Persisting("persistRev") /\ NotSaved /\ At("retry", None)
       \/ Persisting("retry") /\ (Saved \/ NotSaved) /\ Done
    /\ UNCHANGED <<initial, forwards, gateway, relay>>

\* remove: user owners go; a forward without another owner is closed.
\* removeSelected finds a local forward by its host port.
StartRemove ==
    /\ Start("remove") \/ Start("unbind")
    /\ LET op == Head(queue)
           K == IF op.type = "remove" THEN {op.key} \ {k \in Keys : managed[k] = None}
                ELSE {k \in Managed("local") : managed[k].host = op.host}
       IN  \/ K = {} /\ Done /\ UNCHANGED <<forwards, gateway, relay>>
           \/ \E k \in K :
                /\ managed[k].owners = {"internal"}
                /\ Done
                /\ UNCHANGED <<forwards, gateway, relay>>
           \/ \E k \in K :
                /\ {"internal"} \subseteq managed[k].owners
                /\ managed[k].owners # {"internal"}
                /\ managed' = [managed EXCEPT ![k].owners = {"internal"}]
                /\ At("persistRev", None)
                /\ UNCHANGED <<gens, openLocal, troubled, gateway, relay>>
           \/ \E k \in K :
                /\ "internal" \notin managed[k].owners
                /\ Delete({k})
                /\ IF k[1] = "local"
                   THEN /\ openLocal' = openLocal \ {k[2]}
                        /\ At("persistRev", None)
                        /\ UNCHANGED <<gateway, relay>>
                   ELSE /\ Unforward({k[2]}, "unforward", waiting)
                        /\ UNCHANGED <<openLocal, answers>>
    /\ UNCHANGED initial

-----------------------------------------------------------------------------
(* The broker: initial forwards and states                                 *)

\* failInitial: every mapping goes, then the relay is told.
FailInitial ==
    /\ initial' = "failed"
    /\ Delete(Keys)
    /\ openLocal' = {}
    /\ Unforward({k[2] : k \in Managed("remote")}, "unforwardAll", waiting)
    /\ UNCHANGED answers

\* prepareInitial: the mappings are entered, local ones once they listen; a
\* conflict among them or a port that is taken fails them all.
StartPrepare ==
    /\ Start("prepare")
    /\ LET f == Head(queue).entries
           without(k) == [e \in DOMAIN f \ {k} |-> f[e]]
       IN  \/ /\ \A k \in DOMAIN f : ~Conflicts(without(k), k, f[k].host)
              /\ managed' = [k \in Keys |-> IF k \notin DOMAIN f THEN None ELSE
                     [host |-> f[k].host, owners |-> f[k].owners,
                      state |-> IF k[1] = "local" THEN "active" ELSE "pending"]]
              /\ gens' = [c \in Ports |-> IF Remote(c) \in DOMAIN f THEN 1 ELSE None]
              /\ openLocal' = {c \in Ports : <<"local", c>> \in DOMAIN f}
              /\ At("persistPrep", None)
              /\ UNCHANGED <<initial, troubled, gateway, relay>>
           \/ DOMAIN f # {} /\ FailInitial

PersistPrepared ==
    /\ Persisting("persistPrep")
    /\ \/ /\ Saved
          /\ initial' = IF DOMAIN Entries = {} THEN "ready" ELSE initial
          /\ Done
          /\ UNCHANGED <<forwards, gateway, relay>>
       \/ NotSaved /\ FailInitial

\* completeInitial: the initial forwards stand once all of them are active
\* and a relay is there to be told.
CompleteInitial ==
    initial' = IF initial = "pending" /\ conn /\ \A k \in Keys :
                        managed[k] # None => managed[k].state = "active"
               THEN "ready" ELSE initial

\* onRelayConnected, on the queue.
StartConnected ==
    /\ Start("connected")
    /\ CompleteInitial
    /\ Done
    /\ UNCHANGED <<forwards, gateway, relay>>

\* Seeded fault: the key is looked up, its generation is not compared.
IsThere(e) == gens[e.port] # None

\* Whether a state event is about the forward that is there now.
IsCurrent(e) == gens[e.port] = e.gen

\* onForwardState, on the queue.
StartState ==
    /\ Start("state")
    /\ LET e == Head(queue)
       IN  \/ /\ managed[Remote(e.port)] = None \/ ~IsCurrent(e)
              /\ Done
              /\ UNCHANGED <<initial, forwards, gateway, relay>>
           \/ /\ managed[Remote(e.port)] # None
              /\ IsCurrent(e)
              /\ initial = "pending" /\ e.state \in {"failed", "unavailable"}
              /\ FailInitial
           \/ /\ managed[Remote(e.port)] # None
              /\ IsCurrent(e)
              /\ initial # "pending" \/ e.state \in {"pending", "active"}
              /\ managed' = [managed EXCEPT ![Remote(e.port)].state = e.state]
              /\ At(IF initial = "pending" THEN "persistInit" ELSE "persistRev", None)
              /\ UNCHANGED <<initial, gens, openLocal, troubled, gateway, relay>>

\* Seeded fault: completeInitial is left to onRelayConnected.
PersistInitialOnly ==
    /\ Persisting("persistInit")
    /\ \/ Saved /\ Done /\ UNCHANGED <<initial, forwards, gateway, relay>>
       \/ NotSaved /\ FailInitial

\* A state of an initial forward is saved, and may be the last one missing.
PersistInitial ==
    /\ Persisting("persistInit")
    /\ \/ Saved /\ CompleteInitial /\ Done /\ UNCHANGED <<forwards, gateway, relay>>
       \/ NotSaved /\ FailInitial

\* The end of failInitial: the registry, whatever comes of it, and the relay,
\* which exits when it is told.
PersistFailure ==
    /\ Persisting("persistFail")
    /\ Saved \/ NotSaved
    /\ toRelay' = IF conn THEN Append(toRelay, Exit) ELSE toRelay
    /\ Done
    /\ UNCHANGED <<initial, forwards, gateway, conn, answers, fwd, limbo>>

-----------------------------------------------------------------------------
(* The gateway: the relay answers, is lost, and comes back                 *)

\* An unforward request ends without its answer or with the last one.
EndRequest(w) ==
    /\ waiting' = waiting \ {w}
    /\ cur' = IF \E x \in waiting \ {w} : x.by = "broker" THEN cur
              ELSE AfterUnforward(cur.step)

\* A forward asked by adoptControl ends: the entry is active, or stays in
\* the table without permission; it may have left the table meanwhile.
EndAdopted(w, state) ==
    /\ IF table[w.port] # None /\ table[w.port].token = w.token
       THEN /\ table' = [table EXCEPT ![w.port].active = (state = "active"),
                                     ![w.port].establishing = FALSE]
            /\ queue' = queue \o Report({w.port}, state)
            /\ troubled' = [troubled EXCEPT ![w.port] =
                    @ \/ (gens[w.port] # None /\ state # "active")]
       ELSE UNCHANGED <<table, queue, troubled>>
    /\ waiting' = waiting \ {w}
    /\ UNCHANGED <<managed, gens, openLocal, cur, retired, streams, toRelay>>

\* The forward an add waits for is up: the mapping is active.
EndAdd(w) ==
    /\ table' = [table EXCEPT ![w.port].active = TRUE, ![w.port].establishing = FALSE]
    /\ queue' = queue \o Report({w.port}, "active")
    /\ managed' = [managed EXCEPT ![Remote(w.port)].state = "active"]
    /\ At("persistAdd", cur.key)
    /\ waiting' = waiting \ {w}
    /\ UNCHANGED <<gens, openLocal, troubled, retired, streams, toRelay>>

\* The relay confirmed the end of a listener: its token is forgotten, the
\* next one of the port is asked for, and the mutation goes on after the last.
EndUnforward(w) ==
    LET left == retired[w.port] \ {w.token}
    IN  /\ retired' = [retired EXCEPT ![w.port] = left]
        /\ IF left # {}
           THEN /\ Send("unforward", "broker",
                        [c \in {w.port} |-> CHOOSE t \in left : TRUE], waiting \ {w})
                /\ UNCHANGED cur
           ELSE EndRequest(w) /\ UNCHANGED toRelay
        /\ UNCHANGED <<forwards, queue, table, streams>>

\* A line ok or fail of the relay: settle.
Settled(w, ok) ==
    /\ [port |-> w.port, id |-> w.id, ok |-> ok] \in answers
    /\ answers' = answers \ {[port |-> w.port, id |-> w.id, ok |-> ok]}
    /\ UNCHANGED <<initial, closing, registry, unsaved, conn, fwd, limbo, bounds>>

Answer(w) ==
    \/ w.kind = "unforward" /\ Settled(w, TRUE) /\ EndUnforward(w)
    \/ w.by = "adopt" /\ Settled(w, TRUE) /\ EndAdopted(w, "active")
    \/ w.by = "adopt" /\ Settled(w, FALSE) /\ EndAdopted(w, "failed")
    \/ w.by = "add" /\ Settled(w, TRUE) /\ EndAdd(w)

\* The relay could not listen for an add.
AnswerRefused(w) ==
    /\ w.by = "add"
    /\ [port |-> w.port, id |-> w.id, ok |-> FALSE] \in answers
    /\ LET rest == answers \ {[port |-> w.port, id |-> w.id, ok |-> FALSE]}
       IN  AddFails(w.port, "failed", waiting \ {w}, rest)
    /\ UNCHANGED <<initial, closing, registry, unsaved, bounds>>

\* An answer nobody waits for any more.
LateAnswer ==
    /\ \E a \in answers :
        /\ ~\E w \in waiting : w.port = a.port /\ w.id = a.id
        /\ answers' = answers \ {a}
    /\ UNCHANGED <<initial, forwards, queue, cur, closing, registry, unsaved, gateway,
                   conn, toRelay, fwd, limbo, bounds>>

\* Seeded fault: only forwards have a timer.
TimeOutForward(w) ==
    /\ w.kind = "forward"
    /\ \/ /\ w.by = "adopt"
          /\ EndAdopted(w, "unavailable")
          /\ UNCHANGED <<conn, answers, fwd, limbo>>
       \/ /\ w.by = "add"
          /\ AddFails(w.port, "unavailable", waiting \ {w}, answers)
    /\ UNCHANGED <<initial, closing, registry, unsaved, bounds>>

\* pairingTimeoutMs is over: a transport error.
TimeOut(w) ==
    /\ \/ /\ w.kind = "unforward"
          /\ EndRequest(w)
          /\ UNCHANGED <<forwards, queue, table, retired, streams, relay>>
       \/ /\ w.by = "adopt"
          /\ EndAdopted(w, "unavailable")
          /\ UNCHANGED <<conn, answers, fwd, limbo>>
       \/ /\ w.by = "add"
          /\ AddFails(w.port, "unavailable", waiting \ {w}, answers)
    /\ UNCHANGED <<initial, closing, registry, unsaved, bounds>>

\* drop: the control connection is gone.  Every permission ends, every
\* request fails, and a listener nobody can reach is forgotten.
LoseRelay ==
    LET adding == {w.port : w \in {x \in waiting : x.by = "add"}}
        asked == {w.port : w \in {x \in waiting : x.kind = "forward"
                     /\ table[x.port] # None /\ table[x.port].token = x.token}}
        listed == {c \in Ports : table[c] # None}
    IN  /\ queue' = queue \o Report(listed, "unavailable") \o Report(asked, "unavailable")
        /\ managed' = [k \in Keys |-> IF k \in {Remote(c) : c \in adding} THEN None
                                                                         ELSE managed[k]]
        /\ gens' = [c \in Ports |-> IF c \in adding THEN None ELSE gens[c]]
        /\ troubled' = [c \in Ports |->
              c \notin adding /\ (troubled[c] \/ (c \in listed /\ gens[c] # None))]
        /\ table' = [c \in Ports |->
              IF c \in adding \/ table[c] = None THEN None
              ELSE [table[c] EXCEPT !.active = FALSE,
                                    !.establishing = @ /\ c \notin asked]]
        /\ retired' = [c \in Ports |-> IF c \in adding THEN {table[c].token} ELSE {}]
        /\ cur' = IF adding # {} THEN None
                  ELSE IF \E w \in waiting : w.kind = "unforward" THEN AfterUnforward(cur.step)
                  ELSE cur
        /\ waiting' = {}
        /\ streams' = {}
        /\ conn' = FALSE
        /\ toRelay' = <<>>
        /\ answers' = {}
        /\ fwd' = [c \in Ports |-> None]
        /\ limbo' = {}
        /\ UNCHANGED openLocal

Drop ==
    /\ conn
    /\ drops < MaxDrops
    /\ drops' = drops + 1
    /\ LoseRelay
    /\ UNCHANGED <<initial, closing, registry, unsaved, calls, persistFails>>

\* adoptControl: the mappings the broker keeps are asked for anew; an add
\* that waits for the relay asks for its own.
Connect ==
    /\ ~conn
    /\ closing # "shut"
    /\ \A i \in DOMAIN queue : queue[i].type # "prepare"   \* then the container starts
    /\ cur # None => cur.step # "persistPrep"
    /\ LET own == {c \in Ports : table[c] # None /\ table[c].establishing}
           desired == {k[2] : k \in Managed("remote")} \ own
       IN  /\ table' = [c \in Ports |->
                 IF c \in own THEN table[c]
                 ELSE IF c \in desired
                 THEN [token |-> NewToken(c), host |-> managed[Remote(c)].host,
                       active |-> FALSE, establishing |-> TRUE]
                 ELSE None]
           /\ conn' = TRUE
           /\ waiting' = {[port |-> c, id |-> 1, kind |-> "forward", token |-> NewToken(c),
                           by |-> "adopt"] : c \in desired}
           /\ toRelay' = SetToSeq({[port |-> c, id |-> 1, kind |-> "forward",
                                    token |-> NewToken(c)] : c \in desired})
           /\ queue' = queue \o Report(desired, "pending") \o
                 (IF initial = "pending" /\ closing = "open" THEN <<[type |-> "connected"]>>
                  ELSE <<>>)
    /\ UNCHANGED <<initial, forwards, cur, closing, registry, unsaved, retired, streams,
                   answers, fwd, limbo, bounds>>

\* acceptForwardClient: a client of the relay's listener reaches the host if
\* its token has an active entry; otherwise nothing happens.
Accept(c) ==
    /\ conn
    /\ fwd[c] # None
    /\ fwd[c].ready
    /\ table[c] # None
    /\ table[c].token = fwd[c].token
    /\ table[c].active
    /\ streams' = streams \cup {[port |-> c, host |-> table[c].host]}
    /\ UNCHANGED <<initial, forwards, queue, cur, closing, registry, unsaved, table,
                   retired, waiting, relay, bounds>>

StreamEnds ==
    /\ \E s \in streams : streams' = streams \ {s}
    /\ UNCHANGED <<initial, forwards, queue, cur, closing, registry, unsaved, table,
                   retired, waiting, relay, bounds>>

-----------------------------------------------------------------------------
(* The relay                                                               *)

RelayOnly == UNCHANGED <<initial, forwards, queue, cur, closing, registry, unsaved,
                         gateway, conn, bounds>>

\* The next line is a forward: the port is in use, or it is being opened.
RelayForward ==
    /\ toRelay # <<>>
    /\ Head(toRelay).kind = "forward"
    /\ toRelay' = Tail(toRelay)
    /\ LET m == Head(toRelay)
       IN  IF fwd[m.port] # None
           THEN /\ answers' = answers \cup {[port |-> m.port, id |-> m.id, ok |-> FALSE]}
                /\ UNCHANGED fwd
           ELSE /\ fwd' = [fwd EXCEPT ![m.port] =
                             [token |-> m.token, id |-> m.id, ready |-> FALSE]]
                /\ UNCHANGED answers
    /\ UNCHANGED limbo
    /\ RelayOnly

\* server.listen ends: the port is open, or another process has it.
RelayListens(c) ==
    /\ fwd[c] # None
    /\ ~fwd[c].ready
    /\ \E ok \in BOOLEAN :
        /\ answers' = answers \cup {[port |-> c, id |-> fwd[c].id, ok |-> ok]}
        /\ fwd' = IF ok THEN [fwd EXCEPT ![c].ready = TRUE, ![c].id = 0]
                        ELSE [fwd EXCEPT ![c] = None]
    /\ UNCHANGED <<toRelay, limbo>>
    /\ RelayOnly

\* The next line is an unforward: an unknown token is gone already; a
\* listener that is not ready yet is cancelled and confirmed later.
RelayUnforward ==
    /\ toRelay # <<>>
    /\ Head(toRelay).kind = "unforward"
    /\ toRelay' = Tail(toRelay)
    /\ LET m == Head(toRelay)
           found == fwd[m.port] # None /\ fwd[m.port].token = m.token
       IN  /\ fwd' = IF found THEN [fwd EXCEPT ![m.port] = None] ELSE fwd
           /\ IF found /\ ~fwd[m.port].ready
              THEN /\ limbo' = limbo \cup
                         {[port |-> m.port, id |-> fwd[m.port].id, removal |-> m.id]}
                   /\ UNCHANGED answers
              ELSE /\ answers' = answers \cup {[port |-> m.port, id |-> m.id, ok |-> TRUE]}
                   /\ UNCHANGED limbo
    /\ RelayOnly

\* A cancelled listener opens and is closed, or fails: the forward is then
\* answered too, otherwise only its removal.
RelayCancelled ==
    /\ \E x \in limbo :
        /\ limbo' = limbo \ {x}
        /\ \E failed \in {{}, {[port |-> x.port, id |-> x.id, ok |-> FALSE]}} :
            answers' = answers \cup failed
                         \cup {[port |-> x.port, id |-> x.removal, ok |-> TRUE]}
    /\ UNCHANGED <<toRelay, fwd>>
    /\ RelayOnly

\* initial-failed: the relay exits, and with it the control connection.
RelayExits ==
    /\ toRelay # <<>>
    /\ Head(toRelay) = Exit
    /\ LoseRelay
    /\ UNCHANGED <<initial, closing, registry, unsaved, bounds>>

-----------------------------------------------------------------------------
(* Calls                                                                   *)

\* mutateUser: refused until the initial forwards stand, and when closing.
Call(op) ==
    /\ calls < MaxCalls
    /\ initial = "ready"
    /\ closing = "open"
    /\ queue' = Append(queue, op)
    /\ calls' = calls + 1
    /\ UNCHANGED <<initial, forwards, cur, closing, registry, unsaved, gateway, relay,
                   drops, persistFails>>

\* addPortForward, addLocal: bind, forward and add-forward of the control
\* socket, and the UI.
AddPortForward ==
    \E k \in Keys, host \in HostPorts \cup {AnyPort} :
        /\ host = AnyPort => k[1] = "local"
        /\ Call([type |-> "add", key |-> k, host |-> host])

\* removePortForward, removeSelected: unbind, unforward, remove-forward.
RemovePortForward ==
    \/ \E k \in Keys : Call([type |-> "remove", key |-> k])
    \/ \E host \in HostPorts : Call([type |-> "unbind", host |-> host])

\* close: no more mutations; those queued still run.
Close ==
    /\ MayClose
    /\ closing = "open"
    /\ closing' = "closing"
    /\ UNCHANGED <<initial, forwards, queue, cur, registry, unsaved, gateway, relay, bounds>>

CloseBroker ==
    /\ closing = "closing"
    /\ queue = <<>>
    /\ cur = None
    /\ closing' = "closed"
    /\ Delete(Keys)
    /\ openLocal' = {}
    /\ UNCHANGED <<initial, queue, cur, registry, unsaved, gateway, relay, bounds>>

\* gateway.close: every connection is destroyed, the relay's one with them.
CloseGateway ==
    /\ closing = "closed"
    /\ closing' = "shut"
    /\ LoseRelay
    /\ UNCHANGED <<initial, registry, unsaved, bounds>>

BrokerStep ==
    \/ StartAdd \/ Pick \/ Listen \/ EnsureReady \/ EnsureFails
    \/ PersistAdd \/ PersistOwner \/ PersistRevocation \/ StartRemove
    \/ StartPrepare \/ PersistPrepared \/ StartConnected \/ StartState
    \/ PersistInitial \/ PersistFailure
    \/ CloseBroker \/ CloseGateway

GatewayStep == \E w \in waiting : Answer(w) \/ AnswerRefused(w) \/ TimeOut(w)

RelayStep ==
    \/ RelayForward \/ RelayUnforward \/ RelayCancelled \/ RelayExits
    \/ \E c \in Ports : RelayListens(c)

Next ==
    \/ BrokerStep \/ GatewayStep \/ LateAnswer \/ RelayStep
    \/ Connect \/ Drop
    \/ AddPortForward \/ RemovePortForward \/ Close
    \/ StreamEnds
    \/ \E c \in Ports : Accept(c)

Spec == Init /\ [][Next]_vars

\* Promises are continued and timers fire; nothing is assumed of the relay,
\* of its connection or of the callers.
FairSpec == Spec /\ WF_vars(BrokerStep) /\ WF_vars(GatewayStep)

-----------------------------------------------------------------------------
(* Properties                                                              *)

Quiet == queue = <<>> /\ cur = None /\ closing = "open"

\* The gateway holds a permission only for a mapping the broker keeps, with
\* its host port (forward, unforward, adoptControl, failInitial); the end of
\* the broker comes before that of the gateway (close).
PermissionIsManaged ==
    \A c \in Ports :
        table[c] # None /\ closing \in {"open", "closing"} =>
            /\ managed[Remote(c)] # None
            /\ managed[Remote(c)].host = table[c].host

\* Every listener of the relay, open or asked for, is one the gateway still
\* knows by its token, so that it can be closed: a timeout, a failed add or
\* an unanswered removal forgets none (retire, unforward, forward).
ListenerIsKnown ==
    \A c \in Ports :
        \A t \in {m.token : m \in {x \in Range(toRelay) : x.port = c /\ x.kind = "forward"}}
                \cup (IF fwd[c] = None THEN {} ELSE {fwd[c].token}) :
            t \in retired[c] \/ (table[c] # None /\ table[c].token = t)

\* When no mutation is left, the state shown for a remote forward is the one
\* its listener has (onForwardState, establish, drop, adoptControl).
StateIsLatest ==
    Quiet => \A c \in Ports : managed[Remote(c)] # None =>
        CASE table[c] = None -> managed[Remote(c)].state = "pending"
          [] table[c] # None /\ table[c].active -> managed[Remote(c)].state = "active"
          [] table[c] # None /\ table[c].establishing -> managed[Remote(c)].state = "pending"
          [] OTHER -> managed[Remote(c)].state \in {"unavailable", "failed"}

\* A forward is never shown as lost for what happened to an earlier forward
\* of the same port: an event queued before remove and add is dropped
\* (onForwardState, generations).
TroubleIsItsOwn ==
    \A c \in Ports : managed[Remote(c)] # None =>
        (managed[Remote(c)].state \in {"unavailable", "failed"} => troubled[c])

\* The mappings never lead from a port back to itself: no set of ports has
\* each of its members forwarded to another member (createsForwardCycle).
NoForwardLoop ==
    LET edge == {<<Source(k, managed[k].host), Target(k, managed[k].host)>> :
                 k \in DOMAIN Entries}
        nodes == {e[1] : e \in edge}
    IN  \A S \in (SUBSET nodes) \ {{}} : \E n \in S : \A m \in S : <<n, m>> \notin edge

\* When no mutation is left, the registry lists the mappings: one failed
\* write is made good or its change taken back, so that it takes two in a row
\* to leave it behind (persistRevocation, the catch of add).
RegistryIsCurrent ==
    Quiet /\ initial = "ready" /\ registry # managed => unsaved > 1

\* What the mappings promise about the host's ports.
Wanted ==
    [c \in Ports |->
        IF managed[Remote(c)] # None THEN managed[Remote(c)].host
        ELSE IF closing = "closed" /\ table[c] # None THEN table[c].host
        ELSE None]

Permissions == INSTANCE PortPermissions WITH wanted <- Wanted, NoPort <- None

\* The broker, its gateway and the relay keep that promise: a stream follows
\* a mapping that stands, and a removal, a rollback or the failure of the
\* initial forwards cuts the streams of its mappings in the step that takes
\* them back (PortPermissions).
KeepsPermissions == Permissions!Spec

\* The mutation queue never gets stuck behind a relay that does not answer
\* (send, mutate).
MutationsEnd == []<>(cur = None)

\* While a relay is connected the initial forwards are settled, whatever it
\* answers (onForwardState, completeInitial, failInitial).
InitialIsSettled == (initial = "pending" /\ conn) ~> (initial # "pending" \/ ~conn)
=============================================================================
