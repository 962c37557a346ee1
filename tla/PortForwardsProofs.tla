------------------------- MODULE PortForwardsProofs -------------------------
(***************************************************************************)
(* Theorems about PortForwards, for any ports, initial forwards and bounds:*)
(* the types, PermissionIsManaged, and that the broker, the gateway and    *)
(* the relay together keep the promise of PortPermissions.                 *)
(***************************************************************************)
EXTENDS PortForwards, FiniteSetTheorems, SequenceTheorems, TLAPS

(* What is on the queue and on the wire. *)

StateEvent == [type : {"state"}, port : Ports, gen : Nat, state : ForwardState]

AddEvent == {e \in [type : {"add"}, key : Keys, host : HostPorts \cup {AnyPort}] :
                e.host = AnyPort => e.key[1] = "local"}

Event ==
    StateEvent \cup AddEvent \cup [type : {"remove"}, key : Keys]
    \cup [type : {"unbind"}, host : HostPorts] \cup [type : {"connected"}]

PrepareEvent == [type : {"prepare"}, entries : InitialForwards]

Request == [port : Ports, id : Nat, kind : {"forward", "unforward"}, token : Nat]

\* The types, with what TypeOK leaves open: the lines, the finite sets, the counters.
Types ==
    /\ TypeOK
    /\ queue \in Seq(Event \cup PrepareEvent)
    /\ toRelay \in Seq(Request \cup {Exit})
    /\ IsFiniteSet(waiting) /\ IsFiniteSet(answers) /\ IsFiniteSet(limbo)
    /\ \A c \in Ports : IsFiniteSet(retired[c])
    /\ persistFails \in Nat /\ unsaved <= persistFails

\* The mutation that runs has its mapping, and its entry in the gateway's table.
CurFits ==
    cur # None =>
      /\ cur.step \in {"listen", "persistAdd", "persistOwner", "ensure", "ack"} =>
           cur.key \in Keys /\ managed[cur.key] # None
      /\ cur.step \in {"pick", "listen"} => cur.key \in Keys /\ cur.key[1] = "local"
      /\ cur.step \in {"ensure", "ack"} => cur.key[1] = "remote" /\ table[cur.key[2]] # None

\* A request that somebody awaits is awaited by the mutation that runs.
WaitFits ==
    /\ \A w \in waiting :
         /\ w.by = "add" => w.kind = "forward" /\ cur = [step |-> "ack", key |-> Remote(w.port)]
         /\ w.by = "adopt" => w.kind = "forward"
         /\ w.by = "broker" =>
              /\ w.kind = "unforward"
              /\ cur \in [step : {"rollback", "unforward", "unforwardAll"}, key : {None}]
    /\ \A v, w \in waiting : v.by = "add" /\ w.by = "add" => v = w

\* Once the broker is closed nothing is left of it.
ClosedFits ==
    closing \in {"closed", "shut"} =>
      /\ queue = <<>> /\ cur = None
      /\ \A k \in Keys : managed[k] = None
      /\ \A c \in Ports : gens[c] = None
      /\ closing = "shut" => ~conn

\* The session starts: the initial forwards are queued.
Fresh ==
    /\ \E f \in InitialForwards : queue = <<[type |-> "prepare", entries |-> f]>>
    /\ cur = None /\ initial = "pending" /\ ~conn
    /\ \A k \in Keys : managed[k] = None
    /\ \A c \in Ports : gens[c] = None /\ table[c] = None /\ fwd[c] = None
    /\ waiting = {} /\ streams = {} /\ answers = {} /\ limbo = {} /\ toRelay = <<>>

\* They come first: until they are taken up, nothing else has happened.
PrepareFits == queue \in Seq(Event) \/ Fresh

\* A stream goes where its port's entry in the table says, and ends with the relay.
StreamsFit ==
    \A s \in streams : conn /\ table[s.port] # None /\ table[s.port].host = s.host

-----------------------------------------------------------------------------
(* Sequences and finite sets. *)

\* The elements of a finite set, in some order.
LEMMA SetToSeqType ==
    ASSUME NEW S, IsFiniteSet(S)
    PROVE  /\ SetToSeq(S) \in Seq(S)
           /\ S = {} => SetToSeq(S) = <<>>
<1>1. Cardinality(S) \in Nat
  BY FS_CardinalityType
<1>2. \E f \in [1..Cardinality(S) -> S] : IsInjective(f)
  <2>1. ExistsBijection(1..Cardinality(S), S)
    BY FS_CardinalityType
  <2> QED
    BY <2>1 DEF ExistsBijection, Bijection, Injection, IsInjective
<1>3. SetToSeq(S) \in Seq(S)
  BY <1>1, <1>2 DEF SetToSeq
<1>4. ASSUME S = {} PROVE SetToSeq(S) = <<>>
  BY <1>3, <1>4, EmptySeq, ElementOfSeq
<1> QED
  BY <1>3, <1>4

\* The values of a function on a finite set are finitely many.
LEMMA FiniteImage ==
    ASSUME NEW S, IsFiniteSet(S), NEW f, S = DOMAIN f, f = [x \in S |-> f[x]]
    PROVE  IsFiniteSet({f[x] : x \in S})
<1> DEFINE T == {f[x] : x \in S}
<1>1. f \in Surjection(S, T)
  BY DEF Surjection
<1> HIDE DEF T
<1>2. IsFiniteSet(T)
  BY <1>1, FS_Surjection
<1> QED
  BY <1>2 DEF T

\* The elements of a sequence are finitely many.
LEMMA FiniteRange ==
    ASSUME NEW S, NEW q \in Seq(S)
    PROVE  IsFiniteSet(Range(q)) /\ Range(q) \subseteq S
<1>1. Len(q) \in Nat /\ DOMAIN q = 1..Len(q) /\ q = [i \in 1..Len(q) |-> q[i]]
  BY LenProperties
<1>2. IsFiniteSet(1..Len(q))
  <2>1. Len(q) \in Int /\ 1 \in Int
    BY <1>1
  <2> QED
    BY <2>1, FS_Interval
<1>3. IsFiniteSet({q[i] : i \in 1..Len(q)})
  BY <1>1, <1>2, FiniteImage
<1> QED
  BY <1>1, <1>3, ElementOfSeq DEF Range

\* A name that is not used exists, and is a natural number.
LEMMA UnusedType ==
    ASSUME NEW S, IsFiniteSet(S)
    PROVE  Unused(S) \in Nat /\ Unused(S) # 0 /\ Unused(S) \notin S
<1> DEFINE n == Cardinality(S)
           I == 1..(n + 1)
<1>1. n \in Nat
  BY FS_CardinalityType
<1>2. IsFiniteSet(I) /\ Cardinality(I) = n + 1
  BY <1>1, FS_Interval
<1>3. ~(I \subseteq S)
  <2> SUFFICES ASSUME I \subseteq S PROVE FALSE
    OBVIOUS
  <2> HIDE DEF I
  <2>1. Cardinality(I) <= Cardinality(S)
    BY FS_Subset
  <2> QED
    BY <1>1, <1>2, <2>1
<1>4. \E m \in I : m \notin S
  BY <1>3
<1>5. Unused(S) \in I /\ Unused(S) \notin S
  BY <1>4 DEF Unused
<1> QED
  BY <1>1, <1>5

\* The ids and the tokens of a port that are in use.
UsedIds(c) ==
    {w.id : w \in OfPort(waiting, c)} \cup {a.id : a \in OfPort(answers, c)}
    \cup {m.id : m \in OfPort(Range(toRelay), c)}
    \cup {x.id : x \in OfPort(limbo, c)} \cup {x.removal : x \in OfPort(limbo, c)}
    \cup (IF fwd[c] = None THEN {} ELSE {fwd[c].id})

UsedTokens(c) ==
    retired[c] \cup {w.token : w \in OfPort(waiting, c)}
    \cup {m.token : m \in OfPort(Range(toRelay), c)}
    \cup (IF table[c] = None THEN {} ELSE {table[c].token})
    \cup (IF fwd[c] = None THEN {} ELSE {fwd[c].token})

\* The names of requests and of permissions are not in use.
LEMMA NamesFree ==
    ASSUME Types, NEW c \in Ports
    PROVE  /\ NewId(c) \in Nat /\ NewId(c) # 0 /\ NewId(c) \notin UsedIds(c)
           /\ NewToken(c) \in Nat /\ NewToken(c) \notin UsedTokens(c)
<1>0. /\ IsFiniteSet(waiting) /\ IsFiniteSet(answers) /\ IsFiniteSet(limbo)
      /\ IsFiniteSet(retired[c])
  BY DEF Types
<1>1. IsFiniteSet(Range(toRelay))
  BY FiniteRange DEF Types
<1>2. ASSUME NEW S, IsFiniteSet(S)
      PROVE  /\ IsFiniteSet(OfPort(S, c))
             /\ IsFiniteSet({x.id : x \in OfPort(S, c)})
             /\ IsFiniteSet({x.token : x \in OfPort(S, c)})
             /\ IsFiniteSet({x.removal : x \in OfPort(S, c)})
  <2>1. IsFiniteSet(OfPort(S, c))
    BY <1>2, FS_Subset DEF OfPort
  <2> DEFINE T == OfPort(S, c)
             id == [x \in T |-> x.id]
             token == [x \in T |-> x.token]
             removal == [x \in T |-> x.removal]
  <2> HIDE DEF T
  <2>2. IsFiniteSet({id[x] : x \in T}) /\ IsFiniteSet({token[x] : x \in T})
        /\ IsFiniteSet({removal[x] : x \in T})
    BY <2>1, FiniteImage DEF T
  <2>3. {id[x] : x \in T} = {x.id : x \in T} /\ {token[x] : x \in T} = {x.token : x \in T}
        /\ {removal[x] : x \in T} = {x.removal : x \in T}
    OBVIOUS
  <2> QED
    BY <2>1, <2>2, <2>3 DEF T
<1>3. /\ IsFiniteSet(IF fwd[c] = None THEN {} ELSE {fwd[c].id})
      /\ IsFiniteSet(IF fwd[c] = None THEN {} ELSE {fwd[c].token})
      /\ IsFiniteSet(IF table[c] = None THEN {} ELSE {table[c].token})
  BY FS_EmptySet, FS_Singleton
<1>4. NewId(c) \in Nat /\ NewId(c) # 0 /\ NewId(c) \notin UsedIds(c)
  <2>1. IsFiniteSet(UsedIds(c))
    BY <1>0, <1>1, <1>2, <1>3, FS_Union DEF UsedIds
  <2>2. NewId(c) = Unused(UsedIds(c))
    BY DEF NewId, UsedIds
  <2> QED
    BY <2>1, <2>2, UnusedType
<1>5. NewToken(c) \in Nat /\ NewToken(c) \notin UsedTokens(c)
  <2>1. IsFiniteSet(UsedTokens(c))
    BY <1>0, <1>1, <1>2, <1>3, FS_Union DEF UsedTokens
  <2>2. NewToken(c) = Unused(UsedTokens(c))
    BY DEF NewToken, UsedTokens
  <2> QED
    BY <2>1, <2>2, UnusedType
<1> QED
  BY <1>4, <1>5

\* All names are natural numbers, those of mappings too.
LEMMA NameTypes ==
    ASSUME Types, NEW c \in Ports
    PROVE  NewId(c) \in Nat /\ NewToken(c) \in Nat /\ NewGeneration(c) \in Nat
<1>1. NewGeneration(c) \in Nat
  <2> DEFINE D == {j \in DOMAIN queue : queue[j].type = "state" /\ queue[j].port = c}
             gen == [i \in D |-> queue[i].gen]
  <2>1. DOMAIN queue = 1..Len(queue) /\ Len(queue) \in Nat
    BY LenProperties DEF Types
  <2>2. IsFiniteSet(DOMAIN queue)
    BY <2>1, FS_Interval
  <2>3. IsFiniteSet(D)
    BY <2>2, FS_Subset
  <2> HIDE DEF D
  <2>4. IsFiniteSet({gen[i] : i \in D})
    BY <2>3, FiniteImage
  <2>5. {gen[i] : i \in D} = {queue[i].gen : i \in D}
    OBVIOUS
  <2>6. IsFiniteSet({queue[i].gen : i \in D})
    BY <2>4, <2>5
  <2> QED
    BY <2>6, UnusedType DEF NewGeneration, D
<1> QED
  BY <1>1, NamesFree

-----------------------------------------------------------------------------
(* What the broker's and the gateway's helpers do. *)

\* A report is a sequence of state events about forwards that are there; nothing is
\* reported to a broker that is closing.
LEMMA ReportType ==
    ASSUME Types, NEW C \in SUBSET Ports, NEW state \in ForwardState
    PROVE  /\ Report(C, state) \in Seq(StateEvent)
           /\ (closing # "open" \/ \A c \in Ports : gens[c] = None) => Report(C, state) = <<>>
<1> DEFINE told == {c \in C : gens[c] # None /\ closing = "open"}
           event == [c \in told |->
                       [type |-> "state", port |-> c, gen |-> gens[c], state |-> state]]
           S == {[type |-> "state", port |-> c, gen |-> gens[c], state |-> state] : c \in told}
<1>1. IsFiniteSet(told)
  BY PortForwardsAssumption, FS_Subset
<1>2. IsFiniteSet({event[c] : c \in told})
  <2> HIDE DEF told
  <2> QED
    BY <1>1, FiniteImage
<1>3. {event[c] : c \in told} = S
  OBVIOUS
<1>4. IsFiniteSet(S)
  BY <1>2, <1>3
<1>5. S \subseteq StateEvent
  BY DEF Types, TypeOK, StateEvent
<1>6. (closing # "open" \/ \A c \in Ports : gens[c] = None) => S = {}
  OBVIOUS
<1>7. Report(C, state) = SetToSeq(S)
  BY DEF Report
<1> HIDE DEF S
<1> QED
  BY <1>4, <1>5, <1>6, <1>7, SetToSeqType, SeqMonotonic

Waiter == [port : Ports, id : Nat, kind : {"forward", "unforward"}, token : Nat,
           by : {"add", "adopt", "broker"}]

\* What Send leaves: typed lines, and requests of this kind beside the others.
Sent(kind, by, C, others) ==
    /\ toRelay' \in Seq(Request \cup {Exit})
    /\ waiting' \subseteq Waiter /\ IsFiniteSet(waiting') /\ others \subseteq waiting'
    /\ C = {} => waiting' = others
    /\ \A w \in waiting' \ others : w.kind = kind /\ w.by = by /\ w.port \in C
    /\ (\E c \in Ports : C = {c}) => \A v, w \in waiting' \ others : v = w

\* Requests are put on the wire, and are awaited beside the others.
LEMMA SendFacts ==
    ASSUME Types, NEW kind \in {"forward", "unforward"}, NEW by \in {"add", "adopt", "broker"},
           NEW C \in SUBSET Ports, NEW T \in [C -> Nat],
           NEW others \in SUBSET waiting, Send(kind, by, T, others)
    PROVE  Sent(kind, by, C, others)
<1> DEFINE ask == [c \in C |-> [port |-> c, id |-> NewId(c), kind |-> kind, token |-> T[c]]]
           asks == {[port |-> c, id |-> NewId(c), kind |-> kind, token |-> T[c]] : c \in C}
           wait == [a \in asks |-> [port |-> a.port, id |-> a.id, kind |-> kind,
                                    token |-> a.token, by |-> by]]
           new == {[port |-> a.port, id |-> a.id, kind |-> kind, token |-> a.token,
                    by |-> by] : a \in asks}
<1>0. DOMAIN T = C
  OBVIOUS
<1>1. toRelay' = toRelay \o SetToSeq(asks) /\ waiting' = others \cup new
  BY <1>0 DEF Send
<1>2. IsFiniteSet(C)
  BY PortForwardsAssumption, FS_Subset
<1>3. IsFiniteSet(asks)
  <2>1. ask \in Surjection(C, asks)
    BY DEF Surjection
  <2> HIDE DEF ask, asks
  <2> QED
    BY <1>2, <2>1, FS_Surjection
<1>4. asks \subseteq Request
  BY NameTypes DEF Request
<1>5. IsFiniteSet(new)
  <2> HIDE DEF asks
  <2>1. IsFiniteSet({wait[a] : a \in asks})
    BY <1>3, FiniteImage
  <2>2. {wait[a] : a \in asks} = new
    OBVIOUS
  <2> QED
    BY <2>1, <2>2
<1>6. new \subseteq Waiter
  <2> HIDE DEF asks
  <2> QED
    BY <1>4 DEF Request, Waiter
<1>7. \A w \in new : w.kind = kind /\ w.by = by /\ w.port \in C
  OBVIOUS
<1>8. C = {} => new = {}
  OBVIOUS
<1>9. (\E c \in Ports : C = {c}) => \A v, w \in new : v = w
  OBVIOUS
<1>10. toRelay' \in Seq(Request \cup {Exit})
  <2> HIDE DEF asks
  <2>1. SetToSeq(asks) \in Seq(Request \cup {Exit})
    BY <1>3, <1>4, SetToSeqType, SeqMonotonic
  <2> QED
    BY <1>1, <2>1, ConcatProperties DEF Types
<1> HIDE DEF new
<1>11. waiting \subseteq Waiter /\ IsFiniteSet(others)
  BY FS_Subset DEF Types, TypeOK, Waiter
<1> QED
  BY <1>1, <1>5, <1>6, <1>7, <1>8, <1>9, <1>10, <1>11, FS_Union DEF Sent

\* A permission that ends is kept among the retired ones until the relay confirms.
LEMMA RetiredType ==
    ASSUME Types, NEW C \in SUBSET Ports
    PROVE  /\ Retired(C) \in [Ports -> SUBSET Nat]
           /\ \A c \in Ports : IsFiniteSet(Retired(C)[c])
<1>1. \A c \in Ports : table[c] # None => table[c].token \in Nat
  BY DEF Types, TypeOK, Resource
<1>2. Retired(C) \in [Ports -> SUBSET Nat]
  BY <1>1 DEF Types, TypeOK, Retired
<1>3. \A c \in Ports : IsFiniteSet(Retired(C)[c])
  BY FS_AddElement DEF Types, Retired
<1> QED
  BY <1>2, <1>3

\* Where the mutation goes when permissions end: it waits for the relay, or goes on.
Stopping == {"rollback", "unforward", "unforwardAll"}

\* What Unforward leaves.
Unforwarded(C, step, others) ==
    /\ retired' \in [Ports -> SUBSET Nat] /\ \A c \in Ports : IsFiniteSet(retired'[c])
    /\ table' = [c \in Ports |-> IF c \in C THEN None ELSE table[c]]
    /\ streams' = {s \in streams : s.port \notin C}
    /\ toRelay' \in Seq(Request \cup {Exit})
    /\ waiting' \subseteq Waiter /\ IsFiniteSet(waiting')
    /\ \A w \in waiting' \ others : w.kind = "unforward" /\ w.by = "broker"
    /\ \/ cur' = [step |-> step, key |-> None]
       \/ waiting' = others /\ cur' = AfterUnforward(step)
    /\ UNCHANGED <<conn, fwd, limbo>>

\* The permissions of C end at once, with their streams; the rest is asked of the relay.
LEMMA UnforwardFacts ==
    ASSUME Types, NEW C \in SUBSET Ports, NEW step \in Stopping,
           NEW others \in SUBSET waiting, Unforward(C, step, others)
    PROVE  Unforwarded(C, step, others)
<1> DEFINE asked == {c \in C : conn /\ Retired(C)[c] # {}}
           T == [c \in asked |-> CHOOSE t \in Retired(C)[c] : TRUE]
<1>1. /\ retired' = Retired(C)
      /\ table' = [c \in Ports |-> IF c \in C THEN None ELSE table[c]]
      /\ streams' = {s \in streams : s.port \notin C}
      /\ Send("unforward", "broker", T, others)
      /\ cur' = IF asked = {} THEN AfterUnforward(step) ELSE [step |-> step, key |-> None]
      /\ UNCHANGED <<conn, fwd, limbo>>
  BY DEF Unforward
<1>2. T \in [asked -> Nat]
  <2>1. \A c \in asked : Retired(C)[c] \subseteq Nat /\ Retired(C)[c] # {}
    BY RetiredType
  <2> QED
    BY <2>1
<1>3. asked \in SUBSET Ports
  OBVIOUS
<1> HIDE DEF T, asked
<1>4. /\ toRelay' \in Seq(Request \cup {Exit})
      /\ waiting' \subseteq Waiter /\ IsFiniteSet(waiting')
      /\ asked = {} => waiting' = others
      /\ \A w \in waiting' \ others : w.kind = "unforward" /\ w.by = "broker"
  <2>0. (\E D : D = asked) /\ (\E F : F = T)
    OBVIOUS
  <2>1. PICK D, F : D = asked /\ F = T
    BY <2>0
  <2>3. D \in SUBSET Ports /\ F \in [D -> Nat]
    BY <1>2, <1>3, <2>1
  <2>2. Send("unforward", "broker", F, others)
    BY <1>1, <2>1 DEF Send
  <2>4. /\ toRelay' \in Seq(Request \cup {Exit})
        /\ waiting' \subseteq Waiter /\ IsFiniteSet(waiting')
        /\ D = {} => waiting' = others
        /\ \A w \in waiting' \ others : w.kind = "unforward" /\ w.by = "broker" /\ w.port \in D
    <3>1. PICK k, b : k = "unforward" /\ b = "broker"
      OBVIOUS
    <3>2. k \in {"forward", "unforward"} /\ b \in {"add", "adopt", "broker"}
      BY <3>1
    <3>3. Send(k, b, F, others)
      BY <3>1, <2>2
    <3>5. Types /\ D \in SUBSET Ports
      BY <2>3
    <3>6. F \in [D -> Nat]
      BY <2>3
    <3>4. Sent(k, b, D, others)
      BY <3>2, <3>3, <3>5, <3>6, SendFacts
    <3> QED
      BY <3>1, <3>4 DEF Sent
  <2> QED
    BY <2>1, <2>4
<1> QED
  BY <1>1, <1>4, RetiredType DEF Unforwarded

\* The mutation that goes on after the last answer has a step to go to, or is done.
LEMMA AfterUnforwardType ==
    ASSUME NEW step \in Stopping
    PROVE  /\ AfterUnforward(step) \in Mutation \cup {None}
           /\ AfterUnforward(step) # None =>
                AfterUnforward(step).step \in {"persistRev", "persistFail"}
BY DEF AfterUnforward, Stopping, Mutation, Steps

\* What Insert leaves.
Inserted(k, host) ==
    /\ managed' \in [Keys -> Entry \cup {None}] /\ gens' \in [Ports -> Nat \cup {None}]
    /\ troubled' \in [Ports -> BOOLEAN]
    /\ managed'[k] # None /\ managed'[k].host = host
    /\ \A e \in Keys \ {k} : managed'[e] = managed[e]

\* A new mapping has an owner, a state and -- remote ones -- a generation.
LEMMA InsertFacts ==
    ASSUME Types, NEW k \in Keys, NEW host \in HostPorts, NEW state \in ForwardState,
           Insert(k, host, state)
    PROVE  Inserted(k, host)
<1>1. [host |-> host, owners |-> {"dynamic"}, state |-> state] \in Entry
  BY DEF Entry, Owners
<1>2. k[2] \in Ports /\ NewGeneration(k[2]) \in Nat
  BY NameTypes DEF Keys
<1>3. gens' \in [Ports -> Nat \cup {None}] /\ troubled' \in [Ports -> BOOLEAN]
  BY <1>2 DEF Insert, Types, TypeOK
<1>4. managed' = [managed EXCEPT ![k] = [host |-> host, owners |-> {"dynamic"}, state |-> state]]
  BY DEF Insert
<1>5. managed'[k] # None
  BY <1>1, <1>4, PortForwardsAssumption DEF Types, TypeOK
<1> QED
  BY <1>1, <1>3, <1>4, <1>5 DEF Types, TypeOK, Inserted

\* What Delete leaves.
Deleted(K) ==
    /\ managed' \in [Keys -> Entry \cup {None}] /\ gens' \in [Ports -> Nat \cup {None}]
    /\ troubled' \in [Ports -> BOOLEAN]
    /\ managed' = [k \in Keys |-> IF k \in K THEN None ELSE managed[k]]

\* Mappings are deleted with their generations.
LEMMA DeleteFacts ==
    ASSUME Types, NEW K \in SUBSET Keys, Delete(K)
    PROVE  Deleted(K)
BY DEF Delete, Types, TypeOK, Deleted

\* The host port the broker maps a port to, and the one the gateway lets it reach.
Mapped(c) == IF managed[Remote(c)] = None THEN None ELSE managed[Remote(c)].host
Granted(c) == IF table[c] = None THEN None ELSE table[c].host

\* A step that takes the mappings of C back, with their permissions and streams, and
\* changes no other.
Revokes(C) ==
    /\ \A c \in C : Mapped(c)' = None /\ Granted(c)' = None
    /\ \A c \in Ports \ C : Mapped(c)' = Mapped(c) /\ Granted(c)' = Granted(c)
    /\ streams' \subseteq {s \in streams : s.port \notin C}
    /\ conn' = conn \/ streams' = {}
    /\ closing' = closing

\* Mappings that are deleted while their permissions end are such a step.
LEMMA RevokeEffect ==
    ASSUME NEW K \in SUBSET Keys, NEW C \in SUBSET Ports, NEW step, NEW others,
           Deleted(K), Unforwarded(C, step, others), closing' = closing,
           \A c \in C : Remote(c) \in K,
           \A c \in Ports : Remote(c) \in K /\ managed[Remote(c)] # None => c \in C
    PROVE  Revokes(C)
<1>1. \A c \in Ports : Remote(c) \in Keys
  BY DEF Remote, Keys, Directions
<1>2. \A c \in C : Mapped(c)' = None /\ Granted(c)' = None
  BY <1>1 DEF Deleted, Unforwarded, Mapped, Granted
<1>3. \A c \in Ports \ C : Mapped(c)' = Mapped(c) /\ Granted(c)' = Granted(c)
  BY <1>1 DEF Deleted, Unforwarded, Mapped, Granted
<1> QED
  BY <1>2, <1>3 DEF Revokes, Unforwarded

\* So is a step that leaves the mappings and the permissions where they are.
LEMMA KeepEffect ==
    ASSUME \A c \in Ports : Mapped(c)' = Mapped(c) /\ Granted(c)' = Granted(c),
           streams' \subseteq streams, conn' = conn, closing' = closing
    PROVE  \E C \in SUBSET Ports : Revokes(C)
<1>1. Revokes({})
  BY DEF Revokes
<1> QED
  BY <1>1

-----------------------------------------------------------------------------
(* The types, by the part that keeps the state. *)

BrokerTypes ==
    /\ initial \in {"pending", "ready", "failed"}
    /\ managed \in [Keys -> Entry \cup {None}]
    /\ gens \in [Ports -> Nat \cup {None}]
    /\ openLocal \subseteq Ports
    /\ queue \in Seq(Event \cup PrepareEvent)
    /\ cur \in Mutation \cup {None}
    /\ closing \in {"open", "closing", "closed", "shut"}
    /\ registry \in [Keys -> Entry \cup {None}]
    /\ unsaved \in 0..MaxPersistFails
    /\ persistFails \in Nat /\ unsaved <= persistFails
    /\ troubled \in [Ports -> BOOLEAN]

GatewayTypes ==
    /\ table \in [Ports -> Resource \cup {None}]
    /\ retired \in [Ports -> SUBSET Nat]
    /\ \A c \in Ports : IsFiniteSet(retired[c])
    /\ waiting \subseteq Waiter /\ IsFiniteSet(waiting)
    /\ streams \subseteq [port : Ports, host : HostPorts]

RelayTypes ==
    /\ conn \in BOOLEAN
    /\ toRelay \in Seq(Request \cup {Exit})
    /\ answers \subseteq [port : Ports, id : Nat, ok : BOOLEAN] /\ IsFiniteSet(answers)
    /\ fwd \in [Ports -> Listener \cup {None}]
    /\ limbo \subseteq [port : Ports, id : Nat, removal : Nat] /\ IsFiniteSet(limbo)

\* A queue of events has the types that TypeOK asks for.
LEMMA EventTypes ==
    ASSUME NEW q \in Seq(Event \cup PrepareEvent)
    PROVE  \A i \in DOMAIN q :
             q[i].type \in {"add", "remove", "unbind", "state", "connected", "prepare"}
<1>1. \A e \in Event \cup PrepareEvent :
        e.type \in {"add", "remove", "unbind", "state", "connected", "prepare"}
  BY DEF Event, PrepareEvent, StateEvent, AddEvent
<1>2. \A i \in DOMAIN q : q[i] \in Event \cup PrepareEvent
  BY ElementOfSeq, LenProperties
<1> QED
  BY <1>1, <1>2

\* The three parts together are the types.
LEMMA TypesParts ==
    /\ Types <=> BrokerTypes /\ GatewayTypes /\ RelayTypes
    /\ Types' <=> BrokerTypes' /\ GatewayTypes' /\ RelayTypes'
<1>1. ASSUME Types PROVE BrokerTypes /\ GatewayTypes /\ RelayTypes
  BY <1>1 DEF Types, TypeOK, BrokerTypes, GatewayTypes, RelayTypes, Waiter
<1>2. ASSUME BrokerTypes, GatewayTypes, RelayTypes PROVE Types
  <2>1. \A i \in DOMAIN queue :
          queue[i].type \in {"add", "remove", "unbind", "state", "connected", "prepare"}
    BY <1>2, EventTypes DEF BrokerTypes
  <2> QED
    BY <1>2, <2>1 DEF Types, TypeOK, BrokerTypes, GatewayTypes, RelayTypes, Waiter
<1>3. ASSUME Types' PROVE BrokerTypes' /\ GatewayTypes' /\ RelayTypes'
  BY <1>3 DEF Types, TypeOK, BrokerTypes, GatewayTypes, RelayTypes, Waiter
<1>4. ASSUME BrokerTypes', GatewayTypes', RelayTypes' PROVE Types'
  <2>0. PICK q : q = queue'
    OBVIOUS
  <2>1. \A i \in DOMAIN q :
          q[i].type \in {"add", "remove", "unbind", "state", "connected", "prepare"}
    BY <1>4, <2>0, EventTypes DEF BrokerTypes
  <2> QED
    BY <1>4, <2>0, <2>1 DEF Types, TypeOK, BrokerTypes, GatewayTypes, RelayTypes, Waiter
<1> QED
  BY <1>1, <1>2, <1>3, <1>4

\* A queue without initial forwards stays one when its head is taken, an event is
\* appended or reports are.
LEMMA QueueFacts ==
    ASSUME NEW q \in Seq(Event)
    PROVE  /\ q \in Seq(Event \cup PrepareEvent)
           /\ q # <<>> => Head(q) \in Event /\ Tail(q) \in Seq(Event)
           /\ \A e \in Event : Append(q, e) \in Seq(Event)
           /\ \A r \in Seq(StateEvent) : q \o r \in Seq(Event)
<1>1. StateEvent \subseteq Event /\ Event \subseteq Event \cup PrepareEvent
  BY DEF Event
<1>2. q \in Seq(Event \cup PrepareEvent)
  BY <1>1, SeqMonotonic
<1>3. q # <<>> => Head(q) \in Event /\ Tail(q) \in Seq(Event)
  BY HeadTailProperties
<1>4. \A e \in Event : Append(q, e) \in Seq(Event)
  BY AppendProperties
<1>5. \A r \in Seq(StateEvent) : q \o r \in Seq(Event)
  BY <1>1, SeqMonotonic, ConcatProperties
<1> QED
  BY <1>2, <1>3, <1>4, <1>5

\* A write of the registry, made or failed.
LEMMA SaveTypes ==
    ASSUME BrokerTypes, Saved \/ NotSaved
    PROVE  /\ registry' \in [Keys -> Entry \cup {None}]
           /\ unsaved' \in 0..MaxPersistFails
           /\ persistFails' \in Nat /\ unsaved' <= persistFails'
BY PortForwardsAssumption DEF BrokerTypes, Saved, NotSaved

-----------------------------------------------------------------------------
(* Every step keeps the types, and what the running mutation, the requests and *)
(* the closed broker rest on.                                                  *)

Core ==
    /\ BrokerTypes /\ GatewayTypes /\ RelayTypes
    /\ CurFits /\ WaitFits /\ ClosedFits

Base == Core /\ queue \in Seq(Event)

\* A mutation that runs is none that is missing.
LEMMA MutationFacts ==
    /\ \A s \in Steps, k \in Keys \cup {None} :
         [step |-> s, key |-> k] \in Mutation /\ [step |-> s, key |-> k] # None
    /\ \A c \in Ports : Remote(c) \in Keys /\ Remote(c)[1] = "remote" /\ Remote(c)[2] = c
    /\ \A k \in Keys : k[2] \in Ports /\ (k[1] # "local" => k[1] = "remote" /\ k = Remote(k[2]))
<1>1. \A s \in Steps, k \in Keys \cup {None} : [step |-> s, key |-> k] \in Mutation
  BY DEF Mutation
<1>2. None \notin Mutation
  BY PortForwardsAssumption
<1>3. \A c \in Ports : Remote(c) \in Keys /\ Remote(c)[1] = "remote" /\ Remote(c)[2] = c
  BY DEF Remote, Keys, Directions
<1>4. \A k \in Keys : k[2] \in Ports /\ (k[1] # "local" => k[1] = "remote" /\ k = Remote(k[2]))
  BY DEF Remote, Keys, Directions
<1> QED
  BY <1>1, <1>2, <1>3, <1>4

\* When the queue moves on, the broker is not closed and nobody but adoptControl waits.
LEMMA StartFacts ==
    ASSUME Base, NEW type, Start(type)
    PROVE  /\ Head(queue) \in Event /\ Head(queue).type = type
           /\ queue' \in Seq(Event) /\ queue' \in Seq(Event \cup PrepareEvent)
           /\ closing \in {"open", "closing"}
           /\ \A w \in waiting : w.by = "adopt" /\ w.kind = "forward"
<1>1. queue \in Seq(Event) /\ queue # <<>> /\ queue' = Tail(queue) /\ Head(queue).type = type
  BY DEF Base, Core, Start
<1>2. Head(queue) \in Event /\ Tail(queue) \in Seq(Event)
  BY <1>1, QueueFacts
<1>3. Tail(queue) \in Seq(Event \cup PrepareEvent)
  BY <1>2, QueueFacts
<1>4. closing \in {"open", "closing"}
  BY <1>1 DEF Base, Core, ClosedFits, BrokerTypes
<1>5. \A w \in waiting : w.by \in {"add", "adopt", "broker"} /\ w.by # "add" /\ w.by # "broker"
  <2>1. ASSUME NEW w \in waiting PROVE w.by \in {"add", "adopt", "broker"} /\ w.port \in Ports
    BY DEF Base, Core, Waiter, GatewayTypes
  <2>2. ASSUME NEW w \in waiting, w.by = "add" PROVE FALSE
    <3>1. cur = [step |-> "ack", key |-> Remote(w.port)]
      BY <2>2 DEF Base, Core, WaitFits
    <3> QED
      BY <2>1, <3>1, MutationFacts DEF Start, Steps
  <2>3. ASSUME NEW w \in waiting, w.by = "broker" PROVE FALSE
    <3>1. cur \in [step : {"rollback", "unforward", "unforwardAll"}, key : {None}]
      BY <2>3 DEF Base, Core, WaitFits
    <3>2. cur \in Mutation
      BY <3>1 DEF Mutation, Steps
    <3> QED
      BY <3>2, PortForwardsAssumption DEF Start
  <2> QED
    BY <2>1, <2>2, <2>3
<1>6. \A w \in waiting : w.by = "adopt" => w.kind = "forward"
  BY DEF Base, Core, WaitFits
<1> QED
  BY <1>1, <1>2, <1>3, <1>4, <1>5, <1>6

\* So it is while a mutation runs.
LEMMA RunFacts ==
    ASSUME Core, cur # None
    PROVE  closing \in {"open", "closing"}
BY DEF Base, Core, ClosedFits, BrokerTypes

\* An event is what its type says.
LEMMA EventFacts ==
    ASSUME NEW e \in Event
    PROVE  /\ e.type = "add" => /\ e.key \in Keys /\ e.host \in HostPorts \cup {AnyPort}
                                /\ e.host = AnyPort => e.key[1] = "local"
           /\ e.type = "remove" => e.key \in Keys
           /\ e.type = "unbind" => e.host \in HostPorts
           /\ e.type = "state" => e.port \in Ports /\ e.gen \in Nat /\ e.state \in ForwardState
           /\ e.type # "prepare"
BY DEF Event, StateEvent, AddEvent

\* add keeps them.
LEMMA StartAddBase ==
    ASSUME Base, StartAdd
    PROVE  Base'
<1>0. Types
  BY TypesParts DEF Base, Core
<1>a. (\E k : k = Head(queue).key) /\ (\E host : host = Head(queue).host)
  OBVIOUS
<1>b. PICK k, host : k = Head(queue).key /\ host = Head(queue).host
  BY <1>a
<1> DEFINE e == managed[k]
<1>1. Start("add")
  BY DEF StartAdd
<1>2. /\ Head(queue) \in Event /\ Head(queue).type = "add"
      /\ queue' \in Seq(Event) /\ queue' \in Seq(Event \cup PrepareEvent)
      /\ closing \in {"open", "closing"}
      /\ \A w \in waiting : w.by = "adopt" /\ w.kind = "forward"
  BY <1>1, StartFacts
<1>3. k \in Keys /\ host \in HostPorts \cup {AnyPort} /\ (host = AnyPort => k[1] = "local")
  BY <1>b, <1>2, EventFacts
<1>4. /\ cur = None /\ closing' = closing /\ UNCHANGED <<registry, unsaved, persistFails>>
      /\ UNCHANGED initial
  BY <1>1 DEF Start, StartAdd, bounds
<1>5. CASE Done /\ UNCHANGED <<forwards, gateway, relay>>
  BY <1>2, <1>4, <1>5 DEF Base, Core, Done, forwards, gateway, relay, BrokerTypes, GatewayTypes,
    RelayTypes, CurFits, WaitFits, ClosedFits
<1>6. CASE /\ e # None
           /\ managed' = [managed EXCEPT ![k].owners = @ \cup {"dynamic"}]
           /\ At("persistOwner", k)
           /\ UNCHANGED <<gens, openLocal, troubled, gateway, relay>>
  <2>1. managed' \in [Keys -> Entry \cup {None}] /\ managed'[k] # None
    <3>1. e \in Entry
      BY <1>3, <1>6 DEF Base, Core, BrokerTypes
    <3>2. [e EXCEPT !.owners = @ \cup {"dynamic"}] \in Entry
      BY <3>1 DEF Entry, Owners
    <3> QED
      BY <1>3, <1>6, <3>2, PortForwardsAssumption DEF Base, Core, BrokerTypes
  <2>2. cur' \in Mutation /\ cur'.step = "persistOwner" /\ cur'.key = k
    BY <1>3, <1>6, MutationFacts DEF At, Steps
  <2>3. BrokerTypes'
    BY <1>2, <1>4, <1>6, <2>1, <2>2 DEF Base, Core, BrokerTypes
  <2>4. CurFits'
    BY <1>3, <2>1, <2>2 DEF CurFits
  <2> QED
    BY <1>2, <1>4, <1>6, <2>3, <2>4 DEF Base, Core, gateway, relay, GatewayTypes,
      RelayTypes, WaitFits, ClosedFits
<1>7. CASE /\ e = None
           /\ host = AnyPort
           /\ At("pick", k)
           /\ UNCHANGED <<forwards, gateway, relay>>
  <2>2. cur' \in Mutation /\ cur'.step = "pick" /\ cur'.key = k
    BY <1>3, <1>7, MutationFacts DEF At, Steps
  <2>3. BrokerTypes'
    BY <1>2, <1>4, <1>7, <2>2 DEF Base, Core, BrokerTypes, forwards
  <2>4. CurFits'
    BY <1>3, <1>7, <2>2 DEF CurFits
  <2> QED
    BY <1>2, <1>4, <1>7, <2>3, <2>4 DEF Base, Core, gateway, relay, GatewayTypes,
      RelayTypes, WaitFits, ClosedFits
<1>8. CASE /\ e = None
           /\ host # AnyPort
           /\ Insert(k, host, "pending")
           /\ k[1] = "local"
           /\ At("listen", k)
           /\ UNCHANGED <<table, openLocal, retired, waiting, streams, relay>>
  <2>1. Inserted(k, host)
    <3>1. host \in HostPorts /\ "pending" \in ForwardState
      BY <1>3, <1>8 DEF ForwardState
    <3> QED
      BY <1>0, <1>3, <1>8, <3>1, InsertFacts
  <2>2. cur' \in Mutation /\ cur'.step = "listen" /\ cur'.key = k
    BY <1>3, <1>8, MutationFacts DEF At, Steps
  <2>3. BrokerTypes'
    BY <1>2, <1>4, <1>8, <2>1, <2>2 DEF Base, Core, BrokerTypes, Inserted
  <2>4. CurFits'
    BY <1>3, <1>8, <2>1, <2>2 DEF CurFits, Inserted
  <2> QED
    BY <1>2, <1>4, <1>8, <2>3, <2>4 DEF Base, Core, relay, GatewayTypes,
      RelayTypes, WaitFits, ClosedFits
<1>9. CASE /\ e = None
           /\ host # AnyPort
           /\ Insert(k, host, "pending")
           /\ k[1] # "local"
           /\ At("ensure", k)
           /\ table' = [table EXCEPT ![k[2]] =
                  [token |-> NewToken(k[2]), host |-> host, active |-> FALSE,
                   establishing |-> TRUE]]
           /\ UNCHANGED <<openLocal, retired, waiting, streams, relay>>
  <2>1. Inserted(k, host)
    <3>1. host \in HostPorts /\ "pending" \in ForwardState
      BY <1>3, <1>9 DEF ForwardState
    <3> QED
      BY <1>0, <1>3, <1>9, <3>1, InsertFacts
  <2>2. cur' \in Mutation /\ cur'.step = "ensure" /\ cur'.key = k
    BY <1>3, <1>9, MutationFacts DEF At, Steps
  <2>3. BrokerTypes'
    BY <1>2, <1>4, <1>9, <2>1, <2>2 DEF Base, Core, BrokerTypes, Inserted
  <2>5. k[2] \in Ports /\ k[1] = "remote"
    BY <1>3, <1>9, MutationFacts
  <2>6. [token |-> NewToken(k[2]), host |-> host, active |-> FALSE,
         establishing |-> TRUE] \in Resource
    BY <1>0, <1>3, <1>9, <2>5, NameTypes DEF Resource
  <2>7. table' \in [Ports -> Resource \cup {None}] /\ table'[k[2]] # None
    BY <1>9, <2>5, <2>6, PortForwardsAssumption DEF Base, Core, GatewayTypes
  <2>4. CurFits'
    BY <1>3, <1>9, <2>1, <2>2, <2>5, <2>7 DEF CurFits, Inserted
  <2> QED
    BY <1>2, <1>4, <1>9, <2>3, <2>4, <2>7 DEF Base, Core, relay, GatewayTypes,
      RelayTypes, WaitFits, ClosedFits
<1> QED
  BY <1>b, <1>5, <1>6, <1>7, <1>8, <1>9 DEF StartAdd, Insert

\* A new state or new owners keep a mapping where it is.
LEMMA EntryChanged ==
    ASSUME BrokerTypes, NEW k \in Keys, managed[k] # None
    PROVE  /\ \A s \in ForwardState : LET m == [managed EXCEPT ![k].state = s]
                IN m \in [Keys -> Entry \cup {None}] /\ m[k] # None /\ m[k].host = managed[k].host
           /\ \A o \in SUBSET Owners : LET m == [managed EXCEPT ![k].owners = o]
                IN m \in [Keys -> Entry \cup {None}] /\ m[k] # None /\ m[k].host = managed[k].host
<1>1. managed[k] \in Entry /\ managed \in [Keys -> Entry \cup {None}] /\ None \notin Entry
  BY PortForwardsAssumption DEF BrokerTypes
<1>2. ASSUME NEW s \in ForwardState
      PROVE  [managed[k] EXCEPT !.state = s] \in Entry
             /\ [managed[k] EXCEPT !.state = s].host = managed[k].host
  BY <1>1 DEF Entry
<1>3. ASSUME NEW o \in SUBSET Owners
      PROVE  [managed[k] EXCEPT !.owners = o] \in Entry
             /\ [managed[k] EXCEPT !.owners = o].host = managed[k].host
  BY <1>1 DEF Entry
<1> QED
  BY <1>1, <1>2, <1>3

\* They leave every port mapped as it was.
LEMMA EntryEffect ==
    ASSUME BrokerTypes, NEW k \in Keys, managed[k] # None,
           \/ \E s \in ForwardState : managed' = [managed EXCEPT ![k].state = s]
           \/ \E o \in SUBSET Owners : managed' = [managed EXCEPT ![k].owners = o]
    PROVE  \A c \in Ports : Mapped(c)' = Mapped(c)
<1>1. managed'[k] # None /\ managed'[k].host = managed[k].host
  <2>1. ASSUME NEW s \in ForwardState, managed' = [managed EXCEPT ![k].state = s]
        PROVE  managed'[k] # None /\ managed'[k].host = managed[k].host
    BY <2>1, EntryChanged
  <2>2. ASSUME NEW o \in SUBSET Owners, managed' = [managed EXCEPT ![k].owners = o]
        PROVE  managed'[k] # None /\ managed'[k].host = managed[k].host
    BY <2>2, EntryChanged
  <2> QED
    BY <2>1, <2>2
<1>2. \A e \in Keys \ {k} : managed'[e] = managed[e]
  BY DEF BrokerTypes
<1>3. \A c \in Ports : Remote(c) \in Keys
  BY MutationFacts
<1> QED
  BY <1>1, <1>2, <1>3 DEF Mapped

\* So do changes of a local forward.
LEMMA LocalEffect ==
    ASSUME NEW k \in Keys, k[1] = "local", \A e \in Keys \ {k} : managed'[e] = managed[e]
    PROVE  \A c \in Ports : Mapped(c)' = Mapped(c)
<1>1. \A c \in Ports : Remote(c) \in Keys \ {k}
  BY MutationFacts
<1> QED
  BY <1>1 DEF Mapped

\* Permissions end on behalf of a mutation: nobody but adoptControl waits besides.
LEMMA UnforwardBase ==
    ASSUME Core, NEW C \in SUBSET Ports, NEW step \in Stopping,
           NEW others \in SUBSET waiting, \A w \in others : w.by = "adopt",
           Unforward(C, step, others)
    PROVE  /\ Unforwarded(C, step, others)
           /\ GatewayTypes' /\ CurFits' /\ WaitFits'
           /\ cur' \in Mutation \cup {None}
           /\ conn' = conn /\ fwd' = fwd /\ limbo' = limbo
           /\ toRelay' \in Seq(Request \cup {Exit})
<1>0. Types
  BY TypesParts DEF Base, Core
<1>1. Unforwarded(C, step, others)
  BY <1>0, UnforwardFacts
<1>2. GatewayTypes'
  <2>1. table' \in [Ports -> Resource \cup {None}] /\ streams' \subseteq streams
    BY <1>1 DEF Unforwarded, Base, Core, GatewayTypes
  <2> QED
    BY <1>1, <2>1 DEF Unforwarded, Base, Core, GatewayTypes
<1>3. [step |-> step, key |-> None] \in Mutation /\ step \in Steps
  BY MutationFacts DEF Stopping, Steps
<1>4. cur' \in Mutation \cup {None} /\ CurFits'
  <2>1. CASE cur' = [step |-> step, key |-> None]
    BY <1>3, <2>1 DEF CurFits, Stopping
  <2>2. CASE cur' = AfterUnforward(step)
    BY <2>2, AfterUnforwardType DEF CurFits
  <2> QED
    BY <1>1, <2>1, <2>2 DEF Unforwarded
<1>5. WaitFits'
  <2>1. \A w \in others : w.by = "adopt" /\ w.kind = "forward"
    BY DEF Base, Core, WaitFits
  <2>2. CASE cur' = [step |-> step, key |-> None]
    <3>1. cur' \in [step : {"rollback", "unforward", "unforwardAll"}, key : {None}]
      BY <2>2 DEF Stopping
    <3>2. \A w \in waiting' : w \in others \/ (w.kind = "unforward" /\ w.by = "broker")
      BY <1>1 DEF Unforwarded
    <3> QED
      BY <2>1, <3>1, <3>2 DEF WaitFits
  <2>3. CASE waiting' = others
    BY <2>1, <2>3 DEF WaitFits
  <2> QED
    BY <1>1, <2>2, <2>3 DEF Unforwarded
<1> QED
  BY <1>1, <1>2, <1>4, <1>5 DEF Unforwarded

\* The end of a failed add keeps them.
LEMMA AddFailsBase ==
    ASSUME Base, NEW c \in Ports, NEW state \in ForwardState,
           NEW others \in SUBSET waiting, \A w \in others : w.by = "adopt",
           NEW unread \in SUBSET answers, AddFails(c, state, others, unread),
           closing \in {"open", "closing"},
           UNCHANGED <<initial, closing, registry, unsaved, persistFails>>
    PROVE  /\ Base' /\ Deleted({Remote(c)}) /\ Unforwarded({c}, "rollback", others)
<1>0. Types
  BY TypesParts DEF Base, Core
<1>1. queue' \in Seq(Event) /\ queue' \in Seq(Event \cup PrepareEvent)
  <2>1. Report({c}, state) \in Seq(StateEvent)
    BY <1>0, ReportType
  <2>2. queue' = queue \o Report({c}, state)
    BY DEF AddFails
  <2>3. queue' \in Seq(Event)
    BY <2>1, <2>2, QueueFacts DEF Base, Core
  <2> QED
    BY <2>3, QueueFacts
<1>2. Deleted({Remote(c)})
  <2>1. PICK K : K = {Remote(c)}
    OBVIOUS
  <2>2. K \in SUBSET Keys
    BY <2>1, MutationFacts
  <2>3. Delete(K)
    BY <2>1 DEF AddFails
  <2> QED
    BY <1>0, <2>1, <2>2, <2>3, DeleteFacts
<1>3. /\ Unforwarded({c}, "rollback", others)
      /\ GatewayTypes' /\ CurFits' /\ WaitFits'
      /\ cur' \in Mutation \cup {None}
      /\ conn' = conn /\ fwd' = fwd /\ limbo' = limbo
      /\ toRelay' \in Seq(Request \cup {Exit})
  <2>1. PICK C, step : C = {c} /\ step = "rollback"
    OBVIOUS
  <2>2. C \in SUBSET Ports /\ step \in Stopping
    BY <2>1 DEF Stopping
  <2>3. Unforward(C, step, others)
    BY <2>1 DEF AddFails
  <2>4. /\ Unforwarded(C, step, others)
        /\ GatewayTypes' /\ CurFits' /\ WaitFits'
        /\ cur' \in Mutation \cup {None}
        /\ conn' = conn /\ fwd' = fwd /\ limbo' = limbo
        /\ toRelay' \in Seq(Request \cup {Exit})
    BY <2>2, <2>3, UnforwardBase DEF Base
  <2> QED
    BY <2>1, <2>4
<1>4. BrokerTypes'
  BY <1>1, <1>2, <1>3 DEF AddFails, Base, Core, BrokerTypes, Deleted
<1>5. RelayTypes'
  <2>1. answers' \subseteq answers
    BY DEF AddFails
  <2>2. IsFiniteSet(answers')
    BY <2>1, FS_Subset DEF Base, Core, RelayTypes
  <2> QED
    BY <1>3, <2>1, <2>2 DEF Base, Core, RelayTypes
<1> QED
  BY <1>1, <1>2, <1>3, <1>4, <1>5 DEF Base, Core, ClosedFits

\* A free port that is found or taken, and a listener that opens or not, keep them.
LEMMA LocalBase ==
    ASSUME Base, Pick \/ Listen
    PROVE  Base'
<1>0. Types /\ cur # None /\ cur \in Mutation
  BY TypesParts DEF Base, Core, Pick, Listen, BrokerTypes
<1>1. PICK k : k = cur.key
  OBVIOUS
<1>2. /\ k \in Keys /\ k[1] = "local" /\ k[2] \in Ports
      /\ cur.step = "listen" => managed[k] # None
  <2>1. cur.step \in {"pick", "listen"}
    BY DEF Pick, Listen
  <2>2. k \in Keys /\ k[1] = "local" /\ (cur.step = "listen" => managed[k] # None)
    BY <1>0, <1>1, <2>1 DEF Base, Core, CurFits
  <2> QED
    BY <2>2, MutationFacts
<1>3. /\ closing \in {"open", "closing"}
      /\ UNCHANGED <<initial, queue, closing, registry, unsaved, persistFails, gateway, relay>>
  BY <1>0, RunFacts DEF Base, Pick, Listen, bounds
<1>4. \A w \in waiting : w.by = "adopt" /\ w.kind = "forward"
  <2>1. cur.step \notin {"ack", "rollback", "unforward", "unforwardAll"}
    BY DEF Pick, Listen
  <2>2. \A w \in waiting : w.by \in {"add", "adopt", "broker"}
    BY DEF Base, Core, GatewayTypes, Waiter
  <2> QED
    BY <2>1, <2>2 DEF Base, Core, WaitFits
<1>5. ASSUME BrokerTypes', CurFits' PROVE Base'
  BY <1>3, <1>4, <1>5 DEF Base, Core, gateway, relay, GatewayTypes, RelayTypes, WaitFits, ClosedFits
<1>6. ASSUME NEW host \in HostPorts, Insert(k, host, "active"),
             openLocal' = openLocal \cup {k[2]}, At("persistAdd", k)
      PROVE  Base'
  <2>0. "active" \in ForwardState
    BY DEF ForwardState
  <2>1. Inserted(k, host)
    BY <1>0, <1>2, <1>6, <2>0, InsertFacts
  <2>2. cur' \in Mutation /\ cur'.step = "persistAdd" /\ cur'.key = k
    BY <1>2, <1>6, MutationFacts DEF At, Steps
  <2>3. BrokerTypes'
    BY <1>2, <1>3, <1>6, <2>1, <2>2 DEF Base, Core, BrokerTypes, Inserted
  <2>4. CurFits'
    BY <1>2, <2>1, <2>2 DEF CurFits, Inserted
  <2> QED
    BY <1>5, <2>3, <2>4
<1>7. ASSUME Done, UNCHANGED forwards PROVE Base'
  BY <1>3, <1>5, <1>7 DEF Base, Core, Done, forwards, BrokerTypes, CurFits
<1>8. ASSUME cur.step = "listen", managed' = [managed EXCEPT ![k].state = "active"],
             openLocal' = openLocal \cup {k[2]}, At("persistAdd", k),
             UNCHANGED <<gens, troubled>>
      PROVE  Base'
  <2>0. "active" \in ForwardState
    BY DEF ForwardState
  <2>1. managed' \in [Keys -> Entry \cup {None}] /\ managed'[k] # None
    BY <1>2, <1>8, <2>0, EntryChanged DEF Base, Core
  <2>2. cur' \in Mutation /\ cur'.step = "persistAdd" /\ cur'.key = k
    BY <1>2, <1>8, MutationFacts DEF At, Steps
  <2>3. BrokerTypes'
    BY <1>2, <1>3, <1>8, <2>1, <2>2 DEF Base, Core, BrokerTypes
  <2>4. CurFits'
    BY <1>2, <2>1, <2>2 DEF CurFits
  <2> QED
    BY <1>5, <2>3, <2>4
<1>9. ASSUME NEW K, K = {k}, Delete(K), Done, UNCHANGED openLocal PROVE Base'
  <2>1. Deleted(K)
    BY <1>0, <1>2, <1>9, DeleteFacts
  <2> QED
    BY <1>3, <1>5, <1>9, <2>1 DEF Base, Core, BrokerTypes, Deleted, Done, CurFits
<1>10. CASE Pick
  BY <1>1, <1>6, <1>7, <1>10 DEF Pick, Insert, At
<1>11. CASE Listen
  <2>1. CASE Delete({cur.key}) /\ Done /\ UNCHANGED openLocal
    <3>1. PICK K : K = {k}
      OBVIOUS
    <3>2. Delete(K)
      BY <1>1, <2>1, <3>1 DEF Delete
    <3> QED
      BY <1>9, <2>1, <3>1, <3>2
  <2> QED
    BY <1>1, <1>8, <1>11, <2>1 DEF Listen, At
<1> QED
  BY <1>10, <1>11

\* Asking the relay for an add keeps them.
LEMMA EnsureReadyBase ==
    ASSUME Base, EnsureReady
    PROVE  Base'
<1>0. Types /\ cur # None /\ cur \in Mutation /\ cur.step = "ensure"
  BY TypesParts DEF Base, Core, EnsureReady, BrokerTypes
<1>1. PICK c : c = cur.key[2]
  OBVIOUS
<1>2. /\ cur.key \in Keys /\ managed[cur.key] # None /\ cur.key[1] = "remote"
      /\ c \in Ports /\ table[c] # None /\ cur.key = Remote(c)
  BY <1>0, <1>1, MutationFacts DEF Base, Core, CurFits
<1>3. closing \in {"open", "closing"}
  BY <1>0, RunFacts DEF Base
<1>4. \A w \in waiting : w.by = "adopt" /\ w.kind = "forward"
  <2>2. \A w \in waiting : w.by \in {"add", "adopt", "broker"}
    BY DEF Base, Core, GatewayTypes, Waiter
  <2> QED
    BY <1>0, <2>2 DEF Base, Core, WaitFits
<1>5. queue' \in Seq(Event) /\ queue' \in Seq(Event \cup PrepareEvent)
  <2>0. "pending" \in ForwardState
    BY DEF ForwardState
  <2>1. Report({c}, "pending") \in Seq(StateEvent)
    BY <1>0, <1>2, <2>0, ReportType
  <2>2. queue' = queue \o Report({c}, "pending")
    BY <1>1 DEF EnsureReady
  <2>3. queue' \in Seq(Event)
    BY <2>1, <2>2, QueueFacts DEF Base, Core
  <2> QED
    BY <2>3, QueueFacts
<1>6. Sent("forward", "add", {c}, waiting)
  <2>0. /\ \E T : T = [x \in {c} |-> table[x].token]
        /\ \E others : others = waiting
        /\ \E D : D = {c}
        /\ \E kind : kind = "forward"
        /\ \E by : by = "add"
    OBVIOUS
  <2>1. PICK T, others, D, kind, by : /\ T = [x \in {c} |-> table[x].token] /\ others = waiting
                                      /\ D = {c} /\ kind = "forward" /\ by = "add"
    BY <2>0
  <2>2. T \in [D -> Nat]
    BY <1>2, <2>1 DEF Base, Core, GatewayTypes, Resource
  <2>3. D \in SUBSET Ports /\ others \in SUBSET waiting
        /\ kind \in {"forward", "unforward"} /\ by \in {"add", "adopt", "broker"}
    BY <1>2, <2>1
  <2>4. Send(kind, by, T, others)
    BY <1>1, <2>1 DEF EnsureReady, Send
  <2>5. Sent(kind, by, D, others)
    BY <1>0, <2>2, <2>3, <2>4, SendFacts
  <2> QED
    BY <2>1, <2>5 DEF Sent
<1>7. cur' = [step |-> "ack", key |-> Remote(c)]
  BY <1>2 DEF EnsureReady, At
<1>8. cur' \in Mutation /\ cur'.step = "ack" /\ cur'.key = cur.key
  BY <1>2, <1>7, MutationFacts DEF Steps
<1>9. BrokerTypes'
  BY <1>5, <1>8 DEF Base, Core, BrokerTypes, EnsureReady, forwards, bounds
<1>10. GatewayTypes' /\ RelayTypes'
  BY <1>6 DEF Base, Core, GatewayTypes, RelayTypes, EnsureReady, Sent
<1>11. CurFits'
  BY <1>1, <1>2, <1>8 DEF EnsureReady, CurFits, forwards
<1>12. WaitFits'
  <2>1. \A w \in waiting' \ waiting : w.kind = "forward" /\ w.by = "add" /\ w.port = c
    BY <1>6 DEF Sent
  <2>2. \A v, w \in waiting' \ waiting : v = w
    BY <1>2, <1>6 DEF Sent
  <2> QED
    BY <1>4, <1>7, <2>1, <2>2 DEF WaitFits
<1> QED
  BY <1>3, <1>5, <1>9, <1>10, <1>11, <1>12 DEF Base, Core, ClosedFits, EnsureReady

\* While a mutation runs that asked the relay for nothing yet, only adoptControl waits.
LEMMA OthersAdopt ==
    ASSUME Core, cur = None \/ cur.step \notin Stopping \cup {"ack"}
    PROVE  \A w \in waiting : w.by = "adopt" /\ w.kind = "forward"
<1>1. \A w \in waiting : w.by \in {"add", "adopt", "broker"} /\ w.port \in Ports
  BY DEF Base, Core, GatewayTypes, Waiter
<1>2. ASSUME NEW w \in waiting, w.by = "add" PROVE FALSE
  <2>1. cur = [step |-> "ack", key |-> Remote(w.port)]
    BY <1>2 DEF Base, Core, WaitFits
  <2> QED
    BY <1>1, <2>1, MutationFacts DEF Steps
<1>3. ASSUME NEW w \in waiting, w.by = "broker" PROVE FALSE
  <2>1. cur \in [step : {"rollback", "unforward", "unforwardAll"}, key : {None}]
    BY <1>3 DEF Base, Core, WaitFits
  <2>2. cur \in Mutation
    BY <2>1 DEF Mutation, Steps
  <2> QED
    BY <2>1, <2>2, PortForwardsAssumption DEF Stopping
<1> QED
  BY <1>1, <1>2, <1>3 DEF Base, Core, WaitFits

\* Mappings that go, with their permissions, keep them.
LEMMA RevokeBase ==
    ASSUME Core, NEW K \in SUBSET Keys, NEW C \in SUBSET Ports, NEW step \in Stopping,
           Delete(K), Unforward(C, step, waiting), \A w \in waiting : w.by = "adopt",
           closing \in {"open", "closing"}, queue' \in Seq(Event),
           initial' \in {"pending", "ready", "failed"}, openLocal' \subseteq openLocal,
           registry' \in [Keys -> Entry \cup {None}], unsaved' \in 0..MaxPersistFails,
           persistFails' \in Nat, unsaved' <= persistFails', UNCHANGED <<closing, answers>>
    PROVE  Base' /\ Deleted(K) /\ Unforwarded(C, step, waiting)
<1>0. Types
  BY TypesParts DEF Base, Core
<1>1. Deleted(K)
  BY <1>0, DeleteFacts
<1>2. /\ Unforwarded(C, step, waiting)
      /\ GatewayTypes' /\ CurFits' /\ WaitFits'
      /\ cur' \in Mutation \cup {None}
      /\ conn' = conn /\ fwd' = fwd /\ limbo' = limbo
      /\ toRelay' \in Seq(Request \cup {Exit})
  <2>0. \E others : others = waiting
    OBVIOUS
  <2>1. PICK others : others = waiting
    BY <2>0
  <2>2. Unforward(C, step, others) /\ others \in SUBSET waiting
    BY <2>1 DEF Unforward, Send
  <2>3. \A w \in others : w.by = "adopt"
    BY <2>1
  <2>4. /\ Unforwarded(C, step, others)
        /\ GatewayTypes' /\ CurFits' /\ WaitFits'
        /\ cur' \in Mutation \cup {None}
        /\ conn' = conn /\ fwd' = fwd /\ limbo' = limbo
        /\ toRelay' \in Seq(Request \cup {Exit})
    BY <2>2, <2>3, UnforwardBase
  <2>5. Unforwarded(C, step, waiting)
    BY <2>1, <2>4 DEF Unforwarded
  <2> QED
    BY <2>4, <2>5
<1>3. queue' \in Seq(Event \cup PrepareEvent)
  <2>0. \E q : q = queue'
    OBVIOUS
  <2>1. PICK q : q = queue'
    BY <2>0
  <2> QED
    BY <2>1, QueueFacts
<1>4. BrokerTypes'
  BY <1>1, <1>2, <1>3 DEF Base, Core, BrokerTypes, Deleted
<1>5. RelayTypes'
  BY <1>2 DEF Base, Core, RelayTypes
<1> QED
  BY <1>1, <1>2, <1>4, <1>5 DEF Base, Core, ClosedFits

\* So does giving up on the relay.
LEMMA EnsureFailsBase ==
    ASSUME Base, EnsureFails
    PROVE  /\ Base'
           /\ \E c \in Ports : Deleted({Remote(c)}) /\ Unforwarded({c}, "rollback", waiting)
<1>0. cur # None /\ cur.step = "ensure"
  BY DEF EnsureFails
<1>1. PICK c : c = cur.key[2]
  OBVIOUS
<1>2. c \in Ports
  BY <1>0, <1>1, MutationFacts DEF Base, Core, CurFits
<1>3. closing \in {"open", "closing"}
  BY <1>0, RunFacts DEF Base
<1>4. \A w \in waiting : w.by = "adopt"
  BY <1>0, OthersAdopt DEF Base, Stopping
<1>5. (\E others : others = waiting) /\ (\E unread : unread = answers)
      /\ (\E state : state = "unavailable")
  OBVIOUS
<1>6. PICK others, unread, state : others = waiting /\ unread = answers /\ state = "unavailable"
  BY <1>5
<1>7. /\ others \in SUBSET waiting /\ unread \in SUBSET answers /\ state \in ForwardState
      /\ \A w \in others : w.by = "adopt"
  BY <1>4, <1>6 DEF ForwardState
<1>8. AddFails(c, state, others, unread)
  BY <1>1, <1>6 DEF EnsureFails, AddFails, Delete, Unforward, Send
<1>9. UNCHANGED <<initial, closing, registry, unsaved, persistFails>>
  BY DEF EnsureFails, bounds
<1>10. Base' /\ Deleted({Remote(c)}) /\ Unforwarded({c}, "rollback", others)
  BY <1>2, <1>3, <1>7, <1>8, <1>9, AddFailsBase
<1> QED
  BY <1>2, <1>6, <1>10 DEF Unforwarded

\* A write of the registry behind an add keeps them.
LEMMA PersistAddBase ==
    ASSUME Base, PersistAdd
    PROVE  Base' /\ \E C \in SUBSET Ports : Revokes(C)
<1>0. Types /\ cur # None /\ cur \in Mutation /\ cur.step = "persistAdd"
  BY TypesParts DEF Base, Core, PersistAdd, Persisting, BrokerTypes
<1>1. PICK k : k = cur.key
  OBVIOUS
<1>2. k \in Keys /\ managed[k] # None /\ k[2] \in Ports
  BY <1>0, <1>1, MutationFacts DEF Base, Core, CurFits
<1>3. closing \in {"open", "closing"}
  BY <1>0, RunFacts DEF Base
<1>4. \A w \in waiting : w.by = "adopt" /\ w.kind = "forward"
  BY <1>0, OthersAdopt DEF Base, Stopping
<1>5. /\ registry' \in [Keys -> Entry \cup {None}] /\ unsaved' \in 0..MaxPersistFails
      /\ persistFails' \in Nat /\ unsaved' <= persistFails'
  BY SaveTypes DEF Base, Core, PersistAdd
<1>6. UNCHANGED <<queue, closing, initial>>
  BY DEF PersistAdd, Persisting
<1>7. CASE Done /\ UNCHANGED <<forwards, gateway, relay>>
  <2>1. Base'
    BY <1>3, <1>4, <1>5, <1>6, <1>7 DEF Base, Core, Done, forwards, gateway, relay, BrokerTypes,
      GatewayTypes, RelayTypes, CurFits, WaitFits, ClosedFits
  <2>2. \A c \in Ports : Mapped(c)' = Mapped(c) /\ Granted(c)' = Granted(c)
    BY <1>7 DEF Mapped, Granted, forwards, gateway
  <2> QED
    BY <1>6, <1>7, <2>1, <2>2, KeepEffect DEF gateway, relay
<1>8. ASSUME k[1] = "local", NEW K, K = {k}, Delete(K), openLocal' = openLocal \ {k[2]}, Done,
             UNCHANGED <<gateway, relay>>
      PROVE  Base' /\ \E C \in SUBSET Ports : Revokes(C)
  <2>1. Deleted(K)
    BY <1>0, <1>2, <1>8, DeleteFacts
  <2>2. Base'
    BY <1>3, <1>4, <1>5, <1>6, <1>8, <2>1 DEF Base, Core, Done, Deleted, gateway, relay,
      BrokerTypes, GatewayTypes, RelayTypes, CurFits, WaitFits, ClosedFits
  <2>3. \A e \in Keys \ {k} : managed'[e] = managed[e]
    BY <1>8, <2>1 DEF Deleted
  <2>4. \A c \in Ports : Mapped(c)' = Mapped(c) /\ Granted(c)' = Granted(c)
    BY <1>2, <1>8, <2>3, LocalEffect DEF Granted, gateway
  <2> QED
    BY <1>6, <1>8, <2>2, <2>4, KeepEffect DEF gateway, relay
<1>9. ASSUME k[1] # "local", NEW K, K = {k}, Delete(K), NEW C, C = {k[2]}, Unforward(C, "rollback", waiting),
             UNCHANGED <<openLocal, answers>>
      PROVE  Base' /\ \E D \in SUBSET Ports : Revokes(D)
  <2>1. PICK step : step = "rollback"
    OBVIOUS
  <2>2. /\ K \in SUBSET Keys /\ C \in SUBSET Ports /\ step \in Stopping
        /\ Unforward(C, step, waiting)
    BY <1>2, <1>9, <2>1 DEF Stopping
  <2>3. queue' \in Seq(Event) /\ initial' \in {"pending", "ready", "failed"}
    BY <1>6 DEF Base, Core, BrokerTypes
  <2>4. Base' /\ Deleted(K) /\ Unforwarded(C, step, waiting)
    BY <1>3, <1>4, <1>5, <1>6, <1>9, <2>2, <2>3, RevokeBase DEF Base
  <2>5. \A c \in Ports : c \in C <=> Remote(c) \in K
    BY <1>2, <1>9, MutationFacts
  <2>6. Revokes(C)
    <3>0. \E others : others = waiting
      OBVIOUS
    <3>1. PICK others : others = waiting
      BY <3>0
    <3>2. Unforwarded(C, step, others)
      BY <2>4, <3>1 DEF Unforwarded
    <3> QED
      BY <1>6, <2>2, <2>4, <2>5, <3>2, RevokeEffect
  <2> QED
    BY <2>2, <2>4, <2>6
<1>10. PICK K, C : K = {k} /\ C = {k[2]}
  OBVIOUS
<1> QED
  BY <1>1, <1>7, <1>8, <1>9, <1>10 DEF PersistAdd, Delete, Unforward, Send

\* Steps of a mutation that leave the gateway and the relay alone keep them.
LEMMA BrokerOnlyBase ==
    ASSUME Base, closing \in {"open", "closing"}, closing' = closing,
           queue' \in Seq(Event), BrokerTypes', CurFits', UNCHANGED gateway,
           conn' = conn, toRelay' \in Seq(Request \cup {Exit}), UNCHANGED <<answers, fwd, limbo>>,
           \A w \in waiting : w.by = "adopt" /\ w.kind = "forward"
    PROVE  Base'
BY DEF Base, Core, gateway, GatewayTypes, RelayTypes, WaitFits, ClosedFits

\* The other writes of the registry keep them.
LEMMA PersistBase ==
    ASSUME Base, PersistOwner \/ PersistRevocation \/ PersistFailure
    PROVE  Base'
<1>0. /\ cur # None /\ cur \in Mutation
      /\ cur.step \in {"persistOwner", "persistRev", "retry", "persistFail"}
  BY DEF Base, Core, BrokerTypes, PersistOwner, PersistRevocation, PersistFailure, Persisting
<1>1. closing \in {"open", "closing"}
  BY <1>0, RunFacts DEF Base
<1>2. \A w \in waiting : w.by = "adopt" /\ w.kind = "forward"
  BY <1>0, OthersAdopt DEF Base, Stopping
<1>3. /\ registry' \in [Keys -> Entry \cup {None}] /\ unsaved' \in 0..MaxPersistFails
      /\ persistFails' \in Nat /\ unsaved' <= persistFails'
  BY SaveTypes DEF Base, Core, PersistOwner, PersistRevocation, PersistFailure
<1>4. UNCHANGED <<queue, closing, initial, gateway, conn, answers, fwd, limbo>>
  BY DEF PersistOwner, PersistRevocation, PersistFailure, Persisting, relay
<1>5. managed' \in [Keys -> Entry \cup {None}] /\ UNCHANGED <<gens, openLocal, troubled>>
  <2>1. CASE PersistOwner
    <3>1. cur.key \in Keys /\ managed[cur.key] # None
      BY <1>0, <2>1 DEF Base, Core, CurFits, PersistOwner, Persisting
    <3>2. managed[cur.key] \in Entry
      BY <3>1 DEF Base, Core, BrokerTypes
    <3>3. [managed[cur.key] EXCEPT !.owners = @ \ {"dynamic"}] \in Entry
      BY <3>2 DEF Entry
    <3> QED
      BY <2>1, <3>1, <3>3 DEF PersistOwner, Base, Core, BrokerTypes
  <2>2. CASE PersistRevocation \/ PersistFailure
    BY <2>2 DEF PersistRevocation, PersistFailure, forwards, Base, Core, BrokerTypes
  <2> QED
    BY <2>1, <2>2
<1>6. cur' \in Mutation \cup {None} /\ (cur' # None => cur'.step = "retry")
  BY MutationFacts DEF PersistOwner, PersistRevocation, PersistFailure, Done, At, Steps
<1>7. toRelay' \in Seq(Request \cup {Exit})
  <2>1. toRelay \in Seq(Request \cup {Exit})
    BY DEF Base, Core, RelayTypes
  <2>2. Append(toRelay, Exit) \in Seq(Request \cup {Exit})
    BY <2>1, AppendProperties
  <2> QED
    BY <2>1, <2>2 DEF PersistOwner, PersistRevocation, PersistFailure, relay
<1>8. BrokerTypes'
  BY <1>3, <1>4, <1>5, <1>6 DEF Base, Core, BrokerTypes
<1>9. CurFits'
  BY <1>6 DEF CurFits
<1>10. queue' \in Seq(Event)
  BY <1>4 DEF Base, Core
<1> QED
  BY <1>1, <1>2, <1>4, <1>7, <1>8, <1>9, <1>10, BrokerOnlyBase

\* A removal keeps them.
LEMMA StartRemoveBase ==
    ASSUME Base, StartRemove
    PROVE  Base' /\ \E C \in SUBSET Ports : Revokes(C)
<1>0. Types
  BY TypesParts DEF Base, Core
<1>1. PICK t : t \in {"remove", "unbind"} /\ Start(t)
  BY DEF StartRemove
<1>2. /\ Head(queue) \in Event /\ Head(queue).type = t
      /\ queue' \in Seq(Event) /\ queue' \in Seq(Event \cup PrepareEvent)
      /\ closing \in {"open", "closing"}
      /\ \A w \in waiting : w.by = "adopt" /\ w.kind = "forward"
  BY <1>1, StartFacts
<1>3. /\ cur = None /\ closing' = closing /\ UNCHANGED <<registry, unsaved, persistFails>>
      /\ UNCHANGED initial
  BY <1>1 DEF Start, StartRemove, bounds
<1> DEFINE op == Head(queue)
           K == IF op.type = "remove" THEN {op.key} \ {k \in Keys : managed[k] = None}
                ELSE {k \in Managed("local") : managed[k].host = op.host}
<1>4. \A k \in K : k \in Keys /\ k[2] \in Ports /\ managed[k] # None
  <2>1. op.type = "remove" => op.key \in Keys
    BY <1>2, EventFacts
  <2> QED
    BY <2>1, MutationFacts DEF Managed
<1> HIDE DEF K
<1>5. ASSUME Done, UNCHANGED <<forwards, gateway, relay>>
      PROVE  Base' /\ \E C \in SUBSET Ports : Revokes(C)
  <2>1. BrokerTypes' /\ CurFits'
    BY <1>2, <1>3, <1>5 DEF Base, Core, BrokerTypes, CurFits, Done, forwards
  <2>2. Base'
    BY <1>2, <1>3, <1>5, <2>1, BrokerOnlyBase DEF relay, Base, Core, RelayTypes
  <2>3. \A c \in Ports : Mapped(c)' = Mapped(c) /\ Granted(c)' = Granted(c)
    BY <1>5 DEF Mapped, Granted, forwards, gateway
  <2> QED
    BY <1>3, <1>5, <2>2, <2>3, KeepEffect DEF gateway, relay
<1>6. cur' = [step |-> "persistRev", key |-> None] => cur' \in Mutation /\ CurFits'
  BY MutationFacts DEF Steps, CurFits
<1>7. ASSUME NEW k \in K, managed' = [managed EXCEPT ![k].owners = {"internal"}],
             At("persistRev", None), UNCHANGED <<gens, openLocal, troubled, gateway, relay>>
      PROVE  Base' /\ \E C \in SUBSET Ports : Revokes(C)
  <2>1. managed' \in [Keys -> Entry \cup {None}]
    <3>1. {"internal"} \in SUBSET Owners
      BY DEF Owners
    <3> QED
      BY <1>4, <1>7, <3>1, EntryChanged DEF Base, Core
  <2>2. BrokerTypes' /\ CurFits'
    BY <1>2, <1>3, <1>6, <1>7, <2>1 DEF Base, Core, BrokerTypes, At
  <2>3. Base'
    BY <1>2, <1>3, <1>7, <2>2, BrokerOnlyBase DEF relay, Base, Core, RelayTypes
  <2>4. \A c \in Ports : Mapped(c)' = Mapped(c) /\ Granted(c)' = Granted(c)
    <3>1. {"internal"} \in SUBSET Owners
      BY DEF Owners
    <3>2. \A c \in Ports : Mapped(c)' = Mapped(c)
      BY <1>4, <1>7, <3>1, EntryEffect DEF Base, Core
    <3> QED
      BY <1>7, <3>2 DEF Granted, gateway
  <2> QED
    BY <1>3, <1>7, <2>3, <2>4, KeepEffect DEF gateway, relay
<1>8. ASSUME NEW k \in K, k[1] = "local", NEW L, L = {k}, Delete(L), openLocal' = openLocal \ {k[2]},
             At("persistRev", None), UNCHANGED <<gateway, relay>>
      PROVE  Base' /\ \E C \in SUBSET Ports : Revokes(C)
  <2>1. Deleted(L)
    BY <1>0, <1>4, <1>8, DeleteFacts
  <2>2. BrokerTypes' /\ CurFits'
    BY <1>2, <1>3, <1>6, <1>8, <2>1 DEF Base, Core, BrokerTypes, At, Deleted
  <2>3. Base'
    BY <1>2, <1>3, <1>8, <2>2, BrokerOnlyBase DEF relay, Base, Core, RelayTypes
  <2>4. \A e \in Keys \ {k} : managed'[e] = managed[e]
    BY <1>8, <2>1 DEF Deleted
  <2>5. \A c \in Ports : Mapped(c)' = Mapped(c) /\ Granted(c)' = Granted(c)
    BY <1>4, <1>8, <2>4, LocalEffect DEF Granted, gateway
  <2> QED
    BY <1>3, <1>8, <2>3, <2>5, KeepEffect DEF gateway, relay
<1>9. ASSUME NEW k \in K, k[1] # "local", NEW L, L = {k}, Delete(L), NEW C, C = {k[2]},
             Unforward(C, "unforward", waiting), UNCHANGED <<openLocal, answers>>
      PROVE  Base' /\ \E D \in SUBSET Ports : Revokes(D)
  <2>1. PICK step : step = "unforward"
    OBVIOUS
  <2>2. /\ L \in SUBSET Keys /\ C \in SUBSET Ports /\ step \in Stopping
        /\ Unforward(C, step, waiting)
    BY <1>4, <1>9, <2>1 DEF Stopping
  <2>3. /\ initial' \in {"pending", "ready", "failed"}
        /\ registry' \in [Keys -> Entry \cup {None}] /\ unsaved' \in 0..MaxPersistFails
        /\ persistFails' \in Nat /\ unsaved' <= persistFails'
    BY <1>3 DEF Base, Core, BrokerTypes
  <2>4. Base' /\ Deleted(L) /\ Unforwarded(C, step, waiting)
    BY <1>2, <1>3, <1>9, <2>2, <2>3, RevokeBase DEF Base
  <2>5. \A c \in Ports : c \in C <=> Remote(c) \in L
    BY <1>4, <1>9, MutationFacts
  <2>6. Revokes(C)
    <3>0. \E others : others = waiting
      OBVIOUS
    <3>1. PICK others : others = waiting
      BY <3>0
    <3>2. Unforwarded(C, step, others)
      BY <2>4, <3>1 DEF Unforwarded
    <3> QED
      BY <1>3, <2>2, <2>4, <2>5, <3>2, RevokeEffect
  <2> QED
    BY <2>2, <2>4, <2>6
<1>10. CASE \E k \in K :
                /\ "internal" \notin managed[k].owners
                /\ Delete({k})
                /\ IF k[1] = "local"
                   THEN /\ openLocal' = openLocal \ {k[2]}
                        /\ At("persistRev", None)
                        /\ UNCHANGED <<gateway, relay>>
                   ELSE /\ Unforward({k[2]}, "unforward", waiting)
                        /\ UNCHANGED <<openLocal, answers>>
  <2>1. PICK k \in K :
                /\ Delete({k})
                /\ IF k[1] = "local"
                   THEN /\ openLocal' = openLocal \ {k[2]}
                        /\ At("persistRev", None)
                        /\ UNCHANGED <<gateway, relay>>
                   ELSE /\ Unforward({k[2]}, "unforward", waiting)
                        /\ UNCHANGED <<openLocal, answers>>
    BY <1>10
  <2>2. PICK L, C : L = {k} /\ C = {k[2]}
    OBVIOUS
  <2> QED
    BY <1>8, <1>9, <2>1, <2>2
<1> QED
  BY <1>5, <1>7, <1>10 DEF StartRemove, K

\* The failure of the initial forwards keeps them.
LEMMA FailInitialBase ==
    ASSUME Core, FailInitial, \A w \in waiting : w.by = "adopt",
           closing \in {"open", "closing"}, closing' = closing, queue' \in Seq(Event),
           registry' \in [Keys -> Entry \cup {None}], unsaved' \in 0..MaxPersistFails,
           persistFails' \in Nat, unsaved' <= persistFails'
    PROVE  Base' /\ \E C \in SUBSET Ports : Revokes(C)
<1> DEFINE D == {k[2] : k \in Managed("remote")}
<1>1. D = {c \in Ports : managed[Remote(c)] # None}
  <2>1. ASSUME NEW k \in Managed("remote") PROVE k[2] \in Ports /\ managed[Remote(k[2])] # None
    BY MutationFacts DEF Managed
  <2>2. ASSUME NEW c \in Ports, managed[Remote(c)] # None PROVE c \in D
    <3>1. Remote(c) \in Managed("remote") /\ Remote(c)[2] = c
      BY <2>2, MutationFacts DEF Managed
    <3> QED
      BY <3>1
  <2> QED
    BY <2>1, <2>2
<1>2. (\E C : C = D) /\ (\E K : K = Keys) /\ (\E step : step = "unforwardAll")
  OBVIOUS
<1>3. PICK C, K, step : C = D /\ K = Keys /\ step = "unforwardAll"
  BY <1>2
<1>4. C \in SUBSET Ports /\ K \in SUBSET Keys /\ step \in Stopping
  <2> HIDE DEF D
  <2> QED
    BY <1>1, <1>3 DEF Stopping
<1>5. Delete(K) /\ Unforward(C, step, waiting)
  BY <1>3 DEF FailInitial, Delete, Unforward, Send
<1>6. /\ initial' \in {"pending", "ready", "failed"} /\ openLocal' \subseteq openLocal
      /\ UNCHANGED <<closing, answers>>
  BY DEF FailInitial
<1>7. Base' /\ Deleted(K) /\ Unforwarded(C, step, waiting)
  BY <1>4, <1>5, <1>6, RevokeBase
<1> HIDE DEF D
<1>8. Revokes(C)
  <2>0. \E others : others = waiting
    OBVIOUS
  <2>1. PICK others : others = waiting
    BY <2>0
  <2>2. Unforwarded(C, step, others)
    BY <1>7, <2>1 DEF Unforwarded
  <2>3. \A c \in C : Remote(c) \in K
    BY <1>3, <1>4, MutationFacts
  <2>4. \A c \in Ports : Remote(c) \in K /\ managed[Remote(c)] # None => c \in C
    BY <1>1, <1>3
  <2> QED
    BY <1>4, <1>7, <2>2, <2>3, <2>4, RevokeEffect
<1> QED
  BY <1>4, <1>7, <1>8

\* The initial forwards that are entered or saved keep them.
LEMMA PersistInitialBase ==
    ASSUME Base, PersistPrepared \/ PersistInitial
    PROVE  Base' /\ \E C \in SUBSET Ports : Revokes(C)
<1>0. cur # None /\ cur \in Mutation /\ cur.step \in {"persistPrep", "persistInit"}
  BY DEF Base, Core, BrokerTypes, PersistPrepared, PersistInitial, Persisting
<1>1. closing \in {"open", "closing"}
  BY <1>0, RunFacts DEF Base
<1>2. \A w \in waiting : w.by = "adopt" /\ w.kind = "forward"
  BY <1>0, OthersAdopt DEF Base, Stopping
<1>3. /\ registry' \in [Keys -> Entry \cup {None}] /\ unsaved' \in 0..MaxPersistFails
      /\ persistFails' \in Nat /\ unsaved' <= persistFails'
  BY SaveTypes DEF Base, Core, PersistPrepared, PersistInitial
<1>4. UNCHANGED <<queue, closing>> /\ queue' \in Seq(Event)
  BY DEF Base, PersistPrepared, PersistInitial, Persisting
<1>5. CASE FailInitial
  BY <1>1, <1>2, <1>3, <1>4, <1>5, FailInitialBase DEF Base
<1>6. ASSUME initial' \in {initial, "ready"}, Done, UNCHANGED <<forwards, gateway, relay>>
      PROVE  Base' /\ \E C \in SUBSET Ports : Revokes(C)
  <2>1. BrokerTypes' /\ CurFits'
    BY <1>3, <1>4, <1>6 DEF Base, Core, BrokerTypes, CurFits, Done, forwards
  <2>2. Base'
    BY <1>1, <1>2, <1>4, <1>6, <2>1, BrokerOnlyBase DEF relay, Base, Core, RelayTypes
  <2>3. \A c \in Ports : Mapped(c)' = Mapped(c) /\ Granted(c)' = Granted(c)
    BY <1>6 DEF Mapped, Granted, forwards, gateway
  <2> QED
    BY <1>4, <1>6, <2>2, <2>3, KeepEffect DEF gateway, relay
<1> QED
  BY <1>5, <1>6 DEF PersistPrepared, PersistInitial, CompleteInitial

\* So do the events of the gateway when they are taken up.
LEMMA StartEventBase ==
    ASSUME Base, StartConnected \/ StartState
    PROVE  Base' /\ \E C \in SUBSET Ports : Revokes(C)
<1>1. PICK t : t \in {"connected", "state"} /\ Start(t) /\ (t = "connected" => StartConnected)
               /\ (t = "state" => StartState)
  BY DEF StartConnected, StartState
<1>2. /\ Head(queue) \in Event /\ Head(queue).type = t
      /\ queue' \in Seq(Event) /\ queue' \in Seq(Event \cup PrepareEvent)
      /\ closing \in {"open", "closing"}
      /\ \A w \in waiting : w.by = "adopt" /\ w.kind = "forward"
  BY <1>1, StartFacts
<1>3. /\ cur = None /\ closing' = closing /\ UNCHANGED <<registry, unsaved, persistFails>>
  BY <1>1 DEF Start, bounds
<1>4. ASSUME initial' \in {initial, "ready"}, Done, UNCHANGED <<forwards, gateway, relay>>
      PROVE  Base' /\ \E C \in SUBSET Ports : Revokes(C)
  <2>1. BrokerTypes' /\ CurFits'
    BY <1>2, <1>3, <1>4 DEF Base, Core, BrokerTypes, CurFits, Done, forwards
  <2>2. Base'
    BY <1>2, <1>3, <1>4, <2>1, BrokerOnlyBase DEF relay, Base, Core, RelayTypes
  <2>3. \A c \in Ports : Mapped(c)' = Mapped(c) /\ Granted(c)' = Granted(c)
    BY <1>4 DEF Mapped, Granted, forwards, gateway
  <2> QED
    BY <1>3, <1>4, <2>2, <2>3, KeepEffect DEF gateway, relay
<1>5. CASE t = "connected"
  BY <1>1, <1>4, <1>5 DEF StartConnected, CompleteInitial
<1>6. CASE t = "state"
  <2>1. PICK e : e = Head(queue)
    OBVIOUS
  <2>2. e.port \in Ports /\ e.state \in ForwardState /\ Remote(e.port) \in Keys
    BY <1>2, <1>6, <2>1, EventFacts, MutationFacts
  <2>3. CASE Done /\ UNCHANGED <<initial, forwards, gateway, relay>>
    BY <1>4, <2>3
  <2>4. CASE FailInitial
    <3>1. /\ registry' \in [Keys -> Entry \cup {None}] /\ unsaved' \in 0..MaxPersistFails
          /\ persistFails' \in Nat /\ unsaved' <= persistFails'
      BY <1>3 DEF Base, Core, BrokerTypes
    <3> QED
      BY <1>2, <1>3, <2>4, <3>1, FailInitialBase DEF Base
  <2>5. ASSUME managed[Remote(e.port)] # None,
               managed' = [managed EXCEPT ![Remote(e.port)].state = e.state],
               At(IF initial = "pending" THEN "persistInit" ELSE "persistRev", None),
               UNCHANGED <<initial, gens, openLocal, troubled, gateway, relay>>
        PROVE  Base' /\ \E C \in SUBSET Ports : Revokes(C)
    <3>1. managed' \in [Keys -> Entry \cup {None}]
      BY <2>2, <2>5, EntryChanged DEF Base, Core
    <3>2. cur' \in Mutation /\ cur'.step \in {"persistInit", "persistRev"}
      BY <2>5, MutationFacts DEF At, Steps
    <3>3. BrokerTypes' /\ CurFits'
      BY <1>2, <1>3, <2>5, <3>1, <3>2 DEF Base, Core, BrokerTypes, CurFits
    <3>4. Base'
      BY <1>2, <1>3, <2>5, <3>3, BrokerOnlyBase DEF relay, Base, Core, RelayTypes
    <3>5. \A c \in Ports : Mapped(c)' = Mapped(c)
      BY <2>2, <2>5, EntryEffect DEF Base, Core
    <3>6. \A c \in Ports : Granted(c)' = Granted(c)
      BY <2>5 DEF Granted, gateway
    <3> QED
      BY <1>3, <2>5, <3>4, <3>5, <3>6, KeepEffect DEF gateway, relay
  <2> QED
    BY <1>1, <1>6, <2>1, <2>3, <2>4, <2>5 DEF StartState
<1> QED
  BY <1>1, <1>5, <1>6

-----------------------------------------------------------------------------
(* The gateway. *)

\* A request that is awaited is of its port, and belongs to the mutation that runs
\* unless adoptControl made it.
LEMMA WaiterFacts ==
    ASSUME Core, NEW w \in waiting
    PROVE  /\ w \in Waiter /\ w.port \in Ports
           /\ w.kind = "unforward" => w.by = "broker"
           /\ w.by = "add" =>
                /\ cur = [step |-> "ack", key |-> Remote(w.port)] /\ cur # None
                /\ managed[Remote(w.port)] # None /\ table[w.port] # None
                /\ \A x \in waiting \ {w} : x.by = "adopt" /\ x.kind = "forward"
           /\ w.by = "broker" =>
                /\ cur # None /\ cur.step \in Stopping
                /\ \A x \in waiting : x.by # "add"
           /\ IsFiniteSet(waiting \ {w}) /\ waiting \ {w} \subseteq Waiter
<1>1. w \in Waiter /\ w.port \in Ports /\ w.by \in {"add", "adopt", "broker"}
  BY DEF Core, GatewayTypes, Waiter
<1>2. w.kind = "unforward" => w.by = "broker"
  BY <1>1 DEF Core, WaitFits
<1>3. IsFiniteSet(waiting \ {w}) /\ waiting \ {w} \subseteq Waiter
  BY FS_Subset DEF Core, GatewayTypes
<1>4. \A x \in waiting : x.by \in {"add", "adopt", "broker"}
  BY DEF Core, GatewayTypes, Waiter
<1>5. ASSUME w.by = "add"
      PROVE  /\ cur = [step |-> "ack", key |-> Remote(w.port)] /\ cur # None
             /\ managed[Remote(w.port)] # None /\ table[w.port] # None
             /\ \A x \in waiting \ {w} : x.by = "adopt" /\ x.kind = "forward"
  <2>1. cur = [step |-> "ack", key |-> Remote(w.port)]
    BY <1>5 DEF Core, WaitFits
  <2>2. cur # None /\ Remote(w.port) \in Keys /\ Remote(w.port)[2] = w.port
    BY <1>1, <2>1, MutationFacts DEF Steps
  <2>3. managed[Remote(w.port)] # None /\ table[w.port] # None
    BY <2>1, <2>2 DEF Core, CurFits
  <2>4. \A x \in waiting \ {w} : x.by # "add"
    BY <1>5 DEF Core, WaitFits
  <2>5. \A x \in waiting \ {w} : x.by # "broker"
    BY <2>1 DEF Core, WaitFits
  <2> QED
    BY <1>4, <2>1, <2>2, <2>3, <2>4, <2>5 DEF Core, WaitFits
<1>6. ASSUME w.by = "broker"
      PROVE  cur # None /\ cur.step \in Stopping /\ \A x \in waiting : x.by # "add"
  <2>1. cur \in [step : {"rollback", "unforward", "unforwardAll"}, key : {None}]
    BY <1>6 DEF Core, WaitFits
  <2>2. cur.step \in Stopping /\ cur \in Mutation
    BY <2>1 DEF Mutation, Steps, Stopping
  <2>3. \A x \in waiting : x.by # "add"
    BY <2>2 DEF Core, WaitFits, Stopping
  <2> QED
    BY <2>2, <2>3, PortForwardsAssumption
<1> QED
  BY <1>1, <1>2, <1>3, <1>5, <1>6

\* A permission that is settled keeps its place in the table.
LEMMA TableChanged ==
    ASSUME GatewayTypes, NEW c \in Ports, table[c] # None, NEW a \in BOOLEAN
    PROVE  LET t == [table EXCEPT ![c].active = a, ![c].establishing = FALSE]
           IN  t \in [Ports -> Resource \cup {None}] /\ t[c] # None /\ t[c].host = table[c].host
<1>1. table[c] \in Resource /\ table \in [Ports -> Resource \cup {None}] /\ None \notin Resource
  BY PortForwardsAssumption DEF GatewayTypes
<1>2. /\ [[table[c] EXCEPT !.active = a] EXCEPT !.establishing = FALSE] \in Resource
      /\ [[table[c] EXCEPT !.active = a] EXCEPT !.establishing = FALSE].host = table[c].host
  BY <1>1 DEF Resource
<1> QED
  BY <1>1, <1>2

\* The end of a request to close a listener keeps them.
LEMMA EndRequestBase ==
    ASSUME Base, NEW w \in waiting, w.kind = "unforward", EndRequest(w),
           UNCHANGED <<initial, forwards, queue, closing, registry, unsaved, persistFails,
                       table, streams>>,
           retired' \in [Ports -> SUBSET Nat], \A c \in Ports : IsFiniteSet(retired'[c]),
           RelayTypes'
    PROVE  Base'
<1>1. /\ w \in Waiter /\ w.port \in Ports /\ w.by = "broker"
      /\ cur # None /\ cur.step \in Stopping
      /\ \A x \in waiting : x.by # "add"
      /\ IsFiniteSet(waiting \ {w}) /\ waiting \ {w} \subseteq Waiter
  BY WaiterFacts DEF Base
<1>2. closing \in {"open", "closing"}
  BY <1>1, RunFacts DEF Base
<1>3. cur' \in Mutation \cup {None} /\ CurFits'
  <2>1. CASE cur' = cur
    BY <2>1 DEF Base, Core, BrokerTypes, CurFits, forwards
  <2>2. CASE cur' = AfterUnforward(cur.step)
    <3>0. \E s : s = cur.step
      OBVIOUS
    <3>1. PICK s : s = cur.step
      BY <3>0
    <3> QED
      BY <1>1, <2>2, <3>1, AfterUnforwardType DEF CurFits
  <2> QED
    BY <2>1, <2>2 DEF EndRequest
<1>4. BrokerTypes'
  BY <1>3 DEF Base, Core, BrokerTypes, forwards
<1>5. GatewayTypes'
  BY <1>1 DEF Base, Core, GatewayTypes, EndRequest
<1>6. WaitFits'
  <2>1. CASE \E x \in waiting \ {w} : x.by = "broker"
    BY <1>1, <2>1 DEF Base, Core, WaitFits, EndRequest
  <2>2. CASE ~\E x \in waiting \ {w} : x.by = "broker"
    BY <1>1, <2>2 DEF Base, Core, WaitFits, EndRequest
  <2> QED
    BY <2>1, <2>2
<1> QED
  BY <1>2, <1>3, <1>4, <1>5, <1>6 DEF Base, Core, ClosedFits

\* So does the answer that asks for the next listener, or ends the request.
LEMMA EndUnforwardBase ==
    ASSUME Base, NEW w \in waiting, w.kind = "unforward", Settled(w, TRUE), EndUnforward(w)
    PROVE  Base'
<1>0. Types
  BY TypesParts DEF Base, Core
<1>1. /\ w \in Waiter /\ w.port \in Ports /\ w.by = "broker"
      /\ cur # None /\ cur.step \in Stopping
      /\ \A x \in waiting : x.by # "add"
      /\ IsFiniteSet(waiting \ {w}) /\ waiting \ {w} \subseteq Waiter
  BY WaiterFacts DEF Base
<1>2. closing \in {"open", "closing"}
  BY <1>1, RunFacts DEF Base
<1>3. /\ UNCHANGED <<initial, forwards, queue, closing, registry, unsaved, persistFails,
                     table, streams, conn, fwd, limbo>>
      /\ answers' \subseteq answers
  BY DEF Settled, EndUnforward, bounds
<1>4. (\E l : l = retired[w.port] \ {w.token}) /\ (\E r : r = waiting \ {w})
      /\ (\E p : p = w.port)
  OBVIOUS
<1>5. PICK left, others, p : left = retired[w.port] \ {w.token} /\ others = waiting \ {w}
                             /\ p = w.port
  BY <1>4
<1>6. left \subseteq Nat /\ IsFiniteSet(left)
  BY <1>1, <1>5, FS_Subset DEF Base, Core, GatewayTypes
<1>7. retired' = [retired EXCEPT ![p] = left]
  BY <1>5 DEF EndUnforward
<1>8. retired' \in [Ports -> SUBSET Nat] /\ \A c \in Ports : IsFiniteSet(retired'[c])
  BY <1>1, <1>5, <1>6, <1>7 DEF Base, Core, GatewayTypes
<1>9. answers' \subseteq [port : Ports, id : Nat, ok : BOOLEAN] /\ IsFiniteSet(answers')
  BY <1>3, FS_Subset DEF Base, Core, RelayTypes
<1>10. CASE left = {}
  <2>1. EndRequest(w) /\ UNCHANGED toRelay
    BY <1>5, <1>10 DEF EndUnforward
  <2>2. RelayTypes'
    BY <1>3, <1>9, <2>1 DEF Base, Core, RelayTypes
  <2> QED
    BY <1>3, <1>8, <2>1, <2>2, EndRequestBase
<1>11. CASE left # {}
  <2> DEFINE T0 == [c \in {w.port} |-> CHOOSE t \in retired[w.port] \ {w.token} : TRUE]
  <2>a. T0 \in [{p} -> Nat]
    <3>1. retired[w.port] \ {w.token} # {} /\ retired[w.port] \ {w.token} \subseteq Nat
      BY <1>5, <1>6, <1>11
    <3> QED
      BY <1>5, <3>1
  <2> HIDE DEF T0
  <2>0. /\ \E T : T = T0
        /\ \E D : D = {p}
        /\ \E kind : kind = "unforward"
        /\ \E by : by = "broker"
    OBVIOUS
  <2>1. PICK T, D, kind, by : /\ T = T0
                              /\ D = {p} /\ kind = "unforward" /\ by = "broker"
    BY <2>0
  <2>2. T \in [D -> Nat]
    BY <2>1, <2>a
  <2>3. D \in SUBSET Ports /\ others \in SUBSET waiting
        /\ kind \in {"forward", "unforward"} /\ by \in {"add", "adopt", "broker"}
    BY <1>1, <1>5, <2>1
  <2>4. Send(kind, by, T, others) /\ cur' = cur
    <3>1. Send("unforward", "broker", T0, waiting \ {w}) /\ cur' = cur
      BY <1>5, <1>11 DEF EndUnforward, T0
    <3>2. Send("unforward", "broker", T, others)
      BY <1>5, <2>1, <3>1 DEF Send
    <3> QED
      BY <2>1, <3>1, <3>2
  <2>5. Sent(kind, by, D, others)
    BY <1>0, <2>2, <2>3, <2>4, SendFacts
  <2>6. /\ waiting' \subseteq Waiter /\ IsFiniteSet(waiting')
        /\ \A x \in waiting' : x \in waiting \/ (x.kind = "unforward" /\ x.by = "broker")
        /\ toRelay' \in Seq(Request \cup {Exit})
    BY <2>1, <2>3, <2>5 DEF Sent
  <2>7. WaitFits'
    BY <1>1, <2>4, <2>6 DEF Base, Core, WaitFits
  <2>8. BrokerTypes' /\ CurFits' /\ ClosedFits'
    BY <1>2, <1>3, <2>4 DEF Base, Core, BrokerTypes, forwards, CurFits, ClosedFits
  <2>9. GatewayTypes'
    BY <1>3, <1>8, <2>6 DEF Base, Core, GatewayTypes
  <2>10. RelayTypes'
    BY <1>3, <1>9, <2>6 DEF Base, Core, RelayTypes
  <2> QED
    BY <1>3, <2>7, <2>8, <2>9, <2>10 DEF Base, Core
<1> QED
  BY <1>10, <1>11

\* A request of adoptControl that ends keeps them.
LEMMA EndAdoptedBase ==
    ASSUME Base, NEW w \in waiting, w.by = "adopt", NEW state \in ForwardState,
           EndAdopted(w, state), answers' \subseteq answers,
           UNCHANGED <<initial, closing, registry, unsaved, persistFails, conn, fwd, limbo>>
    PROVE  Base'
<1>0. Types
  BY TypesParts DEF Base, Core
<1>1. /\ w.port \in Ports
      /\ IsFiniteSet(waiting \ {w}) /\ waiting \ {w} \subseteq Waiter
  BY WaiterFacts DEF Base
<1>2. UNCHANGED <<managed, gens, openLocal, cur, retired, streams, toRelay>>
      /\ waiting' = waiting \ {w}
  BY DEF EndAdopted
<1>3. /\ queue' \in Seq(Event)
      /\ closing \in {"closed", "shut"} => queue' = <<>>
  <2>1. CASE queue' = queue
    BY <2>1 DEF Base, Core, ClosedFits
  <2>2. CASE queue' = queue \o Report({w.port}, state)
    <3>1. /\ Report({w.port}, state) \in Seq(StateEvent)
          /\ closing # "open" => Report({w.port}, state) = <<>>
      BY <1>0, <1>1, ReportType
    <3>2. queue' \in Seq(Event)
      BY <2>2, <3>1, QueueFacts DEF Base
    <3>3. closing \in {"closed", "shut"} => queue' = <<>>
      BY <2>2, <3>1, ConcatEmptySeq DEF Base, Core, ClosedFits
    <3> QED
      BY <3>2, <3>3
  <2> QED
    BY <2>1, <2>2 DEF EndAdopted
<1>4. queue' \in Seq(Event \cup PrepareEvent)
  <2>0. \E q : q = queue'
    OBVIOUS
  <2>1. PICK q : q = queue'
    BY <2>0
  <2> QED
    BY <1>3, <2>1, QueueFacts
<1>5. troubled' \in [Ports -> BOOLEAN]
  BY <1>1 DEF Base, Core, BrokerTypes, EndAdopted
<1>6. BrokerTypes'
  BY <1>2, <1>4, <1>5 DEF Base, Core, BrokerTypes
<1>7. /\ table' \in [Ports -> Resource \cup {None}]
      /\ \A c \in Ports : table[c] # None => table'[c] # None
  <2>1. CASE table[w.port] # None /\ table[w.port].token = w.token
    <3>0. \E p : p = w.port
      OBVIOUS
    <3>1. PICK p, a : p = w.port /\ a = (state = "active")
      BY <3>0
    <3>2. table' = [table EXCEPT ![p].active = a, ![p].establishing = FALSE]
      BY <2>1, <3>1 DEF EndAdopted
    <3>3. a \in BOOLEAN /\ p \in Ports /\ table[p] # None
      BY <1>1, <2>1, <3>1
    <3>4. table' \in [Ports -> Resource \cup {None}] /\ table'[p] # None
      BY <3>2, <3>3, TableChanged DEF Base, Core
    <3>5. \A c \in Ports \ {p} : table'[c] = table[c]
      BY <3>2 DEF Base, Core, GatewayTypes
    <3> QED
      BY <3>4, <3>5
  <2>2. CASE ~(table[w.port] # None /\ table[w.port].token = w.token)
    BY <2>2 DEF Base, Core, GatewayTypes, EndAdopted
  <2> QED
    BY <2>1, <2>2
<1>8. GatewayTypes'
  BY <1>1, <1>2, <1>7 DEF Base, Core, GatewayTypes
<1>9. RelayTypes'
  <2>1. IsFiniteSet(answers')
    BY FS_Subset DEF Base, Core, RelayTypes
  <2> QED
    BY <1>2, <2>1 DEF Base, Core, RelayTypes
<1>10. CurFits'
  <2>1. cur # None /\ cur.step \in {"ensure", "ack"} => cur.key[2] \in Ports
    BY MutationFacts DEF Base, Core, CurFits
  <2> QED
    BY <1>2, <1>7, <2>1 DEF Base, Core, CurFits
<1>11. WaitFits'
  BY <1>2 DEF Base, Core, WaitFits
<1>12. ClosedFits'
  BY <1>2, <1>3 DEF Base, Core, ClosedFits
<1> QED
  BY <1>3, <1>6, <1>8, <1>9, <1>10, <1>11, <1>12 DEF Base, Core

\* So does the answer an add waits for.
LEMMA EndAddBase ==
    ASSUME Base, NEW w \in waiting, w.by = "add", Settled(w, TRUE), EndAdd(w)
    PROVE  Base'
<1>0. Types
  BY TypesParts DEF Base, Core
<1>1. /\ w.port \in Ports
      /\ cur = [step |-> "ack", key |-> Remote(w.port)] /\ cur # None
      /\ managed[Remote(w.port)] # None /\ table[w.port] # None
      /\ \A x \in waiting \ {w} : x.by = "adopt" /\ x.kind = "forward"
      /\ IsFiniteSet(waiting \ {w}) /\ waiting \ {w} \subseteq Waiter
  BY WaiterFacts DEF Base
<1>2. PICK p : p = w.port
  OBVIOUS
<1>3. p \in Ports /\ Remote(p) \in Keys /\ table[p] # None /\ managed[Remote(p)] # None
  BY <1>1, <1>2, MutationFacts
<1>4. closing \in {"open", "closing"}
  BY <1>1, RunFacts DEF Base
<1>5. UNCHANGED <<initial, closing, registry, unsaved, persistFails, conn, fwd, limbo, gens,
                  openLocal, troubled, retired, streams, toRelay>>
      /\ waiting' = waiting \ {w} /\ answers' \subseteq answers
  BY DEF Settled, EndAdd, bounds
<1>6. queue' \in Seq(Event) /\ queue' \in Seq(Event \cup PrepareEvent)
  <2>0. "active" \in ForwardState
    BY DEF ForwardState
  <2>1. Report({p}, "active") \in Seq(StateEvent)
    BY <1>0, <1>3, <2>0, ReportType
  <2>2. queue' = queue \o Report({p}, "active")
    BY <1>2 DEF EndAdd
  <2>3. queue' \in Seq(Event)
    BY <2>1, <2>2, QueueFacts DEF Base
  <2> QED
    BY <2>3, QueueFacts
<1>7. cur' \in Mutation /\ cur'.step = "persistAdd" /\ cur'.key = Remote(p)
  BY <1>1, <1>2, <1>3, MutationFacts DEF EndAdd, At, Steps
<1>8. managed' \in [Keys -> Entry \cup {None}] /\ managed'[Remote(p)] # None
  <2>1. "active" \in ForwardState
    BY DEF ForwardState
  <2>2. managed' = [managed EXCEPT ![Remote(p)].state = "active"]
    BY <1>2 DEF EndAdd
  <2> QED
    BY <1>3, <2>1, <2>2, EntryChanged DEF Base, Core
<1>9. table' \in [Ports -> Resource \cup {None}]
  <2>1. table' = [table EXCEPT ![p].active = TRUE, ![p].establishing = FALSE]
    BY <1>2 DEF EndAdd
  <2> QED
    BY <1>3, <2>1, TableChanged DEF Base, Core
<1>10. BrokerTypes'
  BY <1>5, <1>6, <1>7, <1>8 DEF Base, Core, BrokerTypes
<1>11. GatewayTypes'
  BY <1>1, <1>5, <1>9 DEF Base, Core, GatewayTypes
<1>12. RelayTypes'
  <2>1. IsFiniteSet(answers')
    BY <1>5, FS_Subset DEF Base, Core, RelayTypes
  <2> QED
    BY <1>5, <2>1 DEF Base, Core, RelayTypes
<1>13. CurFits' /\ WaitFits' /\ ClosedFits'
  BY <1>1, <1>3, <1>4, <1>5, <1>7, <1>8 DEF CurFits, WaitFits, ClosedFits
<1> QED
  BY <1>6, <1>10, <1>11, <1>12, <1>13 DEF Base, Core

\* So does an add the relay refuses or does not answer.
LEMMA RefusedBase ==
    ASSUME Base, NEW w \in waiting, w.by = "add", NEW state \in ForwardState,
           NEW unread \in SUBSET answers, AddFails(w.port, state, waiting \ {w}, unread),
           UNCHANGED <<initial, closing, registry, unsaved, persistFails>>
    PROVE  /\ Base'
           /\ Deleted({Remote(w.port)}) /\ Unforwarded({w.port}, "rollback", waiting \ {w})
<1>1. /\ w.port \in Ports /\ cur # None
      /\ \A x \in waiting \ {w} : x.by = "adopt" /\ x.kind = "forward"
  BY WaiterFacts DEF Base
<1>2. closing \in {"open", "closing"}
  BY <1>1, RunFacts DEF Base
<1>3. (\E others : others = waiting \ {w}) /\ (\E p : p = w.port)
  OBVIOUS
<1>4. PICK others, p : others = waiting \ {w} /\ p = w.port
  BY <1>3
<1>5. others \in SUBSET waiting /\ p \in Ports /\ \A x \in others : x.by = "adopt"
  BY <1>1, <1>4
<1>6. AddFails(p, state, others, unread)
  BY <1>4 DEF AddFails, Unforward, Send
<1>7. Base' /\ Deleted({Remote(p)}) /\ Unforwarded({p}, "rollback", others)
  BY <1>2, <1>5, <1>6, AddFailsBase
<1> QED
  BY <1>4, <1>7 DEF Unforwarded

\* Every end of a request keeps them.
LEMMA GatewayBase ==
    ASSUME Base, GatewayStep \/ LateAnswer
    PROVE  Base'
<1>1. ASSUME LateAnswer PROVE Base'
  <2>1. answers' \subseteq answers
    BY <1>1 DEF LateAnswer
  <2>2. IsFiniteSet(answers')
    BY <2>1, FS_Subset DEF Base, Core, RelayTypes
  <2>3. UNCHANGED <<initial, forwards, queue, cur, closing, registry, unsaved, gateway,
                    conn, toRelay, fwd, limbo, persistFails>>
    BY <1>1 DEF LateAnswer, bounds
  <2> QED
    BY <2>1, <2>2, <2>3 DEF Base, Core, BrokerTypes, GatewayTypes, RelayTypes, CurFits, WaitFits,
      ClosedFits, forwards, gateway
<1>2. ASSUME NEW w \in waiting, Answer(w) PROVE Base'
  <2>0. "active" \in ForwardState /\ "failed" \in ForwardState
    BY DEF ForwardState
  <2>1. CASE w.kind = "unforward" /\ Settled(w, TRUE) /\ EndUnforward(w)
    BY <2>1, EndUnforwardBase
  <2>2. ASSUME NEW ok \in BOOLEAN, w.by = "adopt", Settled(w, ok), NEW state \in ForwardState,
               EndAdopted(w, state)
        PROVE  Base'
    <3>1. answers' \subseteq answers
          /\ UNCHANGED <<initial, closing, registry, unsaved, persistFails, conn, fwd, limbo>>
      BY <2>2 DEF Settled, bounds
    <3> QED
      BY <2>2, <3>1, EndAdoptedBase
  <2>3. CASE w.by = "add" /\ Settled(w, TRUE) /\ EndAdd(w)
    BY <2>3, EndAddBase
  <2> QED
    BY <1>2, <2>0, <2>1, <2>2, <2>3 DEF Answer
<1>3. ASSUME NEW w \in waiting, AnswerRefused(w) PROVE Base'
  <2>0. (\E u : u = answers \ {[port |-> w.port, id |-> w.id, ok |-> FALSE]})
        /\ (\E s : s = "failed")
    OBVIOUS
  <2>1. PICK unread, s : unread = answers \ {[port |-> w.port, id |-> w.id, ok |-> FALSE]}
                         /\ s = "failed"
    BY <2>0
  <2>2. AddFails(w.port, s, waiting \ {w}, unread)
    BY <1>3, <2>1 DEF AnswerRefused, AddFails
  <2>3. /\ unread \in SUBSET answers /\ s \in ForwardState /\ w.by = "add"
        /\ UNCHANGED <<initial, closing, registry, unsaved, persistFails>>
    BY <1>3, <2>1 DEF AnswerRefused, bounds, ForwardState
  <2> QED
    BY <2>2, <2>3, RefusedBase
<1>4. ASSUME NEW w \in waiting, TimeOut(w) PROVE Base'
  <2>0. /\ UNCHANGED <<initial, closing, registry, unsaved, persistFails>>
        /\ "unavailable" \in ForwardState
    BY <1>4 DEF TimeOut, bounds, ForwardState
  <2>1. CASE /\ w.kind = "unforward"
             /\ EndRequest(w)
             /\ UNCHANGED <<forwards, queue, table, retired, streams, relay>>
    <3>1. RelayTypes' /\ retired' \in [Ports -> SUBSET Nat]
          /\ \A c \in Ports : IsFiniteSet(retired'[c])
      BY <2>1 DEF Base, Core, RelayTypes, GatewayTypes, relay
    <3> QED
      BY <2>0, <2>1, <3>1, EndRequestBase
  <2>2. CASE /\ w.by = "adopt"
             /\ EndAdopted(w, "unavailable")
             /\ UNCHANGED <<conn, answers, fwd, limbo>>
    BY <2>0, <2>2, EndAdoptedBase
  <2>3. CASE w.by = "add" /\ AddFails(w.port, "unavailable", waiting \ {w}, answers)
    <3>0. (\E u : u = answers) /\ (\E s : s = "unavailable")
      OBVIOUS
    <3>1. PICK unread, s : unread = answers /\ s = "unavailable"
      BY <3>0
    <3>2. AddFails(w.port, s, waiting \ {w}, unread)
      BY <2>3, <3>1 DEF AddFails
    <3>3. unread \in SUBSET answers /\ s \in ForwardState
      BY <2>0, <3>1
    <3> QED
      BY <2>0, <2>3, <3>2, <3>3, RefusedBase
  <2> QED
    BY <1>4, <2>1, <2>2, <2>3 DEF TimeOut
<1> QED
  BY <1>1, <1>2, <1>3, <1>4 DEF GatewayStep

\* What is left of the mappings and the permissions when the relay is lost: those of an
\* add that waited for it go.
Lost(C) ==
    /\ managed' = [k \in Keys |-> IF k \in {Remote(c) : c \in C} THEN None ELSE managed[k]]
    /\ table' \in [Ports -> Resource \cup {None}]
    /\ \A c \in Ports :
         /\ c \in C \/ table[c] = None => table'[c] = None
         /\ c \notin C /\ table[c] # None => table'[c] # None /\ table'[c].host = table[c].host
    /\ streams' = {} /\ conn' = FALSE

\* The loss of the relay keeps them.
LEMMA LoseRelayBase ==
    ASSUME Base, LoseRelay, UNCHANGED <<initial, registry, unsaved, persistFails>>,
           closing' = closing \/ (closing = "closed" /\ closing' = "shut")
    PROVE  /\ Base'
           /\ \E C \in SUBSET Ports :
                /\ Lost(C)
                /\ \A c \in C : table[c] # None
                /\ cur = None => C = {}
<1>0. Types
  BY TypesParts DEF Base, Core
<1> DEFINE adding == {w.port : w \in {x \in waiting : x.by = "add"}}
           asked == {w.port : w \in {x \in waiting : x.kind = "forward"
                     /\ table[x.port] # None /\ table[x.port].token = x.token}}
           listed == {c \in Ports : table[c] # None}
<1>1. (\E A : A = adding) /\ (\E D : D = asked) /\ (\E L : L = listed)
  OBVIOUS
<1>2. PICK A, D, L : A = adding /\ D = asked /\ L = listed
  BY <1>1
<1>3. /\ queue' = queue \o Report(L, "unavailable") \o Report(D, "unavailable")
      /\ managed' = [k \in Keys |-> IF k \in {Remote(c) : c \in A} THEN None ELSE managed[k]]
      /\ gens' = [c \in Ports |-> IF c \in A THEN None ELSE gens[c]]
      /\ troubled' = [c \in Ports |->
              c \notin A /\ (troubled[c] \/ (c \in L /\ gens[c] # None))]
      /\ table' = [c \in Ports |->
              IF c \in A \/ table[c] = None THEN None
              ELSE [table[c] EXCEPT !.active = FALSE,
                                    !.establishing = @ /\ c \notin D]]
      /\ retired' = [c \in Ports |-> IF c \in A THEN {table[c].token} ELSE {}]
      /\ cur' = IF A # {} THEN None
                  ELSE IF \E w \in waiting : w.kind = "unforward" THEN AfterUnforward(cur.step)
                  ELSE cur
      /\ waiting' = {} /\ streams' = {} /\ conn' = FALSE /\ toRelay' = <<>> /\ answers' = {}
      /\ fwd' = [c \in Ports |-> None] /\ limbo' = {} /\ UNCHANGED openLocal
  <2> HIDE DEF listed
  <2> QED
    BY <1>2 DEF LoseRelay, listed
<1>4. \A c \in A : c \in Ports /\ table[c] # None /\ cur # None
  BY <1>2, WaiterFacts DEF Base
<1>5. D \in SUBSET Ports /\ L \in SUBSET Ports /\ A \in SUBSET Ports
  <2>1. \A w \in waiting : w.port \in Ports
    BY WaiterFacts DEF Base
  <2>2. D \subseteq Ports
    BY <1>2, <2>1
  <2>3. L \subseteq Ports
    BY <1>2
  <2> QED
    BY <1>4, <2>2, <2>3
<1>6. A = {} /\ (\E w \in waiting : w.kind = "unforward") => cur # None /\ cur.step \in Stopping
  BY WaiterFacts DEF Base
<1> HIDE DEF adding, asked, listed
<1>7. /\ queue' \in Seq(Event) /\ queue' \in Seq(Event \cup PrepareEvent)
      /\ closing \in {"closed", "shut"} => queue' = <<>>
  <2>0. "unavailable" \in ForwardState
    BY DEF ForwardState
  <2>1. /\ Report(L, "unavailable") \in Seq(StateEvent)
        /\ closing # "open" => Report(L, "unavailable") = <<>>
    BY <1>0, <1>5, <2>0, ReportType
  <2>2. /\ Report(D, "unavailable") \in Seq(StateEvent)
        /\ closing # "open" => Report(D, "unavailable") = <<>>
    BY <1>0, <1>5, <2>0, ReportType
  <2>3. queue \o Report(L, "unavailable") \in Seq(Event)
    BY <2>1, QueueFacts DEF Base
  <2>4. queue' \in Seq(Event)
    BY <1>3, <2>2, <2>3, QueueFacts
  <2>5. closing \in {"closed", "shut"} => queue' = <<>>
    BY <1>3, <2>1, <2>2, ConcatEmptySeq, EmptySeq DEF Base, Core, ClosedFits
  <2> QED
    BY <2>4, <2>5, QueueFacts
<1>8. cur' \in Mutation \cup {None} /\ (cur' # None /\ cur' # cur =>
        cur'.step \in {"persistRev", "persistFail"})
  <2>1. CASE A = {} /\ \E w \in waiting : w.kind = "unforward"
    <3>0. \E s : s = cur.step
      OBVIOUS
    <3>1. PICK s : s = cur.step
      BY <3>0
    <3> QED
      BY <1>3, <1>6, <2>1, <3>1, AfterUnforwardType
  <2> QED
    BY <1>3, <2>1 DEF Base, Core, BrokerTypes
<1>9. BrokerTypes'
  <2>1. managed' \in [Keys -> Entry \cup {None}] /\ gens' \in [Ports -> Nat \cup {None}]
    BY <1>3 DEF Base, Core, BrokerTypes
  <2>2. troubled' \in [Ports -> BOOLEAN]
    BY <1>3 DEF Base, Core, BrokerTypes
  <2> QED
    BY <1>3, <1>7, <1>8, <2>1, <2>2 DEF Base, Core, BrokerTypes
<1>10. Lost(A)
  <2>1. ASSUME NEW c \in Ports, table[c] # None
        PROVE  /\ [[table[c] EXCEPT !.active = FALSE] EXCEPT !.establishing = @ /\ c \notin D]
                    \in Resource
               /\ [[table[c] EXCEPT !.active = FALSE] EXCEPT !.establishing = @ /\ c \notin D].host
                    = table[c].host
    BY <2>1 DEF Base, Core, GatewayTypes, Resource
  <2>2. None \notin Resource
    BY PortForwardsAssumption
  <2> DEFINE r(c) == [[table[c] EXCEPT !.active = FALSE] EXCEPT !.establishing = @ /\ c \notin D]
  <2>3. \A c \in Ports : table[c] # None => r(c) \in Resource /\ r(c).host = table[c].host
    BY <2>1
  <2>4. table' = [c \in Ports |-> IF c \in A \/ table[c] = None THEN None ELSE r(c)]
    BY <1>3
  <2> HIDE DEF r
  <2>5. table' \in [Ports -> Resource \cup {None}]
    BY <2>3, <2>4
  <2>6. \A c \in Ports :
         /\ c \in A \/ table[c] = None => table'[c] = None
         /\ c \notin A /\ table[c] # None => table'[c] # None /\ table'[c].host = table[c].host
    BY <2>2, <2>3, <2>4
  <2> QED
    BY <1>3, <2>5, <2>6 DEF Lost
<1>11. GatewayTypes'
  <2>1. \A c \in A : table[c].token \in Nat
    BY <1>4 DEF Base, Core, GatewayTypes, Resource
  <2>2. retired' \in [Ports -> SUBSET Nat] /\ \A c \in Ports : IsFiniteSet(retired'[c])
    <3>1. ASSUME NEW c \in Ports
          PROVE  /\ (IF c \in A THEN {table[c].token} ELSE {}) \in SUBSET Nat
                 /\ IsFiniteSet(IF c \in A THEN {table[c].token} ELSE {})
      BY <2>1, FS_EmptySet, FS_Singleton
    <3>2. retired' = [c \in Ports |-> IF c \in A THEN {table[c].token} ELSE {}]
      BY <1>3
    <3> QED
      BY <3>1, <3>2
  <2> QED
    BY <1>3, <1>10, <2>2, FS_EmptySet DEF GatewayTypes, Lost
<1>12. RelayTypes'
  BY <1>3, FS_EmptySet, EmptySeq DEF RelayTypes
<1>13. CurFits'
  <2>1. CASE cur' = cur /\ cur # None
    <3>1. A = {}
      BY <1>3, <2>1
    <3>2. managed' = managed
      BY <1>3, <3>1 DEF Base, Core, BrokerTypes
    <3>3. \A c \in Ports : table[c] # None => table'[c] # None
      BY <1>10, <3>1 DEF Lost
    <3>4. cur.step \in {"ensure", "ack"} => cur.key[2] \in Ports
      BY <2>1, MutationFacts DEF Base, Core, CurFits
    <3> QED
      BY <2>1, <3>2, <3>3, <3>4 DEF Base, Core, CurFits
  <2>2. CASE cur' # cur \/ cur' = None
    BY <1>8, <2>2 DEF CurFits
  <2> QED
    BY <2>1, <2>2
<1>14. WaitFits'
  BY <1>3 DEF WaitFits
<1>15. ClosedFits'
  <2>1. ASSUME closing \in {"closed", "shut"}
        PROVE  /\ cur' = None /\ \A k \in Keys : managed'[k] = None
               /\ \A c \in Ports : gens'[c] = None
    BY <1>3, <1>4, <1>6, <2>1 DEF Base, Core, ClosedFits
  <2> QED
    BY <1>3, <1>7, <2>1 DEF ClosedFits
<1> QED
  BY <1>4, <1>5, <1>7, <1>9, <1>10, <1>11, <1>12, <1>13, <1>14, <1>15 DEF Base, Core

\* What a new relay finds: the adds that wait for it, and the mappings the broker keeps.
Connected ==
    /\ table' \in [Ports -> Resource \cup {None}]
    /\ \A c \in Ports :
         \/ table[c] # None /\ table'[c] = table[c]
         \/ managed[Remote(c)] # None /\ table'[c] # None
            /\ table'[c].host = managed[Remote(c)].host
         \/ managed[Remote(c)] = None /\ table'[c] = None

\* A relay that connects keeps them.
LEMMA ConnectBase ==
    ASSUME Base, Connect
    PROVE  Base' /\ Connected
<1>0. Types
  BY TypesParts DEF Base, Core
<1> DEFINE own == {c \in Ports : table[c] # None /\ table[c].establishing}
           desired == {k[2] : k \in Managed("remote")} \ own
           new == [c \in Ports |-> [token |-> NewToken(c), host |-> managed[Remote(c)].host,
                                   active |-> FALSE, establishing |-> TRUE]]
           line == [c \in desired |-> [port |-> c, id |-> 1, kind |-> "forward",
                                       token |-> NewToken(c)]]
           wait == [c \in desired |-> [port |-> c, id |-> 1, kind |-> "forward",
                                       token |-> NewToken(c), by |-> "adopt"]]
<1>1. desired = {c \in Ports : managed[Remote(c)] # None} \ own
  <2>1. ASSUME NEW k \in Managed("remote") PROVE k[2] \in Ports /\ managed[Remote(k[2])] # None
    BY MutationFacts DEF Managed
  <2>2. ASSUME NEW c \in Ports, managed[Remote(c)] # None
        PROVE  c \in {k[2] : k \in Managed("remote")}
    <3>1. Remote(c) \in Managed("remote") /\ Remote(c)[2] = c
      BY <2>2, MutationFacts DEF Managed
    <3> QED
      BY <3>1
  <2> QED
    BY <2>1, <2>2
<1>2. /\ table' = [c \in Ports |-> IF c \in own THEN table[c]
                                   ELSE IF c \in desired THEN new[c] ELSE None]
      /\ conn' = TRUE
      /\ waiting' = {wait[c] : c \in desired}
      /\ toRelay' = SetToSeq({line[c] : c \in desired})
      /\ queue' = queue \o Report(desired, "pending") \o
                 (IF initial = "pending" /\ closing = "open" THEN <<[type |-> "connected"]>>
                  ELSE <<>>)
      /\ UNCHANGED <<initial, forwards, cur, closing, registry, unsaved, retired, streams,
                   answers, fwd, limbo, persistFails>>
      /\ closing # "shut"
  <2>1. desired \subseteq Ports
    BY <1>1
  <2> HIDE DEF desired, own
  <2>2. {wait[c] : c \in desired} = {[port |-> c, id |-> 1, kind |-> "forward",
                                      token |-> NewToken(c), by |-> "adopt"] : c \in desired}
    OBVIOUS
  <2>3. {line[c] : c \in desired} = {[port |-> c, id |-> 1, kind |-> "forward",
                                      token |-> NewToken(c)] : c \in desired}
    OBVIOUS
  <2> QED
    BY <2>1, <2>2, <2>3 DEF Connect, bounds, own, desired
<1> HIDE DEF desired
<1>3. \A c \in desired : c \in Ports /\ managed[Remote(c)] # None /\ new[c] \in Resource
  <2>1. \A c \in desired : c \in Ports /\ managed[Remote(c)] # None
    BY <1>1
  <2>2. \A c \in desired : managed[Remote(c)].host \in HostPorts /\ NewToken(c) \in Nat
    BY <1>0, <2>1, NameTypes, MutationFacts DEF Base, Core, BrokerTypes, Entry
  <2> QED
    BY <2>1, <2>2 DEF Resource
<1>4. IsFiniteSet(desired)
  BY <1>3, PortForwardsAssumption, FS_Subset
<1>5. table' \in [Ports -> Resource \cup {None}] /\ Connected
  <2>1. table' \in [Ports -> Resource \cup {None}]
    BY <1>2, <1>3 DEF Base, Core, GatewayTypes
  <2>2. None \notin Resource
    BY PortForwardsAssumption
  <2>3. ASSUME NEW c \in Ports
        PROVE  \/ table[c] # None /\ table'[c] = table[c]
               \/ managed[Remote(c)] # None /\ table'[c] # None
                  /\ table'[c].host = managed[Remote(c)].host
               \/ managed[Remote(c)] = None /\ table'[c] = None
    <3>1. CASE c \in own
      BY <1>2, <3>1
    <3>2. CASE c \in desired
      BY <1>1, <1>2, <1>3, <2>2, <3>2
    <3>3. CASE c \notin own /\ c \notin desired
      BY <1>1, <1>2, <3>3
    <3> QED
      BY <3>1, <3>2, <3>3
  <2> QED
    BY <2>1, <2>3 DEF Connected
<1>6. /\ waiting' \subseteq Waiter /\ IsFiniteSet(waiting')
      /\ \A w \in waiting' : w.by = "adopt" /\ w.kind = "forward"
  <2>1. wait \in Surjection(desired, {wait[c] : c \in desired})
    BY DEF Surjection
  <2>2. IsFiniteSet({wait[c] : c \in desired})
    <3> DEFINE W == {wait[c] : c \in desired}
    <3> HIDE DEF wait, W
    <3>1. wait \in Surjection(desired, W)
      BY <2>1 DEF W
    <3>2. IsFiniteSet(W)
      BY <1>4, <3>1, FS_Surjection
    <3> QED
      BY <3>2 DEF W
  <2>3. \A c \in desired : wait[c] \in Waiter /\ wait[c].by = "adopt" /\ wait[c].kind = "forward"
    BY <1>0, <1>3, NameTypes DEF Waiter
  <2> QED
    BY <1>2, <2>2, <2>3
<1>7. toRelay' \in Seq(Request \cup {Exit})
  <2> DEFINE M == {line[c] : c \in desired}
  <2>1. line \in Surjection(desired, M)
    BY DEF Surjection
  <2>2. M \subseteq Request
    <3>1. \A c \in desired : line[c] \in Request
      BY <1>0, <1>3, NameTypes DEF Request
    <3> HIDE DEF line
    <3> QED
      BY <3>1
  <2> HIDE DEF line, M
  <2>3. IsFiniteSet(M)
    BY <1>4, <2>1, FS_Surjection
  <2>4. SetToSeq(M) \in Seq(Request \cup {Exit})
    BY <2>2, <2>3, SetToSeqType, SeqMonotonic
  <2> QED
    BY <1>2, <2>4 DEF M
<1>8. /\ queue' \in Seq(Event) /\ queue' \in Seq(Event \cup PrepareEvent)
      /\ closing = "closed" => queue' = <<>>
  <2>0. "pending" \in ForwardState
    BY DEF ForwardState
  <2>1. /\ Report(desired, "pending") \in Seq(StateEvent)
        /\ closing # "open" => Report(desired, "pending") = <<>>
    BY <1>0, <1>3, <2>0, ReportType
  <2>2. queue \o Report(desired, "pending") \in Seq(Event)
    BY <2>1, QueueFacts DEF Base
  <2>3. (IF initial = "pending" /\ closing = "open" THEN <<[type |-> "connected"]>> ELSE <<>>)
          \in Seq(Event)
    <3>1. [type |-> "connected"] \in Event
      BY DEF Event
    <3>2. <<[type |-> "connected"]>> \in Seq(Event) /\ <<>> \in Seq(Event)
      BY <3>1, EmptySeq
    <3> QED
      BY <3>2
  <2>4. queue' \in Seq(Event)
    BY <1>2, <2>2, <2>3, ConcatProperties
  <2>5. closing = "closed" => queue' = <<>>
    BY <1>2, <2>1, ConcatEmptySeq, EmptySeq DEF Base, Core, ClosedFits
  <2> QED
    BY <2>4, <2>5, QueueFacts
<1>9. BrokerTypes' /\ RelayTypes' /\ GatewayTypes'
  BY <1>2, <1>5, <1>6, <1>7, <1>8 DEF Base, Core, BrokerTypes, RelayTypes, GatewayTypes, forwards
<1>10. CurFits'
  <2>1. ASSUME cur # None, cur.step \in {"ensure", "ack"}
        PROVE  table'[cur.key[2]] # None
    <3>1. /\ cur.key \in Keys /\ cur.key[2] \in Ports /\ cur.key = Remote(cur.key[2])
          /\ managed[cur.key] # None
      BY <2>1, MutationFacts DEF Base, Core, CurFits
    <3> QED
      BY <1>5, <3>1 DEF Connected
  <2> QED
    BY <1>2, <2>1 DEF Base, Core, CurFits, forwards
<1>11. WaitFits'
  BY <1>6 DEF WaitFits
<1>12. ClosedFits'
  BY <1>2, <1>8 DEF Base, Core, ClosedFits, forwards
<1> QED
  BY <1>5, <1>8, <1>9, <1>10, <1>11, <1>12 DEF Base, Core

-----------------------------------------------------------------------------
(* The relay, the streams, the callers and the end. *)

\* Steps that touch the relay alone keep them.
LEMMA RelayOnlyBase ==
    ASSUME Base, RelayOnly, RelayTypes'
    PROVE  Base'
BY DEF Base, Core, RelayOnly, BrokerTypes, GatewayTypes, CurFits, WaitFits, ClosedFits,
  forwards, gateway, bounds

\* The relay's own steps keep them.
LEMMA RelayBase ==
    ASSUME Base,
           RelayForward \/ RelayUnforward \/ RelayCancelled \/ \E c \in Ports : RelayListens(c)
    PROVE  Base'
<1> DEFINE AnswerSet == [port : Ports, id : Nat, ok : BOOLEAN]
<1>0. RelayTypes
  BY DEF Base, Core
<1>1. ASSUME NEW a \in AnswerSet, NEW b \in AnswerSet
      PROVE  /\ answers \cup {a} \subseteq AnswerSet /\ IsFiniteSet(answers \cup {a})
             /\ IsFiniteSet(answers \cup {a} \cup {b})
  BY <1>0, <1>1, FS_AddElement DEF RelayTypes
<1>2. ASSUME toRelay # <<>>, Head(toRelay).kind \in {"forward", "unforward"}
      PROVE  /\ Tail(toRelay) \in Seq(Request \cup {Exit})
             /\ Head(toRelay) \in Request
  <2>1. Head(toRelay) \in Request \cup {Exit} /\ Tail(toRelay) \in Seq(Request \cup {Exit})
    BY <1>0, <1>2, HeadTailProperties DEF RelayTypes
  <2>2. Head(toRelay) # Exit
    BY <1>2 DEF Exit
  <2> QED
    BY <2>1, <2>2
<1>3. \A c \in Ports : fwd[c] # None => fwd[c] \in Listener
  BY <1>0 DEF RelayTypes
<1>4. ASSUME RelayForward PROVE Base'
  <2>1. PICK m : m = Head(toRelay)
    OBVIOUS
  <2>2. m \in Request /\ m.port \in Ports /\ m.id \in Nat /\ m.token \in Nat
        /\ toRelay' \in Seq(Request \cup {Exit})
    BY <1>2, <1>4, <2>1 DEF RelayForward, Request
  <2>3. answers' \subseteq AnswerSet /\ IsFiniteSet(answers')
    <3>1. [port |-> m.port, id |-> m.id, ok |-> FALSE] \in AnswerSet
      BY <2>2
    <3> QED
      BY <1>0, <1>1, <1>4, <2>1, <3>1 DEF RelayForward, RelayTypes
  <2>4. fwd' \in [Ports -> Listener \cup {None}]
    <3>1. [token |-> m.token, id |-> m.id, ready |-> FALSE] \in Listener
      BY <2>2 DEF Listener
    <3> QED
      BY <1>0, <1>4, <2>1, <2>2, <3>1 DEF RelayForward, RelayTypes
  <2>5. RelayTypes'
    BY <1>0, <1>4, <2>2, <2>3, <2>4 DEF RelayForward, RelayOnly, RelayTypes
  <2> QED
    BY <1>4, <2>5, RelayOnlyBase DEF RelayForward
<1>5. ASSUME RelayUnforward PROVE Base'
  <2>1. PICK m : m = Head(toRelay)
    OBVIOUS
  <2>2. m \in Request /\ m.port \in Ports /\ m.id \in Nat /\ m.token \in Nat
        /\ toRelay' \in Seq(Request \cup {Exit})
    BY <1>2, <1>5, <2>1 DEF RelayUnforward, Request
  <2>3. answers' \subseteq AnswerSet /\ IsFiniteSet(answers')
    <3>1. [port |-> m.port, id |-> m.id, ok |-> TRUE] \in AnswerSet
      BY <2>2
    <3>2. answers' = answers \/ answers' = answers \cup {[port |-> m.port, id |-> m.id, ok |-> TRUE]}
      BY <1>5, <2>1 DEF RelayUnforward
    <3> QED
      BY <1>0, <1>1, <3>1, <3>2 DEF RelayTypes
  <2>4. fwd' \in [Ports -> Listener \cup {None}]
    BY <1>0, <1>5, <2>1, <2>2 DEF RelayUnforward, RelayTypes
  <2>6. limbo' \subseteq [port : Ports, id : Nat, removal : Nat] /\ IsFiniteSet(limbo')
    <3>1. CASE limbo' = limbo
      BY <1>0, <3>1 DEF RelayTypes
    <3>2. CASE /\ fwd[m.port] # None
               /\ limbo' = limbo \cup {[port |-> m.port, id |-> fwd[m.port].id, removal |-> m.id]}
      <4>1. fwd[m.port].id \in Nat
        BY <1>3, <2>2, <3>2 DEF Listener
      <4>2. IsFiniteSet(limbo')
        BY <1>0, <3>2, FS_AddElement DEF RelayTypes
      <4> QED
        BY <1>0, <2>2, <3>2, <4>1, <4>2 DEF RelayTypes
    <3> QED
      BY <1>5, <2>1, <3>1, <3>2 DEF RelayUnforward
  <2>5. RelayTypes'
    BY <1>0, <1>5, <2>2, <2>3, <2>4, <2>6 DEF RelayUnforward, RelayOnly, RelayTypes
  <2> QED
    BY <1>5, <2>5, RelayOnlyBase DEF RelayUnforward
<1>6. ASSUME RelayCancelled PROVE Base'
  <2>1. PICK x \in limbo :
          /\ limbo' = limbo \ {x}
          /\ \E failed \in {{}, {[port |-> x.port, id |-> x.id, ok |-> FALSE]}} :
               answers' = answers \cup failed
                            \cup {[port |-> x.port, id |-> x.removal, ok |-> TRUE]}
    BY <1>6 DEF RelayCancelled
  <2>2. x.port \in Ports /\ x.id \in Nat /\ x.removal \in Nat
    BY <1>0 DEF RelayTypes
  <2>3. PICK a, b : /\ a = [port |-> x.port, id |-> x.id, ok |-> FALSE]
                    /\ b = [port |-> x.port, id |-> x.removal, ok |-> TRUE]
    OBVIOUS
  <2>4. a \in AnswerSet /\ b \in AnswerSet
    BY <2>2, <2>3
  <2>5. answers' = answers \cup {b} \/ answers' = answers \cup {a} \cup {b}
    BY <2>1, <2>3
  <2>6. answers' \subseteq AnswerSet /\ IsFiniteSet(answers')
    BY <1>0, <1>1, <2>4, <2>5 DEF RelayTypes
  <2>7. limbo' \subseteq limbo /\ IsFiniteSet(limbo')
    BY <1>0, <2>1, FS_Subset DEF RelayTypes
  <2>8. RelayTypes'
    BY <1>0, <1>6, <2>6, <2>7 DEF RelayCancelled, RelayOnly, RelayTypes
  <2> QED
    BY <1>6, <2>8, RelayOnlyBase DEF RelayCancelled
<1>7. ASSUME NEW c \in Ports, RelayListens(c) PROVE Base'
  <2>1. fwd[c] \in Listener
    BY <1>3, <1>7 DEF RelayListens
  <2>2. PICK ok \in BOOLEAN :
          /\ answers' = answers \cup {[port |-> c, id |-> fwd[c].id, ok |-> ok]}
          /\ fwd' = IF ok THEN [fwd EXCEPT ![c].ready = TRUE, ![c].id = 0]
                          ELSE [fwd EXCEPT ![c] = None]
    BY <1>7 DEF RelayListens
  <2>3. [port |-> c, id |-> fwd[c].id, ok |-> ok] \in AnswerSet
    BY <2>1 DEF Listener
  <2>4. answers' \subseteq AnswerSet /\ IsFiniteSet(answers')
    BY <1>1, <2>2, <2>3
  <2>5. [[fwd[c] EXCEPT !.ready = TRUE] EXCEPT !.id = 0] \in Listener
    BY <2>1 DEF Listener
  <2>6. fwd' \in [Ports -> Listener \cup {None}]
    BY <1>0, <2>2, <2>5 DEF RelayTypes
  <2>7. RelayTypes'
    BY <1>0, <1>7, <2>4, <2>6 DEF RelayListens, RelayOnly, RelayTypes
  <2> QED
    BY <1>7, <2>7, RelayOnlyBase DEF RelayListens
<1> QED
  BY <1>4, <1>5, <1>6, <1>7

\* The clients of the relay keep them.
LEMMA StreamBase ==
    ASSUME Base, StreamEnds \/ \E c \in Ports : Accept(c)
    PROVE  Base'
<1>1. UNCHANGED <<initial, forwards, queue, cur, closing, registry, unsaved, table,
                  retired, waiting, relay, persistFails>>
  BY DEF StreamEnds, Accept, bounds
<1>2. streams' \subseteq [port : Ports, host : HostPorts]
  <2>1. CASE StreamEnds
    BY <2>1 DEF StreamEnds, Base, Core, GatewayTypes
  <2>2. ASSUME NEW c \in Ports, Accept(c)
        PROVE  streams' \subseteq [port : Ports, host : HostPorts]
    <3>1. table[c].host \in HostPorts
      BY <2>2 DEF Accept, Base, Core, GatewayTypes, Resource
    <3> QED
      BY <2>2, <3>1 DEF Accept, Base, Core, GatewayTypes
  <2> QED
    BY <2>1, <2>2
<1> QED
  BY <1>1, <1>2 DEF Base, Core, BrokerTypes, GatewayTypes, RelayTypes, CurFits, WaitFits,
    ClosedFits, forwards, relay

\* A call is queued while the session is open.
LEMMA CallBase ==
    ASSUME Base, AddPortForward \/ RemovePortForward
    PROVE  Base'
<1>1. ASSUME NEW op \in Event, Call(op) PROVE Base'
  <2>1. queue' \in Seq(Event) /\ queue' \in Seq(Event \cup PrepareEvent)
    <3>1. queue' = Append(queue, op)
      BY <1>1 DEF Call
    <3>2. queue' \in Seq(Event)
      BY <3>1, QueueFacts DEF Base
    <3> QED
      BY <3>2, QueueFacts
  <2>2. /\ closing = "open"
        /\ UNCHANGED <<initial, forwards, cur, closing, registry, unsaved, gateway, relay,
                       persistFails>>
    BY <1>1 DEF Call
  <2> QED
    BY <2>1, <2>2 DEF Base, Core, BrokerTypes, GatewayTypes, RelayTypes, CurFits, WaitFits,
      ClosedFits, forwards, gateway, relay
<1>2. ASSUME NEW k \in Keys, NEW host \in HostPorts \cup {AnyPort},
             host = AnyPort => k[1] = "local"
      PROVE  [type |-> "add", key |-> k, host |-> host] \in Event
  BY <1>2 DEF Event, AddEvent
<1>3. \A k \in Keys : [type |-> "remove", key |-> k] \in Event
  BY DEF Event
<1>4. \A host \in HostPorts : [type |-> "unbind", host |-> host] \in Event
  BY DEF Event
<1> QED
  BY <1>1, <1>2, <1>3, <1>4 DEF AddPortForward, RemovePortForward

\* The end of the broker, once nothing is queued, leaves nothing of it.
LEMMA CloseBrokerBase ==
    ASSUME Base, CloseBroker
    PROVE  Base' /\ Deleted(Keys)
<1>0. Types
  BY TypesParts DEF Base, Core
<1>1. PICK K : K = Keys
  OBVIOUS
<1>2. Deleted(K)
  BY <1>0, <1>1, DeleteFacts DEF CloseBroker
<1>3. /\ queue = <<>> /\ cur = None /\ closing' = "closed" /\ openLocal' = {}
      /\ UNCHANGED <<initial, queue, cur, registry, unsaved, gateway, relay, persistFails>>
  BY DEF CloseBroker, bounds
<1>4. BrokerTypes'
  BY <1>1, <1>2, <1>3 DEF Base, Core, BrokerTypes, Deleted
<1>5. \A k \in Keys : managed'[k] = None
  BY <1>1, <1>2 DEF Deleted
<1>6. \A c \in Ports : gens'[c] = None
  <2>1. \A c \in Ports : c \in {k[2] : k \in {e \in Keys : e[1] = "remote"}}
    <3>1. \A c \in Ports : Remote(c) \in Keys /\ Remote(c)[1] = "remote" /\ Remote(c)[2] = c
      BY MutationFacts
    <3> QED
      BY <3>1
  <2> QED
    BY <2>1 DEF CloseBroker, Delete
<1> QED
  BY <1>1, <1>2, <1>3, <1>4, <1>5, <1>6 DEF Base, Core, GatewayTypes, RelayTypes, CurFits,
    WaitFits, ClosedFits, gateway, relay

\* The initial forwards are entered, or fail.
LEMMA StartPrepareBase ==
    ASSUME Core, Fresh, StartPrepare
    PROVE  Base'
<1>1. PICK f \in InitialForwards : queue = <<[type |-> "prepare", entries |-> f]>>
  BY DEF Fresh
<1>2. queue' = <<>> /\ Head(queue).entries = f /\ queue # <<>>
  BY <1>1 DEF StartPrepare, Start
<1>3. queue' \in Seq(Event) /\ queue' \in Seq(Event \cup PrepareEvent)
  BY <1>2, EmptySeq
<1>4. /\ closing \in {"open", "closing"} /\ waiting = {}
      /\ UNCHANGED <<closing, registry, unsaved, persistFails>>
  BY <1>2 DEF Core, ClosedFits, BrokerTypes, StartPrepare, Start, bounds, Fresh
<1>5. PICK K \in SUBSET Keys : f \in [K -> Initial]
  BY PortForwardsAssumption
<1>6. ASSUME /\ managed' = [k \in Keys |-> IF k \notin DOMAIN f THEN None ELSE
                     [host |-> f[k].host, owners |-> f[k].owners,
                      state |-> IF k[1] = "local" THEN "active" ELSE "pending"]]
             /\ gens' = [c \in Ports |-> IF Remote(c) \in DOMAIN f THEN 1 ELSE None]
             /\ openLocal' = {c \in Ports : <<"local", c>> \in DOMAIN f}
             /\ At("persistPrep", None)
             /\ UNCHANGED <<initial, troubled, gateway, relay>>
      PROVE  Base'
  <2>1. \A k \in DOMAIN f : [host |-> f[k].host, owners |-> f[k].owners,
                             state |-> IF k[1] = "local" THEN "active" ELSE "pending"] \in Entry
    BY <1>5 DEF Initial, Entry, Owners, ForwardState
  <2>2. managed' \in [Keys -> Entry \cup {None}]
    BY <1>6, <2>1
  <2>3. gens' \in [Ports -> Nat \cup {None}] /\ openLocal' \subseteq Ports
    BY <1>6
  <2>4. cur' \in Mutation /\ cur'.step = "persistPrep"
    BY <1>6, MutationFacts DEF At, Steps
  <2>5. BrokerTypes' /\ CurFits'
    BY <1>3, <1>4, <1>6, <2>2, <2>3, <2>4 DEF Core, BrokerTypes, CurFits
  <2> QED
    BY <1>3, <1>4, <1>6, <2>5 DEF Base, Core, GatewayTypes, RelayTypes, WaitFits, ClosedFits,
      gateway, relay
<1>7. ASSUME FailInitial PROVE Base'
  <2>1. /\ registry' \in [Keys -> Entry \cup {None}] /\ unsaved' \in 0..MaxPersistFails
        /\ persistFails' \in Nat /\ unsaved' <= persistFails'
    BY <1>4 DEF Core, BrokerTypes
  <2> QED
    BY <1>3, <1>4, <1>7, <2>1, FailInitialBase
<1> QED
  BY <1>2, <1>6, <1>7 DEF StartPrepare

\* Until then nothing else can happen, but that the session ends.
LEMMA FreshStep ==
    ASSUME Core, Fresh, Next
    PROVE  StartPrepare \/ Close
<1>1. PICK f \in InitialForwards : queue = <<[type |-> "prepare", entries |-> f]>>
  BY DEF Fresh
<1>2. Head(queue).type = "prepare" /\ queue # <<>> /\ 1 \in DOMAIN queue /\ queue[1].type = "prepare"
  BY <1>1
<1>3. closing \in {"open", "closing"}
  BY <1>2 DEF Core, ClosedFits, BrokerTypes
<1>4. /\ cur = None /\ initial = "pending" /\ ~conn /\ waiting = {} /\ streams = {}
      /\ answers = {} /\ limbo = {} /\ toRelay = <<>>
      /\ \A c \in Ports : fwd[c] = None
  BY DEF Fresh
<1>5. ASSUME BrokerStep PROVE StartPrepare
  BY <1>2, <1>3, <1>4, <1>5 DEF BrokerStep, Start, Persisting, StartAdd, Pick, Listen, EnsureReady,
    EnsureFails, PersistAdd, PersistOwner, PersistRevocation, StartRemove, PersistPrepared,
    StartConnected, StartState, PersistInitial, PersistFailure, CloseBroker, CloseGateway
<1>6. ~GatewayStep /\ ~LateAnswer /\ ~StreamEnds
  BY <1>4 DEF GatewayStep, LateAnswer, StreamEnds
<1>7. ~RelayStep
  BY <1>4 DEF RelayStep, RelayForward, RelayUnforward, RelayCancelled, RelayExits, RelayListens
<1>8. ~Connect
  BY <1>2 DEF Connect
<1>9. ~Drop /\ ~AddPortForward /\ ~RemovePortForward /\ \A c \in Ports : ~Accept(c)
  BY <1>4 DEF Drop, AddPortForward, RemovePortForward, Call, Accept
<1> QED
  BY <1>5, <1>6, <1>7, <1>8, <1>9 DEF Next

\* Once the initial forwards are taken up, every step keeps them.
LEMMA NextBase ==
    ASSUME Base, Next
    PROVE  Base'
<1>1. ~StartPrepare
  <2>1. ASSUME StartPrepare PROVE FALSE
    <3>1. Start("prepare")
      BY <2>1 DEF StartPrepare
    <3>2. Head(queue) \in Event /\ Head(queue).type = "prepare"
      BY <3>1, StartFacts
    <3> QED
      BY <3>2, EventFacts
  <2> QED
    BY <2>1
<1>2. ASSUME Drop \/ RelayExits \/ CloseGateway PROVE Base'
  <2>1. LoseRelay /\ UNCHANGED <<initial, registry, unsaved, persistFails>>
        /\ (closing' = closing \/ (closing = "closed" /\ closing' = "shut"))
    BY <1>2 DEF Drop, RelayExits, CloseGateway, bounds
  <2> QED
    BY <2>1, LoseRelayBase
<1>3. ASSUME Close PROVE Base'
  BY <1>3 DEF Close, Base, Core, BrokerTypes, GatewayTypes, RelayTypes, CurFits, WaitFits,
    ClosedFits, forwards, gateway, relay, bounds
<1>4. ASSUME BrokerStep PROVE Base'
  BY <1>1, <1>2, <1>4, StartAddBase, LocalBase, EnsureReadyBase, EnsureFailsBase, PersistAddBase,
    PersistBase, StartRemoveBase, PersistInitialBase, StartEventBase, CloseBrokerBase
    DEF BrokerStep
<1>5. ASSUME RelayStep PROVE Base'
  BY <1>2, <1>5, RelayBase DEF RelayStep
<1> QED
  BY <1>2, <1>3, <1>4, <1>5, GatewayBase, ConnectBase, CallBase, StreamBase DEF Next

-----------------------------------------------------------------------------
(* What every step does to the mappings, the permissions and the streams. *)

\* A step that maps the ports of C, which were not mapped.
Maps(C) ==
    /\ closing \in {"open", "closing"}
    /\ \A c \in C : /\ Mapped(c) = None /\ Mapped(c)' \in HostPorts
                    /\ Granted(c)' = None \/ Granted(c)' = Mapped(c)'
    /\ \A c \in Ports \ C : Mapped(c)' = Mapped(c) /\ Granted(c)' = Granted(c)
    /\ UNCHANGED <<streams, conn, closing>>

\* A mutation that runs takes mappings back, or changes none.
LEMMA RunEffect ==
    ASSUME Base,
           \/ Pick \/ Listen \/ EnsureReady \/ EnsureFails
           \/ PersistOwner \/ PersistRevocation \/ PersistFailure
    PROVE  \E C \in SUBSET Ports : Revokes(C)
<1>0. Types
  BY TypesParts DEF Base, Core
<1>1. ASSUME Pick \/ Listen PROVE \E C \in SUBSET Ports : Revokes(C)
  <2>1. cur.key \in Keys /\ cur.key[1] = "local"
    BY <1>1 DEF Pick, Listen, Base, Core, CurFits
  <2>2. \A e \in Keys \ {cur.key} : managed'[e] = managed[e]
    BY <1>1, <2>1 DEF Pick, Listen, Insert, Delete, forwards, Base, Core, BrokerTypes
  <2>0. \E k : k = cur.key
    OBVIOUS
  <2>3. PICK k : k = cur.key
    BY <2>0
  <2>4. \A c \in Ports : Mapped(c)' = Mapped(c)
    BY <2>1, <2>2, <2>3, LocalEffect
  <2>5. \A c \in Ports : Granted(c)' = Granted(c)
    BY <1>1 DEF Pick, Listen, gateway, Granted
  <2> QED
    BY <1>1, <2>4, <2>5, KeepEffect DEF Pick, Listen, gateway, relay
<1>2. ASSUME EnsureReady \/ PersistRevocation \/ PersistFailure
      PROVE  \E C \in SUBSET Ports : Revokes(C)
  <2>1. UNCHANGED <<managed, table, streams, conn, closing>>
    BY <1>2 DEF EnsureReady, PersistRevocation, PersistFailure, Persisting, forwards, gateway, relay
  <2>2. \A c \in Ports : Mapped(c)' = Mapped(c) /\ Granted(c)' = Granted(c)
    BY <2>1 DEF Mapped, Granted
  <2> QED
    BY <2>1, <2>2, KeepEffect
<1>3. ASSUME PersistOwner PROVE \E C \in SUBSET Ports : Revokes(C)
  <2>1. cur.key \in Keys /\ managed[cur.key] # None
    BY <1>3 DEF Base, Core, CurFits, PersistOwner, Persisting
  <2>2. managed[cur.key].owners \ {"dynamic"} \in SUBSET Owners
    BY <2>1 DEF Base, Core, BrokerTypes, Entry
  <2>3. \A c \in Ports : Mapped(c)' = Mapped(c)
    <3>1. CASE managed' = managed
      BY <3>1 DEF Mapped
    <3>2. CASE managed' = [managed EXCEPT ![cur.key].owners = @ \ {"dynamic"}]
      <4>0. (\E k : k = cur.key) /\ (\E o : o = managed[cur.key].owners \ {"dynamic"})
        OBVIOUS
      <4>1. PICK k, o : k = cur.key /\ o = managed[cur.key].owners \ {"dynamic"}
        BY <4>0
      <4>2. managed' = [managed EXCEPT ![k].owners = o]
        BY <2>1, <3>2, <4>1
      <4>3. k \in Keys /\ managed[k] # None /\ o \in SUBSET Owners
        BY <2>1, <2>2, <4>1
      <4> QED
        BY <4>2, <4>3, EntryEffect DEF Base, Core
    <3> QED
      BY <1>3, <3>1, <3>2 DEF PersistOwner
  <2>4. \A c \in Ports : Granted(c)' = Granted(c)
    BY <1>3 DEF PersistOwner, gateway, Granted
  <2> QED
    BY <1>3, <2>3, <2>4, KeepEffect DEF PersistOwner, Persisting, gateway, relay
<1>4. ASSUME EnsureFails PROVE \E C \in SUBSET Ports : Revokes(C)
  <2>1. PICK c \in Ports : Deleted({Remote(c)}) /\ Unforwarded({c}, "rollback", waiting)
    BY <1>4, EnsureFailsBase
  <2>0. \E others : others = waiting
    OBVIOUS
  <2>2. PICK K, C, step, others : K = {Remote(c)} /\ C = {c} /\ step = "rollback"
                                  /\ others = waiting
    BY <2>0
  <2>3. /\ K \in SUBSET Keys /\ C \in SUBSET Ports
        /\ \A x \in C : Remote(x) \in K
        /\ \A x \in Ports : Remote(x) \in K => x \in C
    BY <2>2, MutationFacts
  <2>4. Deleted(K) /\ Unforwarded(C, step, others)
    BY <2>1, <2>2 DEF Unforwarded
  <2>5. closing' = closing
    BY <1>4 DEF EnsureFails
  <2>6. Revokes(C)
    BY <2>3, <2>4, <2>5, RevokeEffect
  <2> QED
    BY <2>3, <2>6
<1> QED
  BY <1>1, <1>2, <1>3, <1>4

\* So does the end of a request.
LEMMA GatewayEffect ==
    ASSUME Base, GatewayStep \/ LateAnswer
    PROVE  \E C \in SUBSET Ports : Revokes(C)
<1>1. ASSUME UNCHANGED <<managed, table, streams, conn, closing>>
      PROVE  \E C \in SUBSET Ports : Revokes(C)
  <2>1. \A c \in Ports : Mapped(c)' = Mapped(c) /\ Granted(c)' = Granted(c)
    BY <1>1 DEF Mapped, Granted
  <2> QED
    BY <1>1, <2>1, KeepEffect
<1>2. ASSUME LateAnswer PROVE \E C \in SUBSET Ports : Revokes(C)
  BY <1>1, <1>2 DEF LateAnswer, forwards, gateway
<1>3. ASSUME NEW p \in Ports, table[p] # None, NEW a \in BOOLEAN,
             table' = [table EXCEPT ![p].active = a, ![p].establishing = FALSE]
      PROVE  \A c \in Ports : Granted(c)' = Granted(c)
  <2>1. table'[p] # None /\ table'[p].host = table[p].host
    BY <1>3, TableChanged DEF Base, Core
  <2>2. \A c \in Ports \ {p} : table'[c] = table[c]
    BY <1>3 DEF Base, Core, GatewayTypes
  <2>3. Granted(p)' = Granted(p)
    BY <1>3, <2>1 DEF Granted
  <2>4. \A c \in Ports \ {p} : Granted(c)' = Granted(c)
    BY <2>2 DEF Granted
  <2> QED
    BY <2>3, <2>4
<1>4. ASSUME NEW w \in waiting, NEW state \in ForwardState, EndAdopted(w, state),
             UNCHANGED <<conn, closing>>
      PROVE  \E C \in SUBSET Ports : Revokes(C)
  <2>1. w.port \in Ports
    BY WaiterFacts DEF Base
  <2>2. \A c \in Ports : Granted(c)' = Granted(c)
    <3>1. CASE table[w.port] # None /\ table[w.port].token = w.token
      <4>1. PICK p, a : p = w.port /\ a = (state = "active")
        OBVIOUS
      <4>2. /\ table' = [table EXCEPT ![p].active = a, ![p].establishing = FALSE]
            /\ a \in BOOLEAN /\ p \in Ports /\ table[p] # None
        BY <1>4, <2>1, <3>1, <4>1 DEF EndAdopted
      <4> QED
        BY <1>3, <4>2
    <3>2. CASE ~(table[w.port] # None /\ table[w.port].token = w.token)
      BY <1>4, <3>2 DEF EndAdopted, Granted
    <3> QED
      BY <3>1, <3>2
  <2>3. managed' = managed /\ streams' = streams
    BY <1>4 DEF EndAdopted
  <2>4. \A c \in Ports : Mapped(c)' = Mapped(c)
    BY <2>3 DEF Mapped
  <2> QED
    BY <1>4, <2>2, <2>3, <2>4, KeepEffect
<1>5. ASSUME NEW w \in waiting, w.by = "add", Settled(w, TRUE), EndAdd(w)
      PROVE  \E C \in SUBSET Ports : Revokes(C)
  <2>1. w.port \in Ports /\ managed[Remote(w.port)] # None /\ table[w.port] # None
    BY <1>5, WaiterFacts DEF Base
  <2>2. PICK p : p = w.port
    OBVIOUS
  <2>3. p \in Ports /\ Remote(p) \in Keys /\ table[p] # None /\ managed[Remote(p)] # None
    BY <2>1, <2>2, MutationFacts
  <2>4. /\ table' = [table EXCEPT ![p].active = TRUE, ![p].establishing = FALSE]
        /\ managed' = [managed EXCEPT ![Remote(p)].state = "active"]
        /\ UNCHANGED <<streams, conn, closing>>
    BY <1>5, <2>2 DEF EndAdd, Settled
  <2>5. \A c \in Ports : Granted(c)' = Granted(c)
    BY <1>3, <2>3, <2>4
  <2>6. \A c \in Ports : Mapped(c)' = Mapped(c)
    <3>1. "active" \in ForwardState
      BY DEF ForwardState
    <3> QED
      BY <2>3, <2>4, <3>1, EntryEffect DEF Base, Core
  <2> QED
    BY <2>4, <2>5, <2>6, KeepEffect
<1>6. ASSUME NEW w \in waiting, w.by = "add", NEW state \in ForwardState,
             NEW unread \in SUBSET answers, AddFails(w.port, state, waiting \ {w}, unread),
             UNCHANGED <<initial, closing, registry, unsaved, persistFails>>
      PROVE  \E C \in SUBSET Ports : Revokes(C)
  <2>1. Deleted({Remote(w.port)}) /\ Unforwarded({w.port}, "rollback", waiting \ {w})
    BY <1>6, RefusedBase
  <2>0. w.port \in Ports /\ (\E others : others = waiting \ {w})
    BY WaiterFacts DEF Base
  <2>2. PICK K, C, step, others : K = {Remote(w.port)} /\ C = {w.port} /\ step = "rollback"
                                  /\ others = waiting \ {w}
    BY <2>0
  <2>3. /\ K \in SUBSET Keys /\ C \in SUBSET Ports
        /\ \A x \in C : Remote(x) \in K
        /\ \A x \in Ports : Remote(x) \in K => x \in C
    BY <2>0, <2>2, MutationFacts
  <2>4. Deleted(K) /\ Unforwarded(C, step, others)
    BY <2>1, <2>2 DEF Unforwarded
  <2>5. Revokes(C)
    BY <1>6, <2>3, <2>4, RevokeEffect
  <2> QED
    BY <2>3, <2>5
<1>7. "active" \in ForwardState /\ "failed" \in ForwardState /\ "unavailable" \in ForwardState
  BY DEF ForwardState
<1>8. ASSUME NEW w \in waiting, Answer(w) PROVE \E C \in SUBSET Ports : Revokes(C)
  <2>1. CASE w.kind = "unforward" /\ Settled(w, TRUE) /\ EndUnforward(w)
    BY <1>1, <2>1 DEF Settled, EndUnforward, forwards
  <2> QED
    BY <1>4, <1>5, <1>7, <1>8, <2>1 DEF Answer, Settled
<1>9. ASSUME NEW w \in waiting, AnswerRefused(w) PROVE \E C \in SUBSET Ports : Revokes(C)
  <2>0. (\E u : u = answers \ {[port |-> w.port, id |-> w.id, ok |-> FALSE]})
        /\ (\E s : s = "failed")
    OBVIOUS
  <2>1. PICK unread, s : unread = answers \ {[port |-> w.port, id |-> w.id, ok |-> FALSE]}
                         /\ s = "failed"
    BY <2>0
  <2>2. AddFails(w.port, s, waiting \ {w}, unread)
    BY <1>9, <2>1 DEF AnswerRefused, AddFails
  <2>3. /\ unread \in SUBSET answers /\ s \in ForwardState /\ w.by = "add"
        /\ UNCHANGED <<initial, closing, registry, unsaved, persistFails>>
    BY <1>7, <1>9, <2>1 DEF AnswerRefused, bounds
  <2> QED
    BY <1>6, <2>2, <2>3
<1>10. ASSUME NEW w \in waiting, TimeOut(w) PROVE \E C \in SUBSET Ports : Revokes(C)
  <2>1. CASE /\ w.kind = "unforward"
             /\ EndRequest(w)
             /\ UNCHANGED <<forwards, queue, table, retired, streams, relay>>
    BY <1>1, <1>10, <2>1 DEF TimeOut, forwards, relay
  <2>2. CASE w.by = "adopt" /\ EndAdopted(w, "unavailable") /\ UNCHANGED <<conn, answers, fwd, limbo>>
    BY <1>4, <1>7, <1>10, <2>2 DEF TimeOut
  <2>3. CASE w.by = "add" /\ AddFails(w.port, "unavailable", waiting \ {w}, answers)
    <3>0. (\E u : u = answers) /\ (\E s : s = "unavailable")
      OBVIOUS
    <3>1. PICK unread, s : unread = answers /\ s = "unavailable"
      BY <3>0
    <3>2. AddFails(w.port, s, waiting \ {w}, unread)
      BY <2>3, <3>1 DEF AddFails
    <3>3. /\ unread \in SUBSET answers /\ s \in ForwardState
          /\ UNCHANGED <<initial, closing, registry, unsaved, persistFails>>
      BY <1>7, <1>10, <3>1 DEF TimeOut, bounds
    <3> QED
      BY <1>6, <2>3, <3>2, <3>3
  <2> QED
    BY <1>10, <2>1, <2>2, <2>3 DEF TimeOut
<1> QED
  BY <1>2, <1>8, <1>9, <1>10 DEF GatewayStep

\* add maps a port, or changes no mapping.
LEMMA StartAddEffect ==
    ASSUME Base, StartAdd
    PROVE  \E C \in SUBSET Ports : Revokes(C) \/ Maps(C)
<1>0. Types
  BY TypesParts DEF Base, Core
<1>a. (\E k : k = Head(queue).key) /\ (\E host : host = Head(queue).host)
  OBVIOUS
<1>b. PICK k, host : k = Head(queue).key /\ host = Head(queue).host
  BY <1>a
<1>1. Start("add")
  BY DEF StartAdd
<1>2. /\ Head(queue) \in Event /\ Head(queue).type = "add"
      /\ closing \in {"open", "closing"}
  BY <1>1, StartFacts
<1>3. k \in Keys /\ host \in HostPorts \cup {AnyPort} /\ (host = AnyPort => k[1] = "local")
  BY <1>b, <1>2, EventFacts
<1>4. closing' = closing
  BY <1>1 DEF Start
<1>5. ASSUME UNCHANGED <<forwards, gateway, relay>>
      PROVE  \E C \in SUBSET Ports : Revokes(C)
  <2>1. \A c \in Ports : Mapped(c)' = Mapped(c) /\ Granted(c)' = Granted(c)
    BY <1>5 DEF Mapped, Granted, forwards, gateway
  <2> QED
    BY <1>4, <1>5, <2>1, KeepEffect DEF gateway, relay
<1>6. ASSUME managed[k] # None,
             managed' = [managed EXCEPT ![k].owners = @ \cup {"dynamic"}],
             UNCHANGED <<gens, openLocal, troubled, gateway, relay>>
      PROVE  \E C \in SUBSET Ports : Revokes(C)
  <2>0. \E o : o = managed[k].owners \cup {"dynamic"}
    OBVIOUS
  <2>1. PICK o : o = managed[k].owners \cup {"dynamic"}
    BY <2>0
  <2>2. o \in SUBSET Owners
    BY <1>3, <1>6, <2>1 DEF Base, Core, BrokerTypes, Entry, Owners
  <2>3. managed' = [managed EXCEPT ![k].owners = o]
    BY <1>3, <1>6, <2>1 DEF Base, Core, BrokerTypes
  <2>4. \A c \in Ports : Mapped(c)' = Mapped(c)
    BY <1>3, <1>6, <2>2, <2>3, EntryEffect DEF Base, Core
  <2>5. \A c \in Ports : Granted(c)' = Granted(c)
    BY <1>6 DEF Granted, gateway
  <2> QED
    BY <1>4, <1>6, <2>4, <2>5, KeepEffect DEF gateway, relay
<1>7. ASSUME k[1] = "local", Insert(k, host, "pending"),
             UNCHANGED <<table, openLocal, retired, waiting, streams, relay>>
      PROVE  \E C \in SUBSET Ports : Revokes(C)
  <2>1. \A e \in Keys \ {k} : managed'[e] = managed[e]
    BY <1>3, <1>7 DEF Insert, Base, Core, BrokerTypes
  <2>2. \A c \in Ports : Mapped(c)' = Mapped(c)
    BY <1>3, <1>7, <2>1, LocalEffect
  <2>3. \A c \in Ports : Granted(c)' = Granted(c)
    BY <1>7 DEF Granted
  <2> QED
    BY <1>4, <1>7, <2>2, <2>3, KeepEffect DEF relay
<1>8. ASSUME managed[k] = None, host # AnyPort, k[1] # "local", Insert(k, host, "pending"),
             table' = [table EXCEPT ![k[2]] =
                  [token |-> NewToken(k[2]), host |-> host, active |-> FALSE,
                   establishing |-> TRUE]],
             UNCHANGED <<openLocal, retired, waiting, streams, relay>>
      PROVE  \E C \in SUBSET Ports : Maps(C)
  <2>0. PICK p : p = k[2]
    OBVIOUS
  <2>1. p \in Ports /\ k = Remote(p)
    BY <1>3, <1>8, <2>0, MutationFacts
  <2>2. host \in HostPorts /\ "pending" \in ForwardState
    BY <1>3, <1>8 DEF ForwardState
  <2>3. Inserted(k, host)
    BY <1>0, <1>3, <1>8, <2>2, InsertFacts
  <2>4. [token |-> NewToken(p), host |-> host, active |-> FALSE, establishing |-> TRUE] \in Resource
    BY <1>0, <2>1, <2>2, NameTypes DEF Resource
  <2>5. table'[p] # None /\ table'[p].host = host /\ \A c \in Ports \ {p} : table'[c] = table[c]
    BY <1>8, <2>0, <2>1, <2>4, PortForwardsAssumption DEF Base, Core, GatewayTypes
  <2>6. \A c \in Ports \ {p} : Remote(c) \in Keys \ {k}
    BY <2>1, MutationFacts
  <2>7. Mapped(p) = None /\ Mapped(p)' = host /\ Granted(p)' = host
    BY <1>8, <2>1, <2>3, <2>5 DEF Mapped, Granted, Inserted
  <2>8. \A c \in Ports \ {p} : Mapped(c)' = Mapped(c) /\ Granted(c)' = Granted(c)
    BY <2>3, <2>5, <2>6 DEF Mapped, Granted, Inserted
  <2>9. Maps({p})
    BY <1>2, <1>4, <1>8, <2>2, <2>7, <2>8 DEF Maps, relay
  <2> QED
    BY <2>1, <2>9
<1> QED
  BY <1>b, <1>5, <1>6, <1>7, <1>8 DEF StartAdd, Insert

\* The initial forwards are mapped, or fail.
LEMMA StartPrepareEffect ==
    ASSUME Core, Fresh, StartPrepare
    PROVE  \E C \in SUBSET Ports : Revokes(C) \/ Maps(C)
<1>1. PICK f \in InitialForwards : queue = <<[type |-> "prepare", entries |-> f]>>
  BY DEF Fresh
<1>2. queue' = <<>> /\ Head(queue).entries = f /\ queue # <<>>
  BY <1>1 DEF StartPrepare, Start
<1>3. queue' \in Seq(Event)
  BY <1>2, EmptySeq
<1>4. /\ closing \in {"open", "closing"} /\ waiting = {}
      /\ UNCHANGED <<closing, registry, unsaved, persistFails>>
  BY <1>2 DEF Core, ClosedFits, BrokerTypes, StartPrepare, Start, bounds, Fresh
<1>5. PICK K \in SUBSET Keys : f \in [K -> Initial]
  BY PortForwardsAssumption
<1>6. ASSUME /\ managed' = [k \in Keys |-> IF k \notin DOMAIN f THEN None ELSE
                     [host |-> f[k].host, owners |-> f[k].owners,
                      state |-> IF k[1] = "local" THEN "active" ELSE "pending"]]
             /\ UNCHANGED <<gateway, relay>>
      PROVE  \E C \in SUBSET Ports : Maps(C)
  <2>1. \A k \in DOMAIN f : /\ [host |-> f[k].host, owners |-> f[k].owners,
                                state |-> IF k[1] = "local" THEN "active" ELSE "pending"] \in Entry
                            /\ f[k].host \in HostPorts
    BY <1>5 DEF Initial, Entry, Owners, ForwardState
  <2>2. None \notin Entry
    BY PortForwardsAssumption
  <2>3. \A k \in Keys : /\ k \in DOMAIN f => managed'[k] # None /\ managed'[k].host \in HostPorts
                        /\ k \notin DOMAIN f => managed'[k] = None
    BY <1>6, <2>1, <2>2
  <2>4. \A c \in Ports : Remote(c) \in Keys /\ managed[Remote(c)] = None /\ table[c] = None
    BY MutationFacts DEF Fresh
  <2> DEFINE C == {c \in Ports : Remote(c) \in DOMAIN f}
  <2>5. \A c \in C : Mapped(c) = None /\ Mapped(c)' \in HostPorts /\ Granted(c)' = None
    BY <1>6, <2>3, <2>4 DEF Mapped, Granted, gateway
  <2>6. \A c \in Ports \ C : Mapped(c)' = Mapped(c) /\ Granted(c)' = Granted(c)
    BY <1>6, <2>3, <2>4 DEF Mapped, Granted, gateway
  <2> HIDE DEF C
  <2>7. Maps(C)
    BY <1>4, <1>6, <2>5, <2>6 DEF Maps, gateway, relay
  <2> QED
    BY <2>7 DEF C
<1>7. ASSUME FailInitial PROVE \E C \in SUBSET Ports : Revokes(C)
  <2>1. /\ registry' \in [Keys -> Entry \cup {None}] /\ unsaved' \in 0..MaxPersistFails
        /\ persistFails' \in Nat /\ unsaved' <= persistFails'
    BY <1>4 DEF Core, BrokerTypes
  <2> QED
    BY <1>3, <1>4, <1>7, <2>1, FailInitialBase
<1> QED
  BY <1>2, <1>6, <1>7 DEF StartPrepare

\* The loss of the relay ends every stream, and takes an add back that waited for it.
LEMMA LossEffect ==
    ASSUME Base, Drop \/ RelayExits
    PROVE  \E C \in SUBSET Ports : Revokes(C)
<1>1. LoseRelay /\ UNCHANGED <<initial, closing, registry, unsaved, persistFails>>
  BY DEF Drop, RelayExits, bounds
<1>2. PICK C \in SUBSET Ports : Lost(C)
  BY <1>1, LoseRelayBase
<1>3. \A c \in Ports : Remote(c) \in Keys /\ (Remote(c) \in {Remote(d) : d \in C} <=> c \in C)
  BY MutationFacts
<1>4. \A c \in Ports : managed'[Remote(c)] = IF c \in C THEN None ELSE managed[Remote(c)]
  BY <1>2, <1>3 DEF Lost
<1>5. \A c \in C : Mapped(c)' = None /\ Granted(c)' = None
  BY <1>2, <1>4 DEF Lost, Mapped, Granted
<1>6. ASSUME NEW c \in Ports \ C PROVE Mapped(c)' = Mapped(c) /\ Granted(c)' = Granted(c)
  <2>1. Mapped(c)' = Mapped(c)
    BY <1>4 DEF Mapped
  <2>2. /\ table[c] = None => table'[c] = None
        /\ table[c] # None => table'[c] # None /\ table'[c].host = table[c].host
    BY <1>2 DEF Lost
  <2> QED
    BY <2>1, <2>2 DEF Granted
<1>7. Revokes(C)
  BY <1>1, <1>2, <1>5, <1>6 DEF Revokes, Lost
<1> QED
  BY <1>7

\* The relay, the callers and the end of a stream change no mapping.
LEMMA QuietEffect ==
    ASSUME Base,
           \/ RelayForward \/ RelayUnforward \/ RelayCancelled \/ \E c \in Ports : RelayListens(c)
           \/ AddPortForward \/ RemovePortForward \/ StreamEnds
    PROVE  \E C \in SUBSET Ports : Revokes(C)
<1>1. UNCHANGED <<managed, table, conn, closing>> /\ streams' \subseteq streams
  BY DEF RelayForward, RelayUnforward, RelayCancelled, RelayListens, RelayOnly, AddPortForward,
    RemovePortForward, Call, StreamEnds, forwards, gateway, relay
<1>2. \A c \in Ports : Mapped(c)' = Mapped(c) /\ Granted(c)' = Granted(c)
  BY <1>1 DEF Mapped, Granted
<1> QED
  BY <1>1, <1>2, KeepEffect

-----------------------------------------------------------------------------
(* What follows for the permissions, and for the promise of PortPermissions. *)

Inv == Core /\ PrepareFits /\ PermissionIsManaged /\ StreamsFit

\* The permissions and the streams, in terms of host ports.
GrantsFit == \A c \in Ports :
    Granted(c) # None /\ closing \in {"open", "closing"} => Mapped(c) = Granted(c)
CutsFit == \A s \in streams : conn /\ Granted(s.port) = s.host

\* A host port is none that is missing.
LEMMA HostFacts ==
    ASSUME BrokerTypes, GatewayTypes
    PROVE  /\ \A h \in HostPorts : h # None
           /\ \A c \in Ports : /\ Mapped(c) \in HostPorts \cup {None}
                               /\ managed[Remote(c)] # None <=> Mapped(c) # None
                               /\ Granted(c) \in HostPorts \cup {None}
                               /\ table[c] # None <=> Granted(c) # None
<1>1. \A h \in HostPorts : h # None
  BY PortForwardsAssumption
<1>2. \A c \in Ports : /\ Mapped(c) \in HostPorts \cup {None}
                       /\ managed[Remote(c)] # None <=> Mapped(c) # None
  BY <1>1, MutationFacts DEF BrokerTypes, Entry, Mapped
<1>3. \A c \in Ports : /\ Granted(c) \in HostPorts \cup {None}
                       /\ table[c] # None <=> Granted(c) # None
  BY <1>1 DEF GatewayTypes, Resource, Granted
<1> QED
  BY <1>1, <1>2, <1>3

\* The two invariants, so put.
LEMMA FitForms ==
    ASSUME BrokerTypes, GatewayTypes
    PROVE  (PermissionIsManaged <=> GrantsFit) /\ (StreamsFit <=> CutsFit)
<1>1. PermissionIsManaged <=> GrantsFit
  <2>1. ASSUME NEW c \in Ports, table[c] # None
        PROVE  Mapped(c) = Granted(c) <=> /\ managed[Remote(c)] # None
                                          /\ managed[Remote(c)].host = table[c].host
    <3>1. Granted(c) = table[c].host /\ Granted(c) # None
      BY <2>1, HostFacts DEF Granted
    <3>2. managed[Remote(c)] = None => Mapped(c) = None
      BY DEF Mapped
    <3>3. managed[Remote(c)] # None => Mapped(c) = managed[Remote(c)].host
      BY DEF Mapped
    <3> QED
      BY <3>1, <3>2, <3>3
  <2>2. \A c \in Ports : table[c] # None <=> Granted(c) # None
    BY HostFacts
  <2> QED
    BY <2>1, <2>2 DEF PermissionIsManaged, GrantsFit
<1>2. StreamsFit <=> CutsFit
  <2>1. ASSUME NEW s \in streams
        PROVE  Granted(s.port) = s.host <=> table[s.port] # None /\ table[s.port].host = s.host
    <3>1. s.port \in Ports /\ s.host # None
      BY HostFacts DEF GatewayTypes
    <3> QED
      BY <3>1 DEF Granted
  <2> QED
    BY <2>1 DEF StreamsFit, CutsFit
<1> QED
  BY <1>1, <1>2

\* The same after a step.
LEMMA FitFormsNext ==
    ASSUME BrokerTypes', GatewayTypes', GrantsFit', CutsFit'
    PROVE  PermissionIsManaged' /\ StreamsFit'
<1>1. \A h \in HostPorts : h # None
  BY PortForwardsAssumption
<1>2. ASSUME NEW c \in Ports, table'[c] # None, closing' \in {"open", "closing"}
      PROVE  managed'[Remote(c)] # None /\ managed'[Remote(c)].host = table'[c].host
  <2>1. Granted(c)' = table'[c].host /\ Granted(c)' # None
    BY <1>1, <1>2 DEF Granted, GatewayTypes, Resource
  <2>2. Mapped(c)' = Granted(c)'
    BY <1>2, <2>1 DEF GrantsFit
  <2> QED
    BY <2>1, <2>2 DEF Mapped
<1>3. ASSUME NEW s \in streams'
      PROVE  conn' /\ table'[s.port] # None /\ table'[s.port].host = s.host
  <2>1. s.port \in Ports /\ s.host # None
    BY <1>1, <1>3 DEF GatewayTypes
  <2>2. conn' /\ Granted(s.port)' = s.host
    BY <1>3 DEF CutsFit
  <2> QED
    BY <2>1, <2>2 DEF Granted
<1> QED
  BY <1>2, <1>3 DEF PermissionIsManaged, StreamsFit

\* What is promised of a port: its mapping, and while the gateway outlives the broker its
\* permission.
LEMMA WantedForm ==
    ASSUME BrokerTypes, GatewayTypes
    PROVE  Wanted = [c \in Ports |-> IF Mapped(c) # None THEN Mapped(c)
                                     ELSE IF closing = "closed" THEN Granted(c) ELSE None]
<1>1. ASSUME NEW c \in Ports
      PROVE  Wanted[c] = IF Mapped(c) # None THEN Mapped(c)
                         ELSE IF closing = "closed" THEN Granted(c) ELSE None
  BY HostFacts DEF Wanted, Mapped, Granted
<1>2. Wanted = [c \in Ports |-> Wanted[c]]
  BY DEF Wanted
<1> QED
  BY <1>1, <1>2

\* The same after a step.
LEMMA WantedNext ==
    ASSUME BrokerTypes', GatewayTypes'
    PROVE  Wanted' = [c \in Ports |-> IF Mapped(c)' # None THEN Mapped(c)'
                                      ELSE IF closing' = "closed" THEN Granted(c)' ELSE None]
<1>1. \A h \in HostPorts : h # None
  BY PortForwardsAssumption
<1>2. \A c \in Ports : managed'[Remote(c)] # None <=> Mapped(c)' # None
  BY <1>1, MutationFacts DEF BrokerTypes, Entry, Mapped
<1>3. ASSUME NEW c \in Ports
      PROVE  Wanted'[c] = IF Mapped(c)' # None THEN Mapped(c)'
                         ELSE IF closing' = "closed" THEN Granted(c)' ELSE None
  BY <1>2 DEF Wanted, Mapped, Granted
<1>4. Wanted' = [c \in Ports |-> Wanted'[c]]
  BY DEF Wanted
<1> QED
  BY <1>3, <1>4

\* Taking mappings back.
LEMMA RevokeStep ==
    ASSUME Core, GrantsFit, CutsFit, Base', NEW C \in SUBSET Ports, Revokes(C)
    PROVE  GrantsFit' /\ CutsFit' /\ Permissions!Revoke(C)
<1>1. GrantsFit'
  BY DEF GrantsFit, Revokes
<1>2. CutsFit'
  <2>1. ASSUME NEW s \in streams' PROVE conn' /\ Granted(s.port)' = s.host
    <3>1. s \in streams /\ s.port \notin C /\ conn' = conn
      BY <2>1 DEF Revokes
    <3>2. s.port \in Ports
      BY <3>1 DEF Core, GatewayTypes
    <3>3. Granted(s.port)' = Granted(s.port)
      BY <3>1, <3>2 DEF Revokes
    <3> QED
      BY <3>1, <3>3 DEF CutsFit
  <2> QED
    BY <2>1 DEF CutsFit
<1>3. Wanted' = [c \in Ports |-> IF c \in C THEN None ELSE Wanted[c]]
  <2>1. Wanted = [c \in Ports |-> IF Mapped(c) # None THEN Mapped(c)
                                  ELSE IF closing = "closed" THEN Granted(c) ELSE None]
    BY WantedForm DEF Core
  <2>2. Wanted' = [c \in Ports |-> IF Mapped(c)' # None THEN Mapped(c)'
                                   ELSE IF closing' = "closed" THEN Granted(c)' ELSE None]
    BY WantedNext DEF Base, Core
  <2> QED
    BY <2>1, <2>2 DEF Revokes
<1> QED
  BY <1>1, <1>2, <1>3 DEF Permissions!Revoke, Revokes

\* Making mappings.
LEMMA MapStep ==
    ASSUME Core, GrantsFit, CutsFit, Base', NEW C \in SUBSET Ports, Maps(C)
    PROVE  GrantsFit' /\ CutsFit' /\ Permissions!Map(C)
<1>1. GrantsFit'
  BY DEF GrantsFit, Maps
<1>2. CutsFit'
  <2>1. ASSUME NEW s \in streams' PROVE conn' /\ Granted(s.port)' = s.host
    <3>1. s \in streams /\ conn' = conn /\ s.port \in Ports /\ s.host \in HostPorts
      BY <2>1 DEF Maps, Core, GatewayTypes
    <3>2. conn /\ Granted(s.port) = s.host /\ s.host # None
      BY <3>1, HostFacts DEF CutsFit, Core
    <3>3. Mapped(s.port) # None
      BY <3>1, <3>2 DEF GrantsFit, Maps
    <3>4. Granted(s.port)' = Granted(s.port)
      BY <3>1, <3>3 DEF Maps
    <3> QED
      BY <3>1, <3>2, <3>4
  <2> QED
    BY <2>1 DEF CutsFit
<1>3. Wanted = [c \in Ports |-> IF Mapped(c) # None THEN Mapped(c) ELSE None]
  BY WantedForm DEF Core, Maps
<1>4. Wanted' = [c \in Ports |-> IF Mapped(c)' # None THEN Mapped(c)' ELSE None]
  BY WantedNext DEF Base, Core, Maps
<1>5. \A c \in C : Wanted[c] = None
  BY <1>3 DEF Maps
<1>6. \E f \in [C -> HostPorts] :
        Wanted' = [c \in Ports |-> IF c \in C THEN f[c] ELSE Wanted[c]]
  <2>0. \E f : f = [c \in C |-> Mapped(c)']
    OBVIOUS
  <2>1. PICK f : f = [c \in C |-> Mapped(c)']
    BY <2>0
  <2>2. f \in [C -> HostPorts]
    BY <2>1 DEF Maps
  <2>3. \A c \in Ports : Wanted'[c] = IF c \in C THEN f[c] ELSE Wanted[c]
    BY <1>3, <1>4, <2>1 DEF Maps
  <2>4. Wanted' = [c \in Ports |-> Wanted'[c]]
    BY DEF Wanted
  <2>5. Wanted' = [c \in Ports |-> IF c \in C THEN f[c] ELSE Wanted[c]]
    BY <2>3, <2>4
  <2> QED
    BY <2>2, <2>5
<1> QED
  BY <1>1, <1>2, <1>5, <1>6 DEF Permissions!Map, Maps

\* A new relay asks for what the broker keeps; it finds no stream.
LEMMA ConnectStep ==
    ASSUME Base, GrantsFit, CutsFit, Base', Connect, Connected
    PROVE  GrantsFit' /\ CutsFit' /\ [Permissions!Next]_Permissions!vars
<1>1. /\ ~conn /\ closing # "shut"
      /\ UNCHANGED <<managed, streams, closing>>
  BY DEF Connect, forwards
<1>2. streams = {}
  BY <1>1 DEF CutsFit
<1>3. \A c \in Ports : Mapped(c)' = Mapped(c)
  BY <1>1 DEF Mapped
<1>4. ASSUME NEW c \in Ports
      PROVE  \/ Granted(c) # None /\ Granted(c)' = Granted(c)
             \/ Mapped(c) # None /\ Granted(c)' = Mapped(c)
             \/ Mapped(c) = None /\ Granted(c)' = None
  <2>1. CASE table[c] # None /\ table'[c] = table[c]
    <3>1. Granted(c) # None
      BY <2>1, HostFacts DEF Base, Core
    <3> QED
      BY <2>1, <3>1 DEF Granted
  <2>2. CASE managed[Remote(c)] # None /\ table'[c] # None
             /\ table'[c].host = managed[Remote(c)].host
    <3>1. Mapped(c) # None
      BY <2>2, HostFacts DEF Base, Core
    <3>2. Granted(c)' = table'[c].host
      BY <2>2 DEF Granted
    <3>3. Mapped(c) = managed[Remote(c)].host
      BY <2>2 DEF Mapped
    <3> QED
      BY <2>2, <3>1, <3>2, <3>3
  <2>3. CASE managed[Remote(c)] = None /\ table'[c] = None
    BY <2>3 DEF Mapped, Granted
  <2> QED
    BY <2>1, <2>2, <2>3 DEF Connected
<1>5. GrantsFit'
  BY <1>1, <1>3, <1>4 DEF GrantsFit
<1>6. CutsFit'
  BY <1>1, <1>2 DEF CutsFit
<1>7. Wanted = [c \in Ports |-> IF Mapped(c) # None THEN Mapped(c)
                                  ELSE IF closing = "closed" THEN Granted(c) ELSE None]
  BY WantedForm DEF Base, Core
<1>8. Wanted' = [c \in Ports |-> IF Mapped(c)' # None THEN Mapped(c)'
                                   ELSE IF closing' = "closed" THEN Granted(c)' ELSE None]
  BY WantedNext DEF Base, Core
<1>9. CASE closing # "closed"
  <2>1. Wanted' = Wanted
    BY <1>1, <1>3, <1>7, <1>8, <1>9
  <2> QED
    BY <1>1, <1>5, <1>6, <2>1 DEF Permissions!vars
<1>10. CASE closing = "closed"
  <2>1. \A c \in Ports : Mapped(c) = None
    BY <1>10, MutationFacts DEF Mapped, Base, Core, ClosedFits
  <2> DEFINE C == {c \in Ports : Granted(c)' = None}
  <2>2. \A c \in Ports : Wanted[c] = Granted(c) /\ Wanted'[c] = Granted(c)'
    BY <1>1, <1>3, <1>7, <1>8, <1>10, <2>1
  <2>3. \A c \in Ports : Granted(c)' = IF c \in C THEN None ELSE Granted(c)
    BY <1>4, <2>1
  <2>4. Wanted' = [c \in Ports |-> Wanted'[c]]
    BY DEF Wanted
  <2> HIDE DEF C
  <2>5. Wanted' = [c \in Ports |-> IF c \in C THEN None ELSE Wanted[c]]
    BY <2>2, <2>3, <2>4
  <2>6. Permissions!Revoke(C)
    BY <1>1, <1>2, <2>5 DEF Permissions!Revoke
  <2>7. C \in SUBSET Ports
    BY DEF C
  <2> QED
    BY <1>5, <1>6, <2>6, <2>7 DEF Permissions!Next
<1> QED
  BY <1>9, <1>10

\* A client is let through along a mapping that stands.
LEMMA AcceptStep ==
    ASSUME Base, GrantsFit, CutsFit, Base', NEW c \in Ports, Accept(c)
    PROVE  GrantsFit' /\ CutsFit' /\ Permissions!Open(c)
<1>1. /\ conn /\ table[c] # None
      /\ streams' = streams \cup {[port |-> c, host |-> table[c].host]}
      /\ UNCHANGED <<managed, table, conn, closing>>
  BY DEF Accept, forwards, relay
<1>2. \A x \in Ports : Mapped(x)' = Mapped(x) /\ Granted(x)' = Granted(x)
  BY <1>1 DEF Mapped, Granted
<1>3. GrantsFit'
  BY <1>1, <1>2 DEF GrantsFit
<1>4. Granted(c) = table[c].host /\ Granted(c) # None
  BY <1>1, HostFacts DEF Granted, Base, Core
<1>5. CutsFit'
  <2>1. ASSUME NEW s \in streams' PROVE conn' /\ Granted(s.port)' = s.host
    <3>1. CASE s \in streams
      <4>1. s.port \in Ports
        BY <3>1 DEF Base, Core, GatewayTypes
      <4> QED
        BY <1>1, <1>2, <3>1, <4>1 DEF CutsFit
    <3>2. CASE s = [port |-> c, host |-> table[c].host]
      BY <1>1, <1>2, <1>4, <3>2
    <3> QED
      BY <1>1, <2>1, <3>1, <3>2
  <2> QED
    BY <2>1 DEF CutsFit
<1>6. closing # "shut"
  BY <1>1 DEF Base, Core, ClosedFits
<1>7. Wanted = [x \in Ports |-> IF Mapped(x) # None THEN Mapped(x)
                                  ELSE IF closing = "closed" THEN Granted(x) ELSE None]
  BY WantedForm DEF Base, Core
<1>8. Wanted[c] = Granted(c)
  <2>1. CASE closing \in {"open", "closing"}
    BY <1>4, <1>7, <2>1 DEF GrantsFit
  <2>2. CASE closing = "closed"
    <3>1. Mapped(c) = None
      BY <2>2, MutationFacts DEF Mapped, Base, Core, ClosedFits
    <3> QED
      BY <1>7, <2>2, <3>1
  <2> QED
    BY <1>6, <2>1, <2>2 DEF Base, Core, BrokerTypes
<1>9. Wanted' = Wanted
  BY <1>1 DEF Wanted
<1> QED
  BY <1>1, <1>3, <1>4, <1>5, <1>8, <1>9 DEF Permissions!Open

\* The end of the broker leaves what the gateway still grants, the end of the gateway nothing.
LEMMA CloseStep ==
    ASSUME Base, GrantsFit, CutsFit, Base', CloseBroker \/ CloseGateway
    PROVE  GrantsFit' /\ CutsFit' /\ [Permissions!Next]_Permissions!vars
<1>1. Wanted = [c \in Ports |-> IF Mapped(c) # None THEN Mapped(c)
                                  ELSE IF closing = "closed" THEN Granted(c) ELSE None]
  BY WantedForm DEF Base, Core
<1>2. Wanted' = [c \in Ports |-> IF Mapped(c)' # None THEN Mapped(c)'
                                   ELSE IF closing' = "closed" THEN Granted(c)' ELSE None]
  BY WantedNext DEF Base, Core
<1>3. closing' \in {"closed", "shut"}
  BY DEF CloseBroker, CloseGateway
<1>4. GrantsFit'
  BY <1>3 DEF GrantsFit
<1>5. \A c \in Ports : Mapped(c)' = None
  <2>1. \A k \in Keys : managed'[k] = None
    BY <1>3 DEF Base, Core, ClosedFits
  <2> QED
    BY <2>1, MutationFacts DEF Mapped
<1>6. ASSUME CloseBroker PROVE CutsFit' /\ [Permissions!Next]_Permissions!vars
  <2>1. closing = "closing" /\ closing' = "closed" /\ UNCHANGED <<table, streams, conn>>
    BY <1>6 DEF CloseBroker, gateway, relay
  <2>2. \A c \in Ports : Granted(c)' = Granted(c)
    BY <2>1 DEF Granted
  <2>3. CutsFit'
    <3>1. \A s \in streams : s.port \in Ports
      BY DEF Base, Core, GatewayTypes
    <3> QED
      BY <2>1, <2>2, <3>1 DEF CutsFit
  <2> DEFINE C == {c \in Ports : Granted(c) = None}
  <2>4. \A c \in Ports : Wanted'[c] = IF c \in C THEN None ELSE Wanted[c]
    <3>1. \A c \in Ports : Wanted[c] = Mapped(c) /\ Wanted'[c] = Granted(c)
      BY <1>1, <1>2, <1>5, <2>1, <2>2
    <3>2. \A c \in Ports : Granted(c) # None => Mapped(c) = Granted(c)
      BY <2>1 DEF GrantsFit
    <3> QED
      BY <3>1, <3>2
  <2>5. Wanted' = [c \in Ports |-> Wanted'[c]]
    BY DEF Wanted
  <2>6. \A s \in streams : s.port \notin C
    <3>1. \A s \in streams : s.host \in HostPorts /\ Granted(s.port) = s.host
      BY DEF Base, Core, GatewayTypes, CutsFit
    <3>2. \A h \in HostPorts : h # None
      BY PortForwardsAssumption
    <3> QED
      BY <3>1, <3>2
  <2> HIDE DEF C
  <2>7. Wanted' = [c \in Ports |-> IF c \in C THEN None ELSE Wanted[c]]
    BY <2>4, <2>5
  <2>8. Permissions!Revoke(C)
    BY <2>1, <2>6, <2>7 DEF Permissions!Revoke
  <2>9. C \in SUBSET Ports
    BY DEF C
  <2> QED
    BY <2>3, <2>8, <2>9 DEF Permissions!Next
<1>7. ASSUME CloseGateway PROVE CutsFit' /\ [Permissions!Next]_Permissions!vars
  <2>1. closing' = "shut" /\ streams' = {}
    BY <1>7 DEF CloseGateway, LoseRelay
  <2>2. Wanted' = [c \in Ports |-> IF c \in Ports THEN None ELSE Wanted[c]]
    BY <1>2, <1>5, <2>1
  <2>3. Permissions!Revoke(Ports)
    BY <2>1, <2>2 DEF Permissions!Revoke
  <2> QED
    BY <2>1, <2>3 DEF CutsFit, Permissions!Next
<1> QED
  BY <1>4, <1>6, <1>7

\* Every step keeps the permissions in bounds and is a step of PortPermissions.
LEMMA NextSafe ==
    ASSUME Inv, [Next]_vars
    PROVE  Inv' /\ [Permissions!Next]_Permissions!vars
<1>1. CASE UNCHANGED vars
  <2>1. Core' /\ PrepareFits'
    BY <1>1 DEF Inv, Core, BrokerTypes, GatewayTypes, RelayTypes, CurFits, WaitFits, ClosedFits,
      PrepareFits, Fresh, vars, forwards, gateway, relay, bounds
  <2>2. PermissionIsManaged' /\ StreamsFit'
    BY <1>1 DEF Inv, PermissionIsManaged, StreamsFit, vars, forwards, gateway, relay
  <2>3. UNCHANGED Permissions!vars
    BY <1>1 DEF Permissions!vars, Wanted, vars, forwards, gateway
  <2> QED
    BY <2>1, <2>2, <2>3 DEF Inv
<1>2. GrantsFit /\ CutsFit
  BY FitForms DEF Inv, Core
<1>3. ASSUME Base', GrantsFit', CutsFit' PROVE Inv'
  BY <1>3, FitFormsNext DEF Inv, Base, Core, PrepareFits
<1>4. ASSUME Base', \E C \in SUBSET Ports : Revokes(C) \/ Maps(C)
      PROVE  Inv' /\ [Permissions!Next]_Permissions!vars
  BY <1>2, <1>3, <1>4, RevokeStep, MapStep DEF Inv, Permissions!Next
<1>5. CASE Close
  <2>1. /\ closing = "open" /\ closing' = "closing"
        /\ UNCHANGED <<initial, forwards, queue, cur, registry, unsaved, gateway, relay, bounds>>
    BY <1>5 DEF Close
  <2>2. Core' /\ PrepareFits'
    BY <2>1 DEF Inv, Core, BrokerTypes, GatewayTypes, RelayTypes, CurFits, WaitFits, ClosedFits,
      PrepareFits, Fresh, forwards, gateway, relay, bounds
  <2>3. PermissionIsManaged' /\ StreamsFit'
    BY <2>1 DEF Inv, PermissionIsManaged, StreamsFit, forwards, gateway, relay
  <2>4. UNCHANGED Permissions!vars
    BY <2>1 DEF Permissions!vars, Wanted, forwards, gateway
  <2> QED
    BY <2>2, <2>3, <2>4 DEF Inv
<1>6. CASE Next /\ Fresh /\ ~Close
  <2>1. StartPrepare
    BY <1>6, FreshStep DEF Inv
  <2> QED
    BY <1>4, <1>6, <2>1, StartPrepareBase, StartPrepareEffect DEF Inv
<1>7. CASE Next /\ Base /\ ~Close
  <2>0. Base'
    BY <1>7, NextBase
  <2>1. CASE Connect
    <3>1. Connected
      BY <1>7, <2>1, ConnectBase
    <3> QED
      BY <1>2, <1>3, <1>7, <2>0, <2>1, <3>1, ConnectStep
  <2>2. ASSUME NEW c \in Ports, Accept(c) PROVE Inv' /\ [Permissions!Next]_Permissions!vars
    BY <1>2, <1>3, <1>7, <2>0, <2>2, AcceptStep DEF Permissions!Next
  <2>3. CASE CloseBroker \/ CloseGateway
    BY <1>2, <1>3, <1>7, <2>0, <2>3, CloseStep
  <2>4. ~StartPrepare
    <3>1. ASSUME StartPrepare PROVE FALSE
      <4>1. Start("prepare")
        BY <3>1 DEF StartPrepare
      <4>2. Head(queue) \in Event /\ Head(queue).type = "prepare"
        BY <1>7, <4>1, StartFacts
      <4> QED
        BY <4>2, EventFacts
    <3> QED
      BY <3>1
  <2>5. CASE BrokerStep
    BY <1>4, <1>7, <2>0, <2>3, <2>4, <2>5, StartAddEffect, RunEffect, PersistAddBase,
      StartRemoveBase, PersistInitialBase, StartEventBase DEF BrokerStep
  <2>6. CASE RelayStep \/ Drop \/ AddPortForward \/ RemovePortForward \/ StreamEnds
    BY <1>4, <1>7, <2>0, <2>6, LossEffect, QuietEffect DEF RelayStep
  <2>7. CASE GatewayStep \/ LateAnswer
    BY <1>4, <1>7, <2>0, <2>7, GatewayEffect
  <2> QED
    BY <1>7, <2>1, <2>2, <2>3, <2>5, <2>6, <2>7 DEF Next
<1> QED
  BY <1>1, <1>5, <1>6, <1>7 DEF Inv, Base, PrepareFits

\* The session starts with its initial forwards queued and nothing else.
LEMMA InitSafe ==
    ASSUME Init
    PROVE  Inv /\ Permissions!Init
<1>1. PICK f \in InitialForwards : queue = <<[type |-> "prepare", entries |-> f]>>
  BY DEF Init
<1>2. queue \in Seq(Event \cup PrepareEvent)
  <2>1. [type |-> "prepare", entries |-> f] \in Event \cup PrepareEvent
    BY DEF PrepareEvent
  <2> QED
    BY <1>1, <2>1
<1>3. BrokerTypes
  BY <1>2, PortForwardsAssumption DEF Init, BrokerTypes
<1>4. GatewayTypes /\ RelayTypes
  BY FS_EmptySet, EmptySeq DEF Init, GatewayTypes, RelayTypes
<1>5. CurFits /\ WaitFits /\ ClosedFits /\ PermissionIsManaged /\ StreamsFit
  BY DEF Init, CurFits, WaitFits, ClosedFits, PermissionIsManaged, StreamsFit
<1>6. Fresh
  BY <1>1 DEF Init, Fresh
<1>7. Permissions!Init
  <2>1. \A c \in Ports : managed[Remote(c)] = None /\ table[c] = None
    BY MutationFacts DEF Init
  <2> QED
    BY <2>1 DEF Init, Permissions!Init, Wanted
<1> QED
  BY <1>3, <1>4, <1>5, <1>6, <1>7 DEF Inv, Core, PrepareFits

-----------------------------------------------------------------------------
(* The theorems. *)

\* The invariant on which everything rests: the types, the running mutation with its
\* mapping and its requests, the closed broker, and the permissions.
THEOREM InvariantHolds == Spec => []Inv
<1>1. Init => Inv
  BY InitSafe
<1>2. Inv /\ [Next]_vars => Inv'
  BY NextSafe
<1> QED
  BY <1>1, <1>2, PTL DEF Spec

\* Every variable of the broker, the gateway and the relay keeps its type, whatever the
\* relay answers, however often it is lost and whichever writes of the registry fail.
THEOREM TypeCorrect == Spec => []TypeOK
<1>1. Inv => TypeOK
  BY TypesParts DEF Inv, Core, Types
<1> QED
  BY <1>1, InvariantHolds, PTL

\* The gateway never grants a port that the broker does not map, nor another host port
\* than the broker's: not while an add is rolled back, not after a removal whose listener
\* the relay did not confirm, not for a relay that connects anew.
THEOREM PermissionManaged == Spec => []PermissionIsManaged
<1>1. Inv => PermissionIsManaged
  BY DEF Inv
<1> QED
  BY <1>1, InvariantHolds, PTL

\* The broker, the gateway and the relay together implement PortPermissions: a stream is
\* opened only along a mapping that stands, and the step that takes a mapping back cuts
\* every stream that was opened through it.
THEOREM PermissionsKept == Spec => KeepsPermissions
<1>1. Init => Permissions!Init
  BY InitSafe
<1>2. Inv /\ [Next]_vars => [Permissions!Next]_Permissions!vars
  BY NextSafe
<1> QED
  BY <1>1, <1>2, InvariantHolds, PTL DEF Spec, KeepsPermissions, Permissions!Spec
=============================================================================
