---------------------- MODULE PortForwardsBrokerProofs ----------------------
(***************************************************************************)
(* More theorems about PortForwards, for any ports, initial forwards and   *)
(* bounds, on top of the invariant of PortForwardsProofs: what the registry*)
(* lists of the mappings, that a state shown for a mapping is its own and  *)
(* the latest one, that the gateway knows every listener of the relay, and *)
(* that the mappings have no loop.                                         *)
(***************************************************************************)
EXTENDS PortForwardsProofs, WellFoundedInduction

-----------------------------------------------------------------------------
(* The registry. *)

\* The registry lists the mappings as they are, but for K.
Same(K) == \A k \in Keys \ K : registry[k] = managed[k]

\* What the registry lists while a mutation runs.  An add that is not saved yet is
\* missing, an owner that is not saved yet too; a removal, a state or the initial forwards
\* are on their way to a write, and a second write of a removal follows a failed one.
Lists ==
    IF cur = None THEN Same({})
    ELSE /\ cur.step \in {"pick", "rollback"} => Same({})
         /\ cur.step \in {"listen", "ensure", "ack", "persistAdd"} =>
              Same({cur.key}) /\ registry[cur.key] = None
         /\ cur.step = "persistOwner" =>
              /\ Same({cur.key})
              /\ registry[cur.key] = [managed[cur.key] EXCEPT !.owners = @ \ {"dynamic"}]
         /\ cur.step = "retry" => unsaved > 0

\* A port is picked for a mapping that is not there, and only failInitial clears them all;
\* and the registry is behind only after two failed writes, or once the initial forwards
\* failed or the broker closed.
RegistryFits ==
    /\ cur # None /\ cur.step = "pick" => managed[cur.key] = None
    /\ cur # None /\ cur.step \in {"unforwardAll", "persistFail"} => initial = "failed"
    /\ initial # "failed" /\ closing \in {"open", "closing"} => unsaved > 1 \/ Lists

\* Steps that end in a write, or in the failure of the initial forwards.
Writing == {"unforward", "persistRev", "persistInit", "persistPrep", "unforwardAll",
            "persistFail"}

\* Nothing is asked of the registry before such a write.
LEMMA RegistryWrites ==
    ASSUME cur' # None, cur'.step \in Writing,
           cur'.step \in {"unforwardAll", "persistFail"} => initial' = "failed"
    PROVE  RegistryFits'
BY DEF RegistryFits, Lists, Writing

\* After a write, or with nothing left to write, it lists the mappings.
LEMMA RegistrySettles ==
    ASSUME cur' = None, \A k \in Keys : registry'[k] = managed'[k]
    PROVE  RegistryFits'
BY DEF RegistryFits, Lists, Same

\* A step that changes neither mappings nor mutation keeps what it lists.
LEMMA RegistryStays ==
    ASSUME RegistryFits, UNCHANGED <<managed, registry, unsaved, cur>>,
           initial' = "failed" <=> initial = "failed",
           closing' \in {"open", "closing"} => closing \in {"open", "closing"}
    PROVE  RegistryFits'
BY DEF RegistryFits, Lists, Same

\* An add that is taken back leaves the registry as it was before.
LEMMA RegistryBack ==
    ASSUME RegistryFits, cur # None, cur.step \in {"listen", "ensure", "ack", "persistAdd"},
           NEW k \in Keys, k = cur.key, NEW K, K = {k}, Deleted(K),
           UNCHANGED <<registry, initial, closing>>,
           unsaved \in Nat, unsaved' \in Nat, unsaved' >= unsaved,
           cur' = None \/ (cur' # None /\ cur'.step = "rollback")
    PROVE  RegistryFits'
<1>1. \A e \in Keys : managed'[e] = IF e = k THEN None ELSE managed[e]
  BY DEF Deleted
<1>2. ASSUME initial' # "failed", closing' \in {"open", "closing"}
      PROVE  unsaved' > 1 \/ Lists'
  <2>1. unsaved > 1 \/ Lists
    BY <1>2 DEF RegistryFits
  <2>2. CASE Lists
    <3>1. Same({k}) /\ registry[k] = None
      BY <2>2 DEF Lists
    <3>2. Same({})'
      BY <1>1, <3>1 DEF Same
    <3> QED
      BY <3>2 DEF Lists
  <2> QED
    BY <2>1, <2>2
<1> QED
  BY <1>2 DEF RegistryFits

\* The mutation that goes on after the last answer of the relay, likewise.
LEMMA RegistryAfter ==
    ASSUME RegistryFits, cur # None, cur.step \in Stopping, cur' = AfterUnforward(cur.step),
           UNCHANGED <<managed, registry, unsaved, initial, closing>>
    PROVE  RegistryFits'
<1>1. CASE cur.step = "rollback"
  <2>1. cur' = None
    BY <1>1 DEF AfterUnforward
  <2>2. Lists => Lists'
    BY <1>1, <2>1 DEF Lists, Same
  <2> QED
    BY <2>1, <2>2 DEF RegistryFits
<1>2. CASE cur.step # "rollback"
  <2>1. cur' # None /\ cur'.step \in Writing
    BY <1>2, MutationFacts DEF AfterUnforward, Stopping, Steps, Writing
  <2>2. cur'.step \in {"unforwardAll", "persistFail"} => initial' = "failed"
    BY <1>2 DEF AfterUnforward, Stopping, RegistryFits
  <2> QED
    BY <2>1, <2>2, RegistryWrites
<1> QED
  BY <1>1, <1>2

\* failInitial ends in a write.
LEMMA FailInitialWrites ==
    ASSUME FailInitial
    PROVE  cur' # None /\ cur'.step \in Writing /\ initial' = "failed"
<1>1. \/ cur' = [step |-> "unforwardAll", key |-> None]
      \/ cur' = AfterUnforward("unforwardAll")
  BY DEF FailInitial, Unforward
<1> QED
  BY <1>1, MutationFacts DEF AfterUnforward, Steps, Writing, FailInitial

\* add is missing from the registry until it is saved.
LEMMA RegistryStartAdd ==
    ASSUME Base, RegistryFits, StartAdd
    PROVE  RegistryFits'
<1>a. (\E k : k = Head(queue).key) /\ (\E host : host = Head(queue).host)
  OBVIOUS
<1>b. PICK k, host : k = Head(queue).key /\ host = Head(queue).host
  BY <1>a
<1> DEFINE e == managed[k]
<1>1. Start("add")
  BY DEF StartAdd
<1>2. Head(queue) \in Event /\ Head(queue).type = "add" /\ closing \in {"open", "closing"}
  BY <1>1, StartFacts
<1>3. k \in Keys
  BY <1>b, <1>2, EventFacts
<1>4. cur = None /\ UNCHANGED <<closing, registry, unsaved, initial>>
  BY <1>1 DEF Start, StartAdd
<1>5. managed \in [Keys -> Entry \cup {None}] /\ registry \in [Keys -> Entry \cup {None}]
  BY DEF Base, Core, BrokerTypes
<1>6. initial # "failed" => unsaved > 1 \/ Same({})
  BY <1>2, <1>4 DEF RegistryFits, Lists
<1>7. CASE Done /\ UNCHANGED <<forwards, gateway, relay>>
  BY <1>4, <1>7, RegistryStays DEF Done, forwards
<1>8. CASE /\ e # None
           /\ "dynamic" \notin e.owners
           /\ managed' = [managed EXCEPT ![k].owners = @ \cup {"dynamic"}]
           /\ At("persistOwner", k)
  <2>1. cur' # None /\ cur'.step = "persistOwner" /\ cur'.key = k
    BY <1>3, <1>8, MutationFacts DEF At, Steps
  <2>2. e \in Entry
    BY <1>3, <1>5, <1>8
  <2>3. [managed'[k] EXCEPT !.owners = @ \ {"dynamic"}] = e
    <3>1. managed'[k] = [e EXCEPT !.owners = @ \cup {"dynamic"}]
      BY <1>3, <1>5, <1>8
    <3>2. [[e EXCEPT !.owners = @ \cup {"dynamic"}] EXCEPT !.owners = @ \ {"dynamic"}] = e
      <4>1. (e.owners \cup {"dynamic"}) \ {"dynamic"} = e.owners
        BY <1>8
      <4> QED
        BY <2>2, <4>1 DEF Entry
    <3> QED
      BY <3>1, <3>2
  <2>4. \A x \in Keys \ {k} : managed'[x] = managed[x]
    BY <1>5, <1>8
  <2>5. Same({}) => Lists'
    BY <1>3, <1>4, <2>1, <2>3, <2>4 DEF Same, Lists
  <2> QED
    BY <1>4, <1>6, <2>1, <2>5 DEF RegistryFits
<1>9. CASE /\ e = None
           /\ At("pick", k)
           /\ UNCHANGED <<forwards, gateway, relay>>
  <2>1. cur' # None /\ cur'.step = "pick" /\ cur'.key = k
    BY <1>3, <1>9, MutationFacts DEF At, Steps
  <2>2. Same({}) => Lists'
    BY <1>4, <1>9, <2>1 DEF Same, Lists, forwards
  <2> QED
    BY <1>4, <1>6, <1>9, <2>1, <2>2 DEF RegistryFits, forwards
<1>10. CASE e = None /\ Insert(k, host, "pending") /\ (At("listen", k) \/ At("ensure", k))
  <2>1. cur' # None /\ cur'.step \in {"listen", "ensure"} /\ cur'.key = k
    BY <1>3, <1>10, MutationFacts DEF At, Steps
  <2>2. \A x \in Keys \ {k} : managed'[x] = managed[x]
    BY <1>5, <1>10 DEF Insert
  <2>3. Same({}) => Lists'
    BY <1>3, <1>4, <1>10, <2>1, <2>2 DEF Same, Lists
  <2> QED
    BY <1>4, <1>6, <2>1, <2>3 DEF RegistryFits
<1> QED
  BY <1>b, <1>7, <1>8, <1>9, <1>10 DEF StartAdd, Insert

\* A local forward that listens, or not.
LEMMA RegistryLocal ==
    ASSUME Base, RegistryFits, Pick \/ Listen
    PROVE  RegistryFits'
<1>0. cur # None /\ cur.step \in {"pick", "listen"} /\ cur.key \in Keys
  BY DEF Pick, Listen, Base, Core, CurFits
<1>1. closing \in {"open", "closing"}
  BY <1>0, RunFacts DEF Base
<1>2. UNCHANGED <<initial, closing, registry, unsaved>>
  BY DEF Pick, Listen
<1>3. PICK k : k = cur.key
  OBVIOUS
<1>4. managed \in [Keys -> Entry \cup {None}] /\ Types
  BY TypesParts DEF Base, Core, BrokerTypes
<1>5. ASSUME cur' = [step |-> "persistAdd", key |-> k], \A x \in Keys \ {k} : managed'[x] = managed[x]
      PROVE  RegistryFits'
  <2>1. cur' # None /\ cur'.step = "persistAdd" /\ cur'.key = k
    BY <1>0, <1>3, <1>5, MutationFacts DEF Steps
  <2>2. Lists => Same({k}) /\ registry[k] = None
    <3>1. CASE cur.step = "pick"
      BY <1>0, <1>3, <3>1 DEF RegistryFits, Lists, Same
    <3>2. CASE cur.step = "listen"
      BY <1>0, <1>3, <3>2 DEF Lists
    <3> QED
      BY <1>0, <3>1, <3>2
  <2>3. Lists => Lists'
    BY <1>2, <1>5, <2>1, <2>2 DEF Same, Lists
  <2> QED
    BY <1>1, <1>2, <2>1, <2>3 DEF RegistryFits
<1>6. CASE Pick
  <2>1. ASSUME NEW host \in HostPorts, Insert(cur.key, host, "active"), At("persistAdd", cur.key)
        PROVE  RegistryFits'
    BY <1>3, <1>4, <1>5, <2>1 DEF Insert, At
  <2>2. CASE Done /\ UNCHANGED forwards
    <3>1. Lists => Lists'
      BY <1>2, <1>6, <2>2 DEF Lists, Same, Pick, Done, forwards
    <3> QED
      BY <1>1, <1>2, <2>2, <3>1 DEF RegistryFits, Done
  <2> QED
    BY <1>6, <2>1, <2>2 DEF Pick
<1>7. CASE Listen
  <2>1. CASE managed' = [managed EXCEPT ![cur.key].state = "active"] /\ At("persistAdd", cur.key)
    BY <1>3, <1>4, <1>5, <2>1 DEF At
  <2>2. CASE Delete({cur.key}) /\ Done
    <3>1. PICK K : K = {k}
      OBVIOUS
    <3>2. Delete(K) /\ K \in SUBSET Keys
      BY <1>0, <1>3, <2>2, <3>1 DEF Delete
    <3>3. Deleted(K)
      BY <1>4, <3>2, DeleteFacts
    <3>4. unsaved \in Nat /\ unsaved' \in Nat /\ unsaved' >= unsaved
      BY <1>2, PortForwardsAssumption DEF Base, Core, BrokerTypes
    <3>5. cur.step = "listen" /\ k \in Keys
      BY <1>0, <1>3, <1>7 DEF Listen
    <3> QED
      BY <1>0, <1>2, <1>3, <2>2, <3>1, <3>3, <3>4, <3>5, RegistryBack DEF Done
  <2> QED
    BY <1>7, <2>1, <2>2 DEF Listen
<1> QED
  BY <1>6, <1>7

\* An add whose forward fails is taken back.
LEMMA RegistryFails ==
    ASSUME Base, RegistryFits, NEW c \in Ports, cur # None, cur.step \in {"ensure", "ack"},
           cur.key = Remote(c), Deleted({Remote(c)}),
           NEW others, Unforwarded({c}, "rollback", others),
           UNCHANGED <<initial, closing, registry, unsaved>>
    PROVE  RegistryFits'
<1>1. PICK k, K : k = Remote(c) /\ K = {Remote(c)}
  OBVIOUS
<1>2. k \in Keys /\ Deleted(K) /\ K = {k} /\ k = cur.key
  BY <1>1, MutationFacts
<1>3. unsaved \in Nat /\ unsaved' \in Nat /\ unsaved' >= unsaved
  BY PortForwardsAssumption DEF Base, Core, BrokerTypes
<1>4. cur' = None \/ (cur' # None /\ cur'.step = "rollback")
  BY MutationFacts DEF Unforwarded, AfterUnforward, Steps
<1> QED
  BY <1>2, <1>3, <1>4, RegistryBack

\* Waiting for the relay changes nothing of it, and giving up takes the add back.
LEMMA RegistryEnsure ==
    ASSUME Base, RegistryFits, EnsureReady \/ EnsureFails
    PROVE  RegistryFits'
<1>0. cur # None /\ cur.step = "ensure" /\ cur.key \in Keys /\ cur.key[1] = "remote"
  BY DEF EnsureReady, EnsureFails, Base, Core, CurFits
<1>1. CASE EnsureReady
  <2>1. UNCHANGED <<managed, initial, closing, registry, unsaved>>
    BY <1>1 DEF EnsureReady, forwards
  <2>2. cur' # None /\ cur'.step = "ack" /\ cur'.key = cur.key
    BY <1>0, <1>1, MutationFacts DEF EnsureReady, At, Steps
  <2>3. Lists => Lists'
    BY <1>0, <2>1, <2>2 DEF Lists, Same
  <2> QED
    BY <2>1, <2>2, <2>3 DEF RegistryFits
<1>2. CASE EnsureFails
  <2>1. PICK c : c = cur.key[2]
    OBVIOUS
  <2>2. c \in Ports /\ cur.key = Remote(c)
    BY <1>0, <2>1, MutationFacts
  <2>3. /\ \A k \in Keys : k = Remote(c) => managed'[k] = None
        /\ \A k \in Keys : k # Remote(c) => managed'[k] = managed[k]
    BY <1>2, <2>1 DEF EnsureFails, AddFails, Delete
  <2>4. managed' \in [Keys -> Entry \cup {None}] /\ gens' \in [Ports -> Nat \cup {None}]
        /\ troubled' \in [Ports -> BOOLEAN]
    BY <1>2, EnsureFailsBase DEF Base, Core, BrokerTypes
  <2>5. Deleted({Remote(c)})
    BY <2>3, <2>4 DEF Deleted
  <2>6. cur' = None \/ (cur' # None /\ cur'.step = "rollback")
    BY <1>2, MutationFacts DEF EnsureFails, AddFails, Unforward, AfterUnforward, Steps
  <2>7. UNCHANGED <<initial, closing, registry, unsaved>>
    BY <1>2 DEF EnsureFails
  <2>8. unsaved \in Nat /\ unsaved' \in Nat /\ unsaved' >= unsaved
    BY <2>7, PortForwardsAssumption DEF Base, Core, BrokerTypes
  <2>9. PICK k, K : k = Remote(c) /\ K = {Remote(c)}
    OBVIOUS
  <2>10. k \in Keys /\ Deleted(K) /\ K = {k} /\ k = cur.key
    BY <2>2, <2>5, <2>9, MutationFacts
  <2> QED
    BY <1>0, <2>6, <2>7, <2>8, <2>10, RegistryBack
<1> QED
  BY <1>1, <1>2

\* A write that is made settles the registry; one that fails takes the add or the owner
\* back, or is made a second time.
LEMMA RegistryPersists ==
    ASSUME Base, RegistryFits, PersistAdd \/ PersistOwner \/ PersistRevocation \/ PersistFailure
    PROVE  RegistryFits'
<1>0. Types /\ cur # None /\ managed \in [Keys -> Entry \cup {None}]
  BY TypesParts DEF Base, Core, BrokerTypes, PersistAdd, PersistOwner, PersistRevocation,
    PersistFailure, Persisting
<1>1. UNCHANGED <<closing, initial>> /\ closing \in {"open", "closing"}
  BY <1>0, RunFacts DEF Base, PersistAdd, PersistOwner, PersistRevocation, PersistFailure, Persisting
<1>2. unsaved \in Nat /\ unsaved' \in Nat
  BY SaveTypes, PortForwardsAssumption DEF Base, Core, BrokerTypes, PersistAdd, PersistOwner,
    PersistRevocation, PersistFailure
<1>3. ASSUME Saved, Done, managed' = managed PROVE RegistryFits'
  BY <1>3, RegistrySettles DEF Saved, Done
<1>4. CASE PersistAdd
  <2>0. cur.step = "persistAdd" /\ cur.key \in Keys
    BY <1>0, <1>4 DEF PersistAdd, Persisting, Base, Core, CurFits
  <2>1. CASE Saved /\ Done /\ UNCHANGED <<forwards, gateway, relay>>
    BY <1>3, <2>1 DEF forwards
  <2>2. CASE NotSaved
    <3>1. PICK k, K : k = cur.key /\ K = {cur.key}
      OBVIOUS
    <3>2. k \in Keys /\ K = {k} /\ K \in SUBSET Keys
      BY <2>0, <3>1
    <3>3. Delete(K) \/ Saved
      BY <1>4, <3>1 DEF PersistAdd, Delete
    <3>4. registry' = registry /\ unsaved' = unsaved + 1
      BY <2>2 DEF NotSaved
    <3>5. ~Saved
      BY <1>2, <3>4 DEF Saved
    <3>6. Deleted(K)
      BY <1>0, <3>2, <3>3, <3>5, DeleteFacts
    <3>7. cur' = None \/ (cur' # None /\ cur'.step = "rollback")
      BY <1>4, <3>5, MutationFacts DEF PersistAdd, Unforward, AfterUnforward, Steps, Done
    <3>8. unsaved' >= unsaved
      BY <1>2, <3>4
    <3> QED
      BY <1>0, <1>1, <1>2, <2>0, <3>1, <3>2, <3>4, <3>6, <3>7, <3>8, RegistryBack
  <2> QED
    BY <1>4, <2>1, <2>2 DEF PersistAdd
<1>5. CASE PersistOwner
  <2>0. cur.step = "persistOwner" /\ cur.key \in Keys
    BY <1>0, <1>5 DEF PersistOwner, Persisting, Base, Core, CurFits
  <2>1. CASE Saved /\ UNCHANGED managed
    BY <1>3, <1>5, <2>1 DEF PersistOwner
  <2>2. CASE NotSaved /\ managed' = [managed EXCEPT ![cur.key].owners = @ \ {"dynamic"}]
    <3>1. registry' = registry /\ unsaved' = unsaved + 1 /\ cur' = None
      BY <1>5, <2>2 DEF NotSaved, PersistOwner, Done
    <3>2. managed'[cur.key] = [managed[cur.key] EXCEPT !.owners = @ \ {"dynamic"}]
          /\ \A x \in Keys \ {cur.key} : managed'[x] = managed[x]
      BY <1>0, <2>0, <2>2
    <3>3. Lists => Lists'
      BY <1>0, <2>0, <3>1, <3>2 DEF Lists, Same
    <3> QED
      BY <1>1, <1>2, <3>1, <3>3 DEF RegistryFits
  <2> QED
    BY <1>5, <2>1, <2>2 DEF PersistOwner
<1>6. CASE PersistRevocation
  <2>1. managed' = managed
    BY <1>6 DEF PersistRevocation, forwards
  <2>2. CASE Saved /\ Done
    BY <1>3, <2>1, <2>2
  <2>3. CASE NotSaved /\ At("retry", None)
    <3>1. cur' # None /\ cur'.step = "retry"
      BY <2>3, MutationFacts DEF At, Steps
    <3>2. unsaved' > 0
      BY <1>2, <2>3 DEF NotSaved
    <3> QED
      BY <3>1, <3>2 DEF RegistryFits, Lists
  <2>4. CASE cur.step = "retry" /\ NotSaved /\ Done
    <3>1. unsaved' = unsaved + 1 /\ cur' = None
      BY <2>4 DEF NotSaved, Done
    <3>2. Lists => unsaved > 0
      BY <1>0, <2>4 DEF Lists
    <3>3. initial # "failed" => unsaved' > 1
      BY <1>1, <1>2, <3>1, <3>2 DEF RegistryFits
    <3> QED
      BY <1>1, <3>1, <3>3 DEF RegistryFits
  <2> QED
    BY <1>6, <2>2, <2>3, <2>4 DEF PersistRevocation, Persisting
<1>7. CASE PersistFailure
  <2>1. cur.step = "persistFail" /\ Done /\ managed' = managed
    BY <1>7 DEF PersistFailure, Persisting, forwards
  <2>2. initial' = "failed" /\ cur' = None
    BY <1>0, <1>1, <2>1 DEF RegistryFits, Done
  <2> QED
    BY <2>2 DEF RegistryFits
<1> QED
  BY <1>4, <1>5, <1>6, <1>7

\* A removal ends in a write, unless there is nothing to remove.
LEMMA RegistryRemoves ==
    ASSUME Base, RegistryFits, StartRemove
    PROVE  RegistryFits'
<1>1. UNCHANGED <<closing, registry, unsaved, initial>>
  BY DEF StartRemove, Start
<1>2. cur = None
  BY DEF StartRemove, Start
<1>3. \/ Done /\ UNCHANGED forwards
      \/ At("persistRev", None)
      \/ \E k \in Keys : Unforward({k[2]}, "unforward", waiting)
      \/ Head(queue).type = "remove" /\ Unforward({Head(queue).key[2]}, "unforward", waiting)
  BY DEF StartRemove, Managed
<1>4. CASE Done /\ UNCHANGED forwards
  BY <1>1, <1>2, <1>4, RegistryStays DEF Done, forwards
<1>5. CASE At("persistRev", None)
  BY <1>5, RegistryWrites, MutationFacts DEF At, Steps, Writing
<1>6. ASSUME NEW c, Unforward({c}, "unforward", waiting) PROVE RegistryFits'
  <2>1. cur' = [step |-> "unforward", key |-> None] \/ cur' = AfterUnforward("unforward")
    BY <1>6 DEF Unforward
  <2>2. cur' # None /\ cur'.step \in {"unforward", "persistRev"}
    BY <2>1, MutationFacts DEF AfterUnforward, Steps
  <2> QED
    BY <2>2, RegistryWrites DEF Writing
<1> QED
  <2>1. CASE \E k \in Keys : Unforward({k[2]}, "unforward", waiting)
    <3>1. PICK k \in Keys : Unforward({k[2]}, "unforward", waiting)
      BY <2>1
    <3>2. PICK c : c = k[2]
      OBVIOUS
    <3> QED
      BY <1>6, <3>1, <3>2
  <2>2. CASE Unforward({Head(queue).key[2]}, "unforward", waiting)
    <3>0. \E c : c = Head(queue).key[2]
      OBVIOUS
    <3>1. PICK c : c = Head(queue).key[2]
      BY <3>0
    <3>2. Unforward({c}, "unforward", waiting)
      BY <2>2, <3>1 DEF Unforward
    <3> QED
      BY <1>6, <3>2
  <2> QED
    BY <1>3, <1>4, <1>5, <2>1, <2>2

\* The initial forwards are entered before a write, and are settled by it or fail.
LEMMA RegistryInitial ==
    ASSUME Core, RegistryFits, StartPrepare \/ PersistPrepared \/ PersistInitial
    PROVE  RegistryFits'
<1>1. CASE FailInitial
  BY <1>1, FailInitialWrites, RegistryWrites
<1>2. CASE At("persistPrep", None)
  BY <1>2, RegistryWrites, MutationFacts DEF At, Steps, Writing
<1>3. CASE Saved /\ Done /\ UNCHANGED forwards
  BY <1>3, RegistrySettles DEF Saved, Done, forwards
<1> QED
  BY <1>1, <1>2, <1>3 DEF StartPrepare, PersistPrepared, PersistInitial

\* A state that is taken up is written too.
LEMMA RegistryEvents ==
    ASSUME Base, RegistryFits, StartConnected \/ StartState
    PROVE  RegistryFits'
<1>1. cur = None /\ UNCHANGED <<closing, registry, unsaved>>
  BY DEF StartConnected, StartState, Start
<1>2. ASSUME Done, UNCHANGED forwards, initial' = "failed" <=> initial = "failed"
      PROVE  RegistryFits'
  BY <1>1, <1>2, RegistryStays DEF Done, forwards
<1>3. CASE StartConnected
  BY <1>2, <1>3 DEF StartConnected, CompleteInitial
<1>4. CASE StartState
  <2>1. CASE FailInitial
    BY <2>1, FailInitialWrites, RegistryWrites
  <2>2. CASE At(IF initial = "pending" THEN "persistInit" ELSE "persistRev", None)
    BY <2>2, RegistryWrites, MutationFacts DEF At, Steps, Writing
  <2>3. CASE Done /\ UNCHANGED <<initial, forwards, gateway, relay>>
    BY <1>2, <2>3
  <2> QED
    BY <1>4, <2>1, <2>2, <2>3 DEF StartState
<1> QED
  BY <1>3, <1>4

\* What LoseRelay does to the mutation that runs: an add that waited for its answer is
\* taken back (A is its port), one that waited for a removal goes on.
Loses(A) ==
    /\ A \in SUBSET Ports
    /\ managed' = [k \in Keys |-> IF k \in {Remote(c) : c \in A} THEN None ELSE managed[k]]
    /\ \/ /\ A = {} /\ (cur' = cur \/ (/\ cur # None /\ cur.step \in Stopping
                                       /\ cur' = AfterUnforward(cur.step)))
       \/ /\ \E c \in Ports : A = {c} /\ cur = [step |-> "ack", key |-> Remote(c)]
          /\ cur' = None

\* The ports of the adds that wait for the relay.
Adding == {w.port : w \in {x \in waiting : x.by = "add"}}

\* At most one add waits, the one that runs.
LEMMA LossFacts ==
    ASSUME Base, LoseRelay, NEW A, A = Adding
    PROVE  Loses(A)
<1>1. A \in SUBSET Ports
  BY WaiterFacts DEF Base, Adding
<1>2. managed' = [k \in Keys |-> IF k \in {Remote(c) : c \in A} THEN None ELSE managed[k]]
  BY DEF LoseRelay, Adding
<1>3. /\ A # {} => cur' = None
      /\ A = {} => cur' = IF \E w \in waiting : w.kind = "unforward" THEN AfterUnforward(cur.step)
                          ELSE cur
  BY DEF LoseRelay, Adding
<1>4. CASE A = {}
  <2>1. (\E w \in waiting : w.kind = "unforward") => cur # None /\ cur.step \in Stopping
    BY WaiterFacts DEF Base
  <2> QED
    BY <1>1, <1>2, <1>3, <1>4, <2>1 DEF Loses
<1>5. CASE A # {}
  <2>1. PICK w \in waiting : w.by = "add"
    BY <1>5 DEF Adding
  <2>2. cur = [step |-> "ack", key |-> Remote(w.port)] /\ w.port \in Ports
    BY <2>1, WaiterFacts DEF Base
  <2>3. \A x \in waiting : x.by = "add" => x = w
    BY <2>1 DEF Base, Core, WaitFits
  <2>4. A = {w.port}
    BY <2>1, <2>3 DEF Adding
  <2> QED
    BY <1>1, <1>2, <1>3, <1>5, <2>2, <2>4 DEF Loses
<1> QED
  BY <1>4, <1>5

\* The loss of the relay.
LEMMA RegistryLost ==
    ASSUME Base, RegistryFits, LoseRelay, UNCHANGED <<initial, closing, registry, unsaved>>
    PROVE  RegistryFits'
<1>0. \E A : A = Adding
  OBVIOUS
<1>1. PICK A : A = Adding
  BY <1>0
<1>2. Loses(A)
  BY <1>1, LossFacts
<1>3. CASE A = {} /\ cur' = cur
  <2>1. managed' = managed
    BY <1>2, <1>3 DEF Loses, Base, Core, BrokerTypes
  <2> QED
    BY <1>3, <2>1, RegistryStays
<1>4. CASE A = {} /\ cur # None /\ cur.step \in Stopping /\ cur' = AfterUnforward(cur.step)
  <2>1. managed' = managed
    BY <1>2, <1>4 DEF Loses, Base, Core, BrokerTypes
  <2> QED
    BY <1>4, <2>1, RegistryAfter
<1>5. ASSUME NEW c \in Ports, A = {c}, cur = [step |-> "ack", key |-> Remote(c)], cur' = None
      PROVE  RegistryFits'
  <2>1. PICK k : k = Remote(c)
    OBVIOUS
  <2>2. k \in Keys /\ cur # None /\ cur.step = "ack" /\ cur.key = k
    BY <1>5, <2>1, MutationFacts DEF Steps
  <2>3. \A x \in Keys : managed'[x] = IF x = k THEN None ELSE managed[x]
    BY <1>2, <1>5, <2>1 DEF Loses
  <2>4. Lists => Lists'
    BY <1>5, <2>2, <2>3 DEF Lists, Same
  <2> QED
    BY <1>5, <2>4 DEF RegistryFits
<1> QED
  BY <1>2, <1>3, <1>4, <1>5 DEF Loses

\* The end of a request.
LEMMA RegistryAnswered ==
    ASSUME Base, RegistryFits, GatewayStep
    PROVE  RegistryFits'
<1>0. PICK w \in waiting : Answer(w) \/ AnswerRefused(w) \/ TimeOut(w)
  BY DEF GatewayStep
<1>1. UNCHANGED <<initial, closing, registry, unsaved, persistFails>>
  BY <1>0 DEF Answer, AnswerRefused, TimeOut, Settled, bounds
<1>2. w.port \in Ports
  BY WaiterFacts DEF Base
<1>3. ASSUME w.kind = "unforward", EndRequest(w), managed' = managed
      PROVE  RegistryFits'
  <2>1. cur # None /\ cur.step \in Stopping
    BY <1>3, WaiterFacts DEF Base
  <2>2. cur' = cur \/ cur' = AfterUnforward(cur.step)
    BY <1>3 DEF EndRequest
  <2> QED
    BY <1>1, <1>3, <2>1, <2>2, RegistryStays, RegistryAfter
<1>4. ASSUME w.kind = "unforward", EndUnforward(w) PROVE RegistryFits'
  <2>1. managed' = managed /\ (EndRequest(w) \/ cur' = cur)
    BY <1>4 DEF EndUnforward, forwards
  <2> QED
    BY <1>1, <1>3, <1>4, <2>1, RegistryStays
<1>5. ASSUME NEW state, EndAdopted(w, state) PROVE RegistryFits'
  BY <1>1, <1>5, RegistryStays DEF EndAdopted
<1>6. ASSUME w.by = "add", EndAdd(w) PROVE RegistryFits'
  <2>1. PICK k : k = Remote(w.port)
    OBVIOUS
  <2>2. k \in Keys /\ cur # None /\ cur.step = "ack" /\ cur.key = k
    <3>1. cur = [step |-> "ack", key |-> Remote(w.port)] /\ cur # None
      BY <1>6, WaiterFacts DEF Base
    <3> QED
      BY <1>2, <2>1, <3>1, MutationFacts
  <2>3. cur' # None /\ cur'.step = "persistAdd" /\ cur'.key = k
    BY <1>6, <2>2, MutationFacts DEF EndAdd, At, Steps
  <2>4. \A x \in Keys \ {k} : managed'[x] = managed[x]
    BY <1>6, <2>1 DEF EndAdd, Base, Core, BrokerTypes
  <2>5. Lists => Lists'
    BY <1>1, <2>2, <2>3, <2>4 DEF Lists, Same
  <2> QED
    BY <1>1, <2>3, <2>5 DEF RegistryFits
<1>7. ASSUME w.by = "add", NEW state \in ForwardState, NEW unread \in SUBSET answers,
             AddFails(w.port, state, waiting \ {w}, unread)
      PROVE  RegistryFits'
  <2>1. Deleted({Remote(w.port)}) /\ Unforwarded({w.port}, "rollback", waiting \ {w})
    BY <1>1, <1>7, RefusedBase
  <2>2. cur = [step |-> "ack", key |-> Remote(w.port)] /\ cur # None
    BY <1>7, WaiterFacts DEF Base
  <2>3. (\E others : others = waiting \ {w}) /\ (\E c : c = w.port)
    OBVIOUS
  <2>4. PICK others, c : others = waiting \ {w} /\ c = w.port
    BY <2>3
  <2>5. /\ Unforwarded({c}, "rollback", others) /\ Deleted({Remote(c)}) /\ c \in Ports
        /\ cur.step \in {"ensure", "ack"} /\ cur.key = Remote(c)
    BY <1>2, <2>1, <2>2, <2>4 DEF Unforwarded
  <2> QED
    BY <1>1, <2>2, <2>5, RegistryFails
<1>8. CASE Answer(w)
  BY <1>4, <1>5, <1>6, <1>8 DEF Answer
<1>9. CASE AnswerRefused(w)
  <2>0. (\E u : u = answers \ {[port |-> w.port, id |-> w.id, ok |-> FALSE]})
        /\ (\E s : s = "failed")
    OBVIOUS
  <2>1. PICK unread, s : unread = answers \ {[port |-> w.port, id |-> w.id, ok |-> FALSE]}
                         /\ s = "failed"
    BY <2>0
  <2>2. AddFails(w.port, s, waiting \ {w}, unread)
    BY <1>9, <2>1 DEF AnswerRefused, AddFails
  <2>3. unread \in SUBSET answers /\ s \in ForwardState /\ w.by = "add"
    BY <1>9, <2>1 DEF AnswerRefused, ForwardState
  <2> QED
    BY <1>7, <2>2, <2>3
<1>10. CASE TimeOut(w)
  <2>1. CASE w.kind = "unforward" /\ EndRequest(w) /\ UNCHANGED forwards
    BY <1>3, <2>1 DEF forwards
  <2>2. CASE w.by = "adopt" /\ EndAdopted(w, "unavailable")
    BY <1>5, <2>2
  <2>3. CASE w.by = "add" /\ AddFails(w.port, "unavailable", waiting \ {w}, answers)
    <3>0. (\E u : u = answers) /\ (\E s : s = "unavailable")
      OBVIOUS
    <3>1. PICK unread, s : unread = answers /\ s = "unavailable"
      BY <3>0
    <3>2. AddFails(w.port, s, waiting \ {w}, unread) /\ unread \in SUBSET answers
          /\ s \in ForwardState
      BY <2>3, <3>1 DEF AddFails, ForwardState
    <3> QED
      BY <1>7, <2>3, <3>2
  <2> QED
    BY <1>10, <2>1, <2>2, <2>3 DEF TimeOut
<1> QED
  BY <1>0, <1>8, <1>9, <1>10

\* Steps that leave the broker's mutation and its mappings alone.
Aside ==
    \/ LateAnswer \/ RelayForward \/ RelayUnforward \/ RelayCancelled
    \/ \E c \in Ports : RelayListens(c)
    \/ Connect \/ AddPortForward \/ RemovePortForward \/ Close \/ StreamEnds
    \/ \E c \in Ports : Accept(c)

\* They leave the registry alone, too.
LEMMA RegistryAside ==
    ASSUME RegistryFits, Aside
    PROVE  RegistryFits'
<1>1. /\ UNCHANGED <<managed, registry, unsaved, cur, initial>>
      /\ closing' = closing \/ closing = "open"
  BY DEF Aside, LateAnswer, RelayForward, RelayUnforward, RelayCancelled, RelayListens, RelayOnly,
    Connect, AddPortForward, RemovePortForward, Call, Close, StreamEnds, Accept, forwards
<1> QED
  BY <1>1, RegistryStays

\* The mutations of the broker.
LEMMA RegistryBroker ==
    ASSUME Base, RegistryFits, BrokerStep, ~CloseGateway
    PROVE  RegistryFits'
<1>1. CASE CloseBroker
  BY <1>1 DEF CloseBroker, RegistryFits
<1>2. Core
  BY DEF Base
<1> QED
  BY <1>1, <1>2, RegistryStartAdd, RegistryLocal, RegistryEnsure, RegistryPersists, RegistryRemoves,
    RegistryInitial, RegistryEvents DEF BrokerStep

\* Every step keeps the registry as it should be.
LEMMA RegistryNext ==
    ASSUME Inv, RegistryFits, [Next]_vars
    PROVE  RegistryFits'
<1>1. CASE UNCHANGED vars
  BY <1>1, RegistryStays DEF vars, forwards
<1>2. CASE Next /\ Fresh
  <2>1. StartPrepare \/ Close
    BY <1>2, FreshStep DEF Inv
  <2> QED
    BY <2>1, RegistryInitial, RegistryAside DEF Inv, Aside
<1>3. CASE Next /\ Base
  <2>1. CASE CloseGateway
    <3>1. closing' = "shut" /\ cur = None
      BY <1>3, <2>1 DEF CloseGateway, Base, Core, ClosedFits
    <3>2. cur' = None
      <4>0. \E A : A = Adding
        OBVIOUS
      <4>1. PICK A : A = Adding
        BY <4>0
      <4>2. Loses(A)
        BY <1>3, <2>1, <4>1, LossFacts DEF CloseGateway
      <4> QED
        BY <3>1, <4>2 DEF Loses
    <3> QED
      BY <3>1, <3>2 DEF RegistryFits
  <2>2. CASE Drop \/ RelayExits
    BY <1>3, <2>2, RegistryLost DEF Drop, RelayExits
  <2> QED
    BY <1>3, <2>1, <2>2, RegistryBroker, RegistryAnswered, RegistryAside
      DEF Next, RelayStep, BrokerStep, Aside
<1> QED
  BY <1>1, <1>2, <1>3 DEF Inv, Base, PrepareFits

\* When no mutation is left, the registry file lists the mappings the broker keeps: what
\* add, remove, the states and the initial forwards change is written, made good by the
\* second write of persistRevocation, or taken back by the catch of add.  Only two failed
\* writes in a row leave it behind.
THEOREM RegistryKept == Spec => []RegistryIsCurrent
<1>1. Init => RegistryFits
  BY DEF Init, RegistryFits, Lists, Same
<1>2. Inv /\ RegistryFits /\ [Next]_vars => RegistryFits'
  BY RegistryNext
<1>3. Inv /\ RegistryFits => RegistryIsCurrent
  <2> SUFFICES ASSUME Inv, RegistryFits, Quiet, initial = "ready", registry # managed
               PROVE  unsaved > 1
    BY DEF RegistryIsCurrent
  <2>1. Lists => registry = managed
    BY DEF Quiet, Lists, Same, Inv, Core, BrokerTypes
  <2> QED
    BY <2>1 DEF RegistryFits, Quiet
<1> QED
  BY <1>1, <1>2, <1>3, InvariantHolds, PTL DEF Spec

-----------------------------------------------------------------------------
(* What is reported of a forward. *)

\* The states that say that a forward is lost.
Bad == {"unavailable", "failed"}

\* What is queued about the forward that is there now.
Told(c) == {e \in Range(queue) : e.type = "state" /\ e.port = c /\ e.gen = gens[c]}

\* A mapping has a generation as long as it is there; what is shown of it, and what is
\* queued to be shown, is no loss that happened before it was there.
TroubleFits ==
    \A c \in Ports :
      /\ gens[c] = None <=> managed[Remote(c)] = None
      /\ managed[Remote(c)] # None /\ managed[Remote(c)].state \in Bad => troubled[c]
      /\ \A e \in Told(c) : e.state \in Bad => troubled[c]

\* What a step may do to a mapping and to what is told of it: take it back, begin it with
\* a generation of its own, or go on with it.
Forgets(c) == gens'[c] = None /\ managed'[Remote(c)] = None

Begins(c) ==
    /\ gens'[c] # None /\ managed'[Remote(c)] # None /\ managed'[Remote(c)].state \notin Bad
    /\ \A e \in Range(queue') : e.type = "state" /\ e.port = c => e.gen # gens'[c]

GoesOn(c) ==
    /\ gens'[c] = gens[c]
    /\ managed'[Remote(c)] = None <=> managed[Remote(c)] = None
    /\ troubled[c] => troubled'[c]
    /\ \/ managed'[Remote(c)] = None \/ managed'[Remote(c)].state = managed[Remote(c)].state
       \/ managed'[Remote(c)].state \notin Bad \/ troubled'[c]
    /\ \A e \in Range(queue') : e.type = "state" /\ e.port = c /\ e.gen = gens[c] =>
         e \in Range(queue) \/ e.state \notin Bad \/ troubled'[c]

Sound == \A c \in Ports : Forgets(c) \/ Begins(c) \/ GoesOn(c)

\* Such steps show no loss that is not the mapping's own.
LEMMA TroubleKept ==
    ASSUME TroubleFits, Base', Sound
    PROVE  TroubleFits'
<1>1. \A e \in Range(queue') : e.type = "state" => e.gen # None
  <2>1. queue' \in Seq(Event)
    BY DEF Base
  <2>0. \E q : q = queue'
    OBVIOUS
  <2>2. PICK q : q = queue'
    BY <2>0
  <2>3. Range(q) \subseteq Event
    BY <2>1, <2>2, FiniteRange
  <2>4. \A e \in Event : e.type = "state" => e.gen \in Nat
    BY EventFacts
  <2> QED
    BY <2>2, <2>3, <2>4, PortForwardsAssumption
<1>2. SUFFICES ASSUME NEW c \in Ports
               PROVE  /\ gens'[c] = None <=> managed'[Remote(c)] = None
                      /\ managed'[Remote(c)] # None /\ managed'[Remote(c)].state \in Bad =>
                           troubled'[c]
                      /\ \A e \in Range(queue') : e.type = "state" /\ e.port = c
                           /\ e.gen = gens'[c] /\ e.state \in Bad => troubled'[c]
  BY DEF TroubleFits, Told
<1>3. CASE Forgets(c)
  BY <1>1, <1>3 DEF Forgets
<1>4. CASE Begins(c)
  BY <1>4 DEF Begins
<1>5. CASE GoesOn(c)
  <2>1. \A e \in Range(queue) : e.type = "state" /\ e.port = c /\ e.gen = gens[c]
           /\ e.state \in Bad => troubled[c]
    BY DEF TroubleFits, Told
  <2>2. /\ gens[c] = None <=> managed[Remote(c)] = None
        /\ managed[Remote(c)] # None /\ managed[Remote(c)].state \in Bad => troubled[c]
    BY DEF TroubleFits
  <2> QED
    BY <1>5, <2>1, <2>2 DEF GoesOn
<1> QED
  BY <1>3, <1>4, <1>5 DEF Sound

\* What is left of a queue when its head is taken.
LEMMA TailRange ==
    ASSUME NEW S, NEW q \in Seq(S), q # <<>>
    PROVE  Range(Tail(q)) \subseteq Range(q) /\ Head(q) \in Range(q)
<1>1. PICK n \in Nat : n = Len(q)
  BY LenProperties
<1>2. n # 0 /\ DOMAIN q = 1..n /\ Head(q) = q[1]
  BY <1>1, LenProperties, EmptySeq, HeadTailProperties
<1>3. Tail(q) \in Seq(S) /\ Len(Tail(q)) = n - 1 /\ \A i \in 1..(n - 1) : Tail(q)[i] = q[i + 1]
  BY <1>1, HeadTailProperties
<1>4. DOMAIN Tail(q) = 1..(n - 1)
  BY <1>3, LenProperties
<1>5. \A i \in 1..(n - 1) : i + 1 \in 1..n
  BY <1>1
<1>6. 1 \in 1..n
  BY <1>1, <1>2
<1> QED
  BY <1>2, <1>3, <1>4, <1>5, <1>6 DEF Range

\* What a report tells.
LEMMA ReportElems ==
    ASSUME Types, NEW C \in SUBSET Ports, NEW state \in ForwardState
    PROVE  /\ \A e \in Range(Report(C, state)) :
                /\ e.type = "state" /\ e.port \in C /\ e.gen = gens[e.port]
                /\ e.gen # None /\ e.state = state /\ closing = "open"
           /\ Report(C, state) \in Seq(StateEvent)
<1> DEFINE told == {c \in C : gens[c] # None /\ closing = "open"}
           event == [c \in told |->
                       [type |-> "state", port |-> c, gen |-> gens[c], state |-> state]]
           S == {[type |-> "state", port |-> c, gen |-> gens[c], state |-> state] : c \in told}
<1>1. IsFiniteSet(told)
  BY PortForwardsAssumption, FS_Subset
<1>2. IsFiniteSet({event[c] : c \in told})
  <2> HIDE DEF told
  <2> QED
    BY <1>1, FiniteImage
<1>3. {event[c] : c \in told} = S
  OBVIOUS
<1>4. IsFiniteSet(S)
  BY <1>2, <1>3
<1>5. \A e \in S : /\ e.type = "state" /\ e.port \in C /\ e.gen = gens[e.port]
                   /\ e.gen # None /\ e.state = state /\ closing = "open"
  OBVIOUS
<1>6. Report(C, state) = SetToSeq(S)
  BY DEF Report
<1> HIDE DEF S
<1>7. SetToSeq(S) \in Seq(S)
  BY <1>4, SetToSeqType
<1>8. Range(SetToSeq(S)) \subseteq S
  BY <1>7, FiniteRange
<1> QED
  BY <1>5, <1>6, <1>8, ReportType

\* A queue that grows by a report.
LEMMA ReportRange ==
    ASSUME Base, NEW C \in SUBSET Ports, NEW state \in ForwardState, NEW q \in Seq(Event)
    PROVE  /\ q \o Report(C, state) \in Seq(Event)
           /\ \A e \in Range(q \o Report(C, state)) :
                \/ e \in Range(q)
                \/ /\ e.type = "state" /\ e.port \in C /\ e.gen = gens[e.port]
                   /\ e.gen # None /\ e.state = state
<1>1. Types
  BY TypesParts DEF Base, Core
<1>2. PICK r : r = Report(C, state)
  OBVIOUS
<1>3. r \in Seq(StateEvent)
  BY <1>1, <1>2, ReportType
<1>4. r \in Seq(Event)
  BY <1>3, SeqMonotonic DEF Event
<1>5. Range(q \o r) = Range(q) \cup Range(r)
  BY <1>4, RangeConcatenation
<1>6. q \o r \in Seq(Event)
  BY <1>4, ConcatProperties
<1> QED
  BY <1>1, <1>2, <1>5, <1>6, ReportElems

\* Nothing bad is queued that was not queued before.
Calm == \A e \in Range(queue') : e \in Range(queue) \/ e.type # "state" \/ e.state \notin Bad

\* Nothing is queued that was not queued before, when the head of the queue is taken.
LEMMA StartCalm ==
    ASSUME Base, NEW type, Start(type)
    PROVE  Calm /\ Range(queue') \subseteq Range(queue) /\ Head(queue) \in Range(queue)
<1>1. queue \in Seq(Event) /\ queue # <<>> /\ queue' = Tail(queue)
  BY DEF Base, Start
<1>2. Range(Tail(queue)) \subseteq Range(queue) /\ Head(queue) \in Range(queue)
  BY <1>1, TailRange
<1> QED
  BY <1>1, <1>2 DEF Calm

\* Owners that come and go, and a state that is no loss.
LEMMA SoundSame ==
    ASSUME UNCHANGED <<gens, troubled>>, Calm,
           \A c \in Ports :
             /\ managed'[Remote(c)] = None <=> managed[Remote(c)] = None
             /\ managed'[Remote(c)] # None =>
                  \/ managed'[Remote(c)].state = managed[Remote(c)].state
                  \/ managed'[Remote(c)].state \notin Bad
    PROVE  Sound
BY DEF Sound, GoesOn, Calm

\* New owners of a mapping.
LEMMA SoundOwners ==
    ASSUME Base, NEW k \in Keys, managed[k] # None, NEW o \in SUBSET Owners,
           managed' = [managed EXCEPT ![k].owners = o], UNCHANGED <<gens, troubled>>, Calm
    PROVE  Sound
<1>1. managed \in [Keys -> Entry \cup {None}] /\ managed[k] \in Entry
  BY DEF Base, Core, BrokerTypes
<1>2. managed'[k] # None /\ managed'[k].state = managed[k].state
  <2>1. managed'[k] # None
    BY EntryChanged DEF Base, Core
  <2>2. managed'[k] = [managed[k] EXCEPT !.owners = o]
    BY <1>1
  <2> QED
    BY <1>1, <2>1, <2>2 DEF Entry
<1>3. \A e \in Keys \ {k} : managed'[e] = managed[e]
  BY <1>1
<1>4. \A c \in Ports : Remote(c) \in Keys
  BY MutationFacts
<1> QED
  BY <1>2, <1>3, <1>4, SoundSame

\* A mapping that gets a state.
LEMMA SoundState ==
    ASSUME Base, NEW k \in Keys, managed[k] # None, NEW s \in ForwardState,
           managed' = [managed EXCEPT ![k].state = s], UNCHANGED <<gens, troubled>>, Calm,
           s \notin Bad \/ \E c \in Ports : k = Remote(c) /\ troubled[c]
    PROVE  Sound
<1>1. managed \in [Keys -> Entry \cup {None}] /\ managed[k] \in Entry
  BY DEF Base, Core, BrokerTypes
<1>2. managed'[k] # None /\ managed'[k].state = s
  <2>1. managed'[k] # None
    BY EntryChanged DEF Base, Core
  <2>2. managed'[k] = [managed[k] EXCEPT !.state = s]
    BY <1>1
  <2> QED
    BY <1>1, <2>1, <2>2 DEF Entry
<1>3. \A e \in Keys \ {k} : managed'[e] = managed[e]
  BY <1>1
<1>4. \A c \in Ports : Remote(c) \in Keys /\ Remote(c)[2] = c
  BY MutationFacts
<1>5. \A c \in Ports : Remote(c) = k => s \notin Bad \/ troubled'[c]
  BY <1>4
<1> QED
  BY <1>2, <1>3, <1>4, <1>5 DEF Sound, GoesOn, Calm

\* Mappings that are taken back, whatever is queued about them.
LEMMA SoundDelete ==
    ASSUME NEW K \in SUBSET Keys, Delete(K),
           \A e \in Range(queue') : \/ e \in Range(queue) \/ e.type # "state" \/ e.state \notin Bad
                                    \/ Remote(e.port) \in K
    PROVE  Sound
<1> DEFINE C == {k[2] : k \in {e \in K : e[1] = "remote"}}
<1>1. /\ managed' = [k \in Keys |-> IF k \in K THEN None ELSE managed[k]]
      /\ gens' = [c \in Ports |-> IF c \in C THEN None ELSE gens[c]]
      /\ troubled' = [c \in Ports |-> IF c \in C THEN FALSE ELSE troubled[c]]
  BY DEF Delete
<1>2. \A c \in Ports : Remote(c) \in Keys /\ (c \in C <=> Remote(c) \in K)
  <2>1. ASSUME NEW c \in Ports, c \in C PROVE Remote(c) \in K
    BY <2>1, MutationFacts
  <2>2. ASSUME NEW c \in Ports, Remote(c) \in K PROVE c \in C
    BY <2>2, MutationFacts
  <2> QED
    BY <2>1, <2>2, MutationFacts
<1> HIDE DEF C
<1>3. ASSUME NEW c \in Ports, c \in C PROVE Forgets(c)
  BY <1>1, <1>2, <1>3 DEF Forgets
<1>4. ASSUME NEW c \in Ports, c \notin C PROVE GoesOn(c)
  BY <1>1, <1>2, <1>4 DEF GoesOn
<1> QED
  BY <1>3, <1>4 DEF Sound

\* The generation of a new mapping is on no queued event.
LEMMA FreshGeneration ==
    ASSUME Types, NEW c \in Ports
    PROVE  /\ NewGeneration(c) \in Nat /\ NewGeneration(c) # None
           /\ \A e \in Range(queue) : e.type = "state" /\ e.port = c => e.gen # NewGeneration(c)
<1> DEFINE D == {j \in DOMAIN queue : queue[j].type = "state" /\ queue[j].port = c}
           gen == [i \in D |-> queue[i].gen]
<1>1. DOMAIN queue = 1..Len(queue) /\ Len(queue) \in Nat
  BY LenProperties DEF Types
<1>2. IsFiniteSet(DOMAIN queue)
  BY <1>1, FS_Interval
<1>3. IsFiniteSet(D)
  BY <1>2, FS_Subset
<1>4. \A e \in Range(queue) : e.type = "state" /\ e.port = c => e.gen \in {queue[i].gen : i \in D}
  BY DEF Range
<1> HIDE DEF D
<1>5. IsFiniteSet({gen[i] : i \in D})
  BY <1>3, FiniteImage
<1>6. {gen[i] : i \in D} = {queue[i].gen : i \in D}
  OBVIOUS
<1>7. IsFiniteSet({queue[i].gen : i \in D})
  BY <1>5, <1>6
<1>8. NewGeneration(c) = Unused({queue[i].gen : i \in D})
  BY DEF NewGeneration, D
<1>9. NewGeneration(c) \notin {queue[i].gen : i \in D}
  BY <1>7, <1>8, UnusedType
<1> QED
  BY <1>4, <1>9, NameTypes, PortForwardsAssumption

\* A new mapping.
LEMMA SoundInsert ==
    ASSUME Base, NEW k \in Keys, NEW host \in HostPorts, NEW state \in ForwardState \ Bad,
           Insert(k, host, state), Range(queue') \subseteq Range(queue)
    PROVE  Sound
<1>0. Types
  BY TypesParts DEF Base, Core
<1>1. managed \in [Keys -> Entry \cup {None}] /\ gens \in [Ports -> Nat \cup {None}]
      /\ troubled \in [Ports -> BOOLEAN]
  BY DEF Base, Core, BrokerTypes
<1>2. managed' = [managed EXCEPT ![k] = [host |-> host, owners |-> {"dynamic"}, state |-> state]]
  BY DEF Insert
<1>3. managed'[k] # None /\ managed'[k].state = state
  <2>1. managed'[k] # None
    BY <1>0, InsertFacts DEF Inserted
  <2> QED
    BY <1>1, <1>2, <2>1
<1>4. \A c \in Ports : Remote(c) \in Keys
  BY MutationFacts
<1>5. ASSUME NEW c \in Ports, Remote(c) # k PROVE GoesOn(c)
  <2>1. managed'[Remote(c)] = managed[Remote(c)]
    BY <1>1, <1>2, <1>4, <1>5
  <2>2. gens'[c] = gens[c] /\ troubled'[c] = troubled[c]
    BY <1>1, <1>5, MutationFacts DEF Insert
  <2> QED
    BY <2>1, <2>2 DEF GoesOn
<1>6. ASSUME NEW c \in Ports, Remote(c) = k PROVE Begins(c)
  <2>1. k[1] = "remote" /\ k[2] = c
    BY <1>6, MutationFacts
  <2>2. gens' = [gens EXCEPT ![k[2]] = NewGeneration(k[2])]
    BY <2>1 DEF Insert
  <2>3. gens'[c] = NewGeneration(c)
    BY <1>1, <2>1, <2>2
  <2> QED
    BY <1>0, <1>3, <1>6, <2>3, FreshGeneration DEF Begins
<1> QED
  BY <1>5, <1>6 DEF Sound

\* Steps that leave the mappings alone and queue nothing bad.
LEMMA SoundStays ==
    ASSUME UNCHANGED <<managed, gens, troubled>>, Calm
    PROVE  Sound
BY SoundSame

\* A queue that is left alone.
LEMMA SameCalm ==
    ASSUME queue' = queue
    PROVE  Calm
BY DEF Calm

\* add begins a mapping, or gives it an owner.
LEMMA SoundStartAdd ==
    ASSUME Base, StartAdd
    PROVE  Sound
<1>a. (\E k : k = Head(queue).key) /\ (\E host : host = Head(queue).host)
  OBVIOUS
<1>b. PICK k, host : k = Head(queue).key /\ host = Head(queue).host
  BY <1>a
<1> DEFINE e == managed[k]
<1>1. Start("add")
  BY DEF StartAdd
<1>2. Head(queue) \in Event /\ Head(queue).type = "add"
  BY <1>1, StartFacts
<1>3. k \in Keys /\ host \in HostPorts \cup {AnyPort}
  BY <1>b, <1>2, EventFacts
<1>4. Calm /\ Range(queue') \subseteq Range(queue)
  BY <1>1, StartCalm
<1>5. CASE UNCHANGED forwards
  BY <1>4, <1>5, SoundStays DEF forwards
<1>6. CASE /\ e # None
           /\ managed' = [managed EXCEPT ![k].owners = @ \cup {"dynamic"}]
           /\ UNCHANGED <<gens, openLocal, troubled, gateway, relay>>
  <2>0. \E o : o = e.owners \cup {"dynamic"}
    OBVIOUS
  <2>1. PICK o : o = e.owners \cup {"dynamic"}
    BY <2>0
  <2>2. o \in SUBSET Owners
    BY <1>3, <1>6, <2>1 DEF Base, Core, BrokerTypes, Entry, Owners
  <2>3. managed' = [managed EXCEPT ![k].owners = o]
    BY <1>3, <1>6, <2>1 DEF Base, Core, BrokerTypes
  <2> QED
    BY <1>3, <1>4, <1>6, <2>2, <2>3, SoundOwners
<1>7. CASE host # AnyPort /\ Insert(k, host, "pending")
  <2>1. PICK s : s = "pending"
    OBVIOUS
  <2>2. host \in HostPorts /\ s \in ForwardState \ Bad /\ Insert(k, host, s)
    BY <1>3, <1>7, <2>1 DEF ForwardState, Bad
  <2> QED
    BY <1>3, <1>4, <2>2, SoundInsert
<1> QED
  BY <1>b, <1>5, <1>6, <1>7 DEF StartAdd, Insert

\* A local forward has no events.
LEMMA SoundLocal ==
    ASSUME Base, Pick \/ Listen
    PROVE  Sound
<1>0. cur # None /\ cur.key \in Keys /\ cur.key[1] = "local" /\ queue' = queue
      /\ (cur.step = "listen" => managed[cur.key] # None)
  BY DEF Pick, Listen, Base, Core, CurFits
<1>1. Calm
  BY <1>0, SameCalm
<1>2. PICK k : k = cur.key
  OBVIOUS
<1>3. \A x \in Keys \ {k} : managed'[x] = managed[x]
  BY <1>0, <1>2 DEF Pick, Listen, Insert, Delete, forwards, Base, Core, BrokerTypes
<1>4. UNCHANGED <<gens, troubled>>
  <2>1. CASE Pick
    BY <1>0, <2>1 DEF Pick, Insert, forwards
  <2>2. CASE Listen
    <3>1. {c[2] : c \in {e \in {cur.key} : e[1] = "remote"}} = {}
      BY <1>0
    <3> QED
      BY <2>2, <3>1 DEF Listen, Delete, Base, Core, BrokerTypes
  <2> QED
    BY <2>1, <2>2
<1>5. \A c \in Ports : Remote(c) \in Keys \ {k}
  BY <1>0, <1>2, MutationFacts
<1> QED
  BY <1>1, <1>3, <1>4, <1>5, SoundSame

\* A report of what is no loss is calm.
LEMMA ReportCalm ==
    ASSUME Base, NEW C \in SUBSET Ports, NEW state \in ForwardState \ Bad,
           queue' = queue \o Report(C, state)
    PROVE  Calm
<1>1. queue \in Seq(Event)
  BY DEF Base
<1>2. \A e \in Range(queue \o Report(C, state)) : e \in Range(queue) \/ e.state = state
  <2>0. \E q : q = queue
    OBVIOUS
  <2>1. PICK q : q = queue
    BY <2>0
  <2>2. \A e \in Range(q \o Report(C, state)) : e \in Range(q) \/ e.state = state
    BY <1>1, <2>1, ReportRange
  <2> QED
    BY <2>1, <2>2
<1> QED
  BY <1>2 DEF Calm

\* A forward that fails for an add is taken back with its mapping.
LEMMA SoundFails ==
    ASSUME Base, NEW c \in Ports, NEW state \in ForwardState,
           queue' = queue \o Report({c}, state), Delete({Remote(c)})
    PROVE  Sound
<1>1. PICK C, K : C = {c} /\ K = {Remote(c)}
  OBVIOUS
<1>2. C \in SUBSET Ports /\ K \in SUBSET Keys /\ queue \in Seq(Event) /\ Delete(K)
  BY <1>1, MutationFacts DEF Base
<1>3. \A e \in Range(queue') : e \in Range(queue) \/ Remote(e.port) \in K
  <2>0. \E q : q = queue
    OBVIOUS
  <2>1. PICK q : q = queue
    BY <2>0
  <2>2. \A e \in Range(q \o Report(C, state)) : e \in Range(q) \/ e.port \in C
    BY <1>2, <2>1, ReportRange
  <2> QED
    BY <1>1, <2>1, <2>2
<1> QED
  BY <1>2, <1>3, SoundDelete

\* Waiting for the relay.
LEMMA SoundEnsure ==
    ASSUME Base, EnsureReady \/ EnsureFails
    PROVE  Sound
<1>0. PICK c : c = cur.key[2]
  OBVIOUS
<1>1. c \in Ports /\ cur.key = Remote(c)
  BY <1>0, MutationFacts DEF EnsureReady, EnsureFails, Base, Core, CurFits
<1>2. CASE EnsureReady
  <2>1. PICK C, s : C = {c} /\ s = "pending"
    OBVIOUS
  <2>2. C \in SUBSET Ports /\ s \in ForwardState \ Bad /\ queue' = queue \o Report(C, s)
    BY <1>0, <1>1, <1>2, <2>1 DEF EnsureReady, ForwardState, Bad
  <2>3. Calm
    BY <2>2, ReportCalm
  <2> QED
    BY <1>2, <2>3, SoundStays DEF EnsureReady, forwards
<1>3. CASE EnsureFails
  <2>1. PICK s : s = "unavailable"
    OBVIOUS
  <2>2. s \in ForwardState /\ queue' = queue \o Report({c}, s) /\ Delete({Remote(c)})
    BY <1>0, <1>3, <2>1 DEF EnsureFails, AddFails, ForwardState
  <2> QED
    BY <1>1, <2>2, SoundFails
<1> QED
  BY <1>2, <1>3

\* Mappings that are taken back while nothing is queued.
LEMMA SoundTakesBack ==
    ASSUME NEW K \in SUBSET Keys, Delete(K), Range(queue') \subseteq Range(queue)
    PROVE  Sound
BY SoundDelete

\* failInitial takes all of them back.
LEMMA SoundFailInitial ==
    ASSUME FailInitial, Range(queue') \subseteq Range(queue)
    PROVE  Sound
<1>1. PICK K : K = Keys
  OBVIOUS
<1>2. Delete(K) /\ K \in SUBSET Keys
  BY <1>1 DEF FailInitial
<1> QED
  BY <1>2, SoundTakesBack

\* Writes of the registry take mappings back, or owners.
LEMMA SoundPersists ==
    ASSUME Base,
           \/ PersistAdd \/ PersistOwner \/ PersistRevocation \/ PersistFailure
           \/ PersistPrepared \/ PersistInitial
    PROVE  Sound
<1>0. cur # None /\ queue' = queue
  BY DEF PersistAdd, PersistOwner, PersistRevocation, PersistFailure, PersistPrepared,
    PersistInitial, Persisting
<1>1. Calm
  BY <1>0, SameCalm
<1>2. CASE UNCHANGED forwards
  BY <1>1, <1>2, SoundStays DEF forwards
<1>3. CASE FailInitial
  BY <1>0, <1>3, SoundFailInitial
<1>4. CASE PersistAdd
  <2>0. PICK K : K = {cur.key}
    OBVIOUS
  <2>1. K \in SUBSET Keys
    BY <1>0, <1>4, <2>0 DEF PersistAdd, Persisting, Base, Core, CurFits
  <2>2. UNCHANGED forwards \/ Delete(K)
    BY <1>4, <2>0 DEF PersistAdd, Delete
  <2> QED
    BY <1>0, <1>2, <2>1, <2>2, SoundTakesBack
<1>5. CASE PersistOwner
  <2>0. cur.key \in Keys /\ managed[cur.key] # None
    BY <1>0, <1>5 DEF PersistOwner, Persisting, Base, Core, CurFits
  <2>1. UNCHANGED <<gens, troubled>>
    BY <1>5 DEF PersistOwner
  <2>2. CASE managed' = managed
    BY <1>1, <2>1, <2>2, SoundStays
  <2>3. CASE managed' = [managed EXCEPT ![cur.key].owners = @ \ {"dynamic"}]
    <3>0. (\E k : k = cur.key) /\ (\E o : o = managed[cur.key].owners \ {"dynamic"})
      OBVIOUS
    <3>1. PICK k, o : k = cur.key /\ o = managed[cur.key].owners \ {"dynamic"}
      BY <3>0
    <3>2. o \in SUBSET Owners /\ k \in Keys /\ managed[k] # None
      BY <2>0, <3>1 DEF Base, Core, BrokerTypes, Entry
    <3>3. managed' = [managed EXCEPT ![k].owners = o]
      BY <2>0, <2>3, <3>1 DEF Base, Core, BrokerTypes
    <3> QED
      BY <1>1, <2>1, <3>2, <3>3, SoundOwners
  <2> QED
    BY <1>5, <2>2, <2>3 DEF PersistOwner
<1> QED
  BY <1>2, <1>3, <1>4, <1>5 DEF PersistRevocation, PersistFailure, PersistPrepared, PersistInitial

\* A removal takes its mapping back, or its owners.
LEMMA SoundRemoves ==
    ASSUME Base, StartRemove
    PROVE  Sound
<1>1. PICK t : t \in {"remove", "unbind"} /\ Start(t)
  BY DEF StartRemove
<1>2. Head(queue) \in Event /\ Calm /\ Range(queue') \subseteq Range(queue)
  BY <1>1, StartFacts, StartCalm
<1> DEFINE op == Head(queue)
           K == IF op.type = "remove" THEN {op.key} \ {k \in Keys : managed[k] = None}
                ELSE {k \in Managed("local") : managed[k].host = op.host}
<1>3. \A k \in K : k \in Keys /\ managed[k] # None
  <2>1. op.type = "remove" => op.key \in Keys
    BY <1>2, EventFacts
  <2> QED
    BY <2>1 DEF Managed
<1> HIDE DEF K
<1>4. CASE UNCHANGED forwards
  BY <1>2, <1>4, SoundStays DEF forwards
<1>5. ASSUME NEW k \in K, managed' = [managed EXCEPT ![k].owners = {"internal"}],
             UNCHANGED <<gens, troubled>>
      PROVE  Sound
  <2>1. PICK o : o = {"internal"}
    OBVIOUS
  <2>2. o \in SUBSET Owners /\ managed' = [managed EXCEPT ![k].owners = o]
    BY <1>5, <2>1 DEF Owners
  <2> QED
    BY <1>2, <1>3, <1>5, <2>2, SoundOwners
<1>6. ASSUME NEW k \in K, Delete({k}) PROVE Sound
  <2>1. PICK L : L = {k}
    OBVIOUS
  <2>2. L \in SUBSET Keys /\ Delete(L)
    BY <1>3, <1>6, <2>1
  <2> QED
    BY <1>2, <2>2, SoundTakesBack
<1> QED
  BY <1>4, <1>5, <1>6 DEF StartRemove, K

\* The initial forwards begin with an empty queue.
LEMMA SoundPrepare ==
    ASSUME Core, Fresh, StartPrepare
    PROVE  Sound
<1>1. PICK f \in InitialForwards : queue = <<[type |-> "prepare", entries |-> f]>>
  BY DEF Fresh
<1>2. queue' = <<>> /\ Head(queue).entries = f
  BY <1>1 DEF StartPrepare, Start
<1>3. Range(queue') = {}
  BY <1>2 DEF Range
<1>4. CASE FailInitial
  BY <1>3, <1>4, SoundFailInitial
<1>5. ASSUME /\ managed' = [k \in Keys |-> IF k \notin DOMAIN f THEN None ELSE
                     [host |-> f[k].host, owners |-> f[k].owners,
                      state |-> IF k[1] = "local" THEN "active" ELSE "pending"]]
             /\ gens' = [c \in Ports |-> IF Remote(c) \in DOMAIN f THEN 1 ELSE None]
      PROVE  Sound
  <2>1. PICK K \in SUBSET Keys : f \in [K -> Initial]
    BY PortForwardsAssumption
  <2>2. \A k \in DOMAIN f : [host |-> f[k].host, owners |-> f[k].owners,
                             state |-> IF k[1] = "local" THEN "active" ELSE "pending"] \in Entry
    BY <2>1 DEF Initial, Entry, Owners, ForwardState
  <2>3. ASSUME NEW c \in Ports, Remote(c) \notin DOMAIN f PROVE Forgets(c)
    BY <1>5, <2>3, MutationFacts DEF Forgets
  <2>4. ASSUME NEW c \in Ports, Remote(c) \in DOMAIN f PROVE Begins(c)
    <3>1. gens'[c] # None
      BY <1>5, <2>4, PortForwardsAssumption
    <3>2. managed'[Remote(c)] = [host |-> f[Remote(c)].host, owners |-> f[Remote(c)].owners,
                                 state |-> "pending"]
      BY <1>5, <2>4, MutationFacts
    <3>3. managed'[Remote(c)] \in Entry
      BY <1>5, <2>2, <2>4, MutationFacts
    <3>4. managed'[Remote(c)] # None /\ managed'[Remote(c)].state = "pending"
      BY <3>2, <3>3, PortForwardsAssumption
    <3> QED
      BY <1>3, <3>1, <3>4 DEF Begins, Bad
  <2> QED
    BY <2>3, <2>4 DEF Sound
<1> QED
  BY <1>2, <1>4, <1>5 DEF StartPrepare

\* An event of the gateway that is taken up is about the mapping that is there.
LEMMA SoundEvents ==
    ASSUME Base, TroubleFits, StartConnected \/ StartState
    PROVE  Sound
<1>1. PICK t : t \in {"connected", "state"} /\ Start(t) /\ (t = "connected" => StartConnected)
               /\ (t = "state" => StartState)
  BY DEF StartConnected, StartState
<1>2. /\ Calm /\ Range(queue') \subseteq Range(queue)
      /\ Head(queue) \in Range(queue) /\ Head(queue) \in Event /\ Head(queue).type = t
  BY <1>1, StartFacts, StartCalm
<1>3. CASE UNCHANGED forwards
  BY <1>2, <1>3, SoundStays DEF forwards
<1>4. CASE FailInitial
  BY <1>2, <1>4, SoundFailInitial
<1>5. CASE t = "state"
  <2>1. PICK e : e = Head(queue)
    OBVIOUS
  <2>2. /\ e \in Range(queue) /\ e.type = "state" /\ e.port \in Ports /\ e.state \in ForwardState
    BY <1>2, <1>5, <2>1, EventFacts
  <2>3. ASSUME managed[Remote(e.port)] # None, IsCurrent(e),
               managed' = [managed EXCEPT ![Remote(e.port)].state = e.state],
               UNCHANGED <<gens, troubled>>
        PROVE  Sound
    <3>1. PICK k, s, c : k = Remote(e.port) /\ s = e.state /\ c = e.port
      OBVIOUS
    <3>2. e \in Told(c)
      BY <2>2, <2>3, <3>1 DEF Told, IsCurrent
    <3>3. s \in Bad => troubled[c]
      BY <2>2, <3>1, <3>2 DEF TroubleFits
    <3>4. k \in Keys /\ managed[k] # None /\ s \in ForwardState /\ c \in Ports /\ k = Remote(c)
          /\ managed' = [managed EXCEPT ![k].state = s]
      BY <2>2, <2>3, <3>1, MutationFacts
    <3> QED
      BY <1>2, <2>3, <3>3, <3>4, SoundState
  <2> QED
    BY <1>1, <1>3, <1>4, <1>5, <2>1, <2>3 DEF StartState
<1> QED
  BY <1>1, <1>3, <1>5 DEF StartConnected

\* The loss of the relay is reported of every mapping in the table, and is its own.
LEMMA SoundLost ==
    ASSUME Base, LoseRelay
    PROVE  Sound
<1> DEFINE asked0 == {w.port : w \in {x \in waiting : x.kind = "forward"
                     /\ table[x.port] # None /\ table[x.port].token = x.token}}
           listed0 == {c \in Ports : table[c] # None}
<1>0. (\E A : A = Adding) /\ (\E D : D = asked0) /\ (\E L : L = listed0) /\ (\E q : q = queue)
      /\ (\E s : s = "unavailable")
  OBVIOUS
<1>1. PICK A, D, L, q, s : A = Adding /\ D = asked0 /\ L = listed0 /\ q = queue
                           /\ s = "unavailable"
  BY <1>0
<1>2. /\ queue' = q \o Report(L, s) \o Report(D, s)
      /\ managed' = [k \in Keys |-> IF k \in {Remote(c) : c \in A} THEN None ELSE managed[k]]
      /\ gens' = [c \in Ports |-> IF c \in A THEN None ELSE gens[c]]
      /\ troubled' = [c \in Ports |->
              c \notin A /\ (troubled[c] \/ (c \in L /\ gens[c] # None))]
  <2> HIDE DEF listed0
  <2> QED
    BY <1>1 DEF LoseRelay, listed0, Adding
<1>3. L \in SUBSET Ports /\ D \in SUBSET Ports /\ D \subseteq L /\ A \in SUBSET Ports
      /\ s \in ForwardState /\ q \in Seq(Event)
  <2>1. \A w \in waiting : w.port \in Ports
    BY WaiterFacts DEF Base
  <2>2. D \subseteq L /\ L \subseteq Ports
    BY <1>1, <2>1
  <2>3. A \subseteq Ports
    BY <1>1, <2>1 DEF Adding
  <2> QED
    BY <1>1, <2>2, <2>3 DEF Base, ForwardState
<1> HIDE DEF asked0, listed0
<1>4. \A e \in Range(queue') :
        e \in Range(q) \/ (e.port \in L /\ e.gen = gens[e.port] /\ e.gen # None)
  <2>a. /\ q \o Report(L, s) \in Seq(Event)
        /\ \A e \in Range(q \o Report(L, s)) :
             e \in Range(q) \/ (e.port \in L /\ e.gen = gens[e.port] /\ e.gen # None)
    BY <1>3, ReportRange, SMTT(20)
  <2>b. \E r \in Seq(Event) : r = q \o Report(L, s)
    BY <2>a
  <2>1. PICK r \in Seq(Event) : r = q \o Report(L, s)
    BY <2>b
  <2>2. /\ r \in Seq(Event)
        /\ \A e \in Range(r) : \/ e \in Range(q)
                               \/ e.port \in L /\ e.gen = gens[e.port] /\ e.gen # None
    BY <2>a, <2>1
  <2>3. \A e \in Range(r \o Report(D, s)) :
           \/ e \in Range(r)
           \/ e.port \in D /\ e.gen = gens[e.port] /\ e.gen # None
    BY <1>3, <2>2, ReportRange
  <2> QED
    BY <1>2, <1>3, <2>1, <2>2, <2>3
<1>5. ASSUME NEW c \in Ports, c \in A PROVE Forgets(c)
  BY <1>2, <1>5, MutationFacts DEF Forgets
<1>6. ASSUME NEW c \in Ports, c \notin A PROVE GoesOn(c)
  <2>1. managed'[Remote(c)] = managed[Remote(c)]
    BY <1>2, <1>3, <1>6, MutationFacts
  <2>2. gens'[c] = gens[c] /\ (troubled[c] => troubled'[c])
        /\ (c \in L /\ gens[c] # None => troubled'[c])
    BY <1>2, <1>6
  <2>3. ASSUME NEW e \in Range(queue'), e.port = c, e.gen = gens[c]
        PROVE  e \in Range(queue) \/ troubled'[c]
    BY <1>1, <1>4, <2>2, <2>3
  <2> QED
    BY <2>1, <2>2, <2>3 DEF GoesOn
<1> QED
  BY <1>5, <1>6 DEF Sound

\* So is what a new relay does not confirm, and a confirmed forward is no loss.
LEMMA SoundAnswered ==
    ASSUME Base, GatewayStep
    PROVE  Sound
<1>0. PICK w \in waiting : Answer(w) \/ AnswerRefused(w) \/ TimeOut(w)
  BY DEF GatewayStep
<1>1. PICK c : c = w.port
  OBVIOUS
<1>2. c \in Ports
  BY <1>1, WaiterFacts DEF Base
<1>3. CASE UNCHANGED <<managed, gens, troubled, queue>>
  BY <1>3, SoundStays, SameCalm
<1>4. ASSUME NEW s \in ForwardState, EndAdopted(w, s), s \in Bad \/ s = "active" PROVE Sound
  <2>1. UNCHANGED <<managed, gens>>
    BY <1>4 DEF EndAdopted
  <2>2. CASE UNCHANGED <<queue, troubled>>
    BY <1>3, <2>1, <2>2
  <2>3. CASE /\ queue' = queue \o Report({c}, s)
             /\ troubled' = [troubled EXCEPT ![c] = @ \/ (gens[c] # None /\ s # "active")]
    <3>0. (\E q : q = queue) /\ (\E C : C = {c})
      OBVIOUS
    <3>1. PICK q, C : q = queue /\ C = {c}
      BY <3>0
    <3>2. q \in Seq(Event) /\ C \in SUBSET Ports /\ queue' = q \o Report(C, s)
      BY <1>2, <2>3, <3>1 DEF Base
    <3>3. \A e \in Range(queue') : \/ e \in Range(queue)
                                   \/ e.port = c /\ e.gen = gens[c] /\ e.gen # None /\ e.state = s
      BY <3>1, <3>2, ReportRange
    <3>4. /\ \A x \in Ports : troubled[x] => troubled'[x]
          /\ gens[c] # None /\ s # "active" => troubled'[c]
      BY <1>2, <2>3 DEF Base, Core, BrokerTypes
    <3>5. s \in Bad => s # "active"
      BY DEF Bad
    <3>6. "active" \notin Bad
      BY DEF Bad
    <3> QED
      BY <1>4, <2>1, <3>3, <3>4, <3>5, <3>6 DEF Sound, GoesOn
  <2> QED
    BY <1>1, <1>4, <2>2, <2>3 DEF EndAdopted
<1>5. ASSUME w.by = "add", EndAdd(w) PROVE Sound
  <2>1. PICK C, s, k : C = {c} /\ s = "active" /\ k = Remote(c)
    OBVIOUS
  <2>2. C \in SUBSET Ports /\ s \in ForwardState \ Bad /\ queue' = queue \o Report(C, s)
    BY <1>1, <1>2, <1>5, <2>1 DEF EndAdd, ForwardState, Bad
  <2>3. Calm
    BY <2>2, ReportCalm
  <2>4. k \in Keys /\ managed[k] # None /\ managed' = [managed EXCEPT ![k].state = s]
        /\ UNCHANGED <<gens, troubled>>
    BY <1>1, <1>2, <1>5, <2>1, WaiterFacts, MutationFacts DEF EndAdd, Base
  <2> QED
    BY <2>2, <2>3, <2>4, SoundState
<1>6. ASSUME NEW s \in ForwardState, NEW others, NEW unread, AddFails(c, s, others, unread)
      PROVE  Sound
  BY <1>2, <1>6, SoundFails DEF AddFails
<1>7. CASE Answer(w)
  <2>1. CASE EndUnforward(w)
    BY <1>3, <2>1 DEF EndUnforward, forwards
  <2>2. /\ "active" \in ForwardState /\ "failed" \in ForwardState /\ "failed" \in Bad
    BY DEF ForwardState, Bad
  <2> QED
    BY <1>4, <1>5, <1>7, <2>1, <2>2 DEF Answer
<1>8. CASE AnswerRefused(w)
  <2>0. /\ \E u : u = answers \ {[port |-> w.port, id |-> w.id, ok |-> FALSE]}
        /\ \E s : s = "failed"
        /\ \E o : o = waiting \ {w}
    OBVIOUS
  <2>1. PICK u, s, o : /\ u = answers \ {[port |-> w.port, id |-> w.id, ok |-> FALSE]}
                       /\ s = "failed" /\ o = waiting \ {w}
    BY <2>0
  <2>2. AddFails(c, s, o, u) /\ s \in ForwardState
    BY <1>1, <1>8, <2>1 DEF AnswerRefused, AddFails, Unforward, Send, ForwardState
  <2> QED
    BY <1>6, <2>2
<1>9. CASE TimeOut(w)
  <2>1. CASE UNCHANGED <<forwards, queue, table, retired, streams, relay>>
    BY <1>3, <2>1 DEF forwards
  <2>2. CASE EndAdopted(w, "unavailable")
    <3>1. "unavailable" \in ForwardState /\ "unavailable" \in Bad
      BY DEF ForwardState, Bad
    <3> QED
      BY <1>4, <2>2, <3>1
  <2>3. CASE AddFails(w.port, "unavailable", waiting \ {w}, answers)
    <3>0. /\ \E u : u = answers
          /\ \E s : s = "unavailable"
          /\ \E o : o = waiting \ {w}
      OBVIOUS
    <3>1. PICK u, s, o : u = answers /\ s = "unavailable" /\ o = waiting \ {w}
      BY <3>0
    <3>2. AddFails(c, s, o, u) /\ s \in ForwardState
      BY <1>1, <2>3, <3>1 DEF AddFails, Unforward, Send, ForwardState
    <3> QED
      BY <1>6, <3>2
  <2> QED
    BY <1>9, <2>1, <2>2, <2>3 DEF TimeOut
<1> QED
  BY <1>0, <1>7, <1>8, <1>9

\* A sequence with one more element at its end.
LEMMA RangeOne ==
    ASSUME NEW S, NEW s \in Seq(S), NEW e \in S
    PROVE  s \o <<e>> = Append(s, e) /\ Range(s \o <<e>>) = Range(s) \cup {e}
<1>1. <<e>> \in Seq(S) /\ Range(<<e>>) = {e}
  BY DEF Range
<1>2. Range(s \o <<e>>) = Range(s) \cup Range(<<e>>)
  <2>1. PICK p \in Seq(S) : p = <<e>>
    BY <1>1
  <2>2. Range(s \o p) = Range(s) \cup Range(p)
    BY RangeConcatenation
  <2> QED
    BY <2>1, <2>2
<1> QED
  BY <1>1, <1>2, AppendIsConcat

\* What is queued by a call or by a relay that connects is no loss.
LEMMA SoundAside ==
    ASSUME Base, Aside
    PROVE  Sound
<1>1. UNCHANGED <<managed, gens, troubled>>
  BY DEF Aside, LateAnswer, RelayForward, RelayUnforward, RelayCancelled, RelayListens, RelayOnly,
    Connect, AddPortForward, RemovePortForward, Call, Close, StreamEnds, Accept, forwards
<1>2. CASE queue' = queue
  BY <1>1, <1>2, SoundStays, SameCalm
<1>3. queue \in Seq(Event)
  BY DEF Base
<1>4. ASSUME NEW op \in Event, op.type # "state", queue' = Append(queue, op) PROVE Sound
  <2>0. \E q \in Seq(Event) : q = queue
    BY <1>3
  <2>q. PICK q \in Seq(Event) : q = queue
    BY <2>0
  <2>1. q \o <<op>> = Append(q, op) /\ Range(q \o <<op>>) = Range(q) \cup {op}
    BY RangeOne
  <2>2. Range(queue') = Range(queue) \cup {op}
    BY <1>4, <2>1, <2>q
  <2>3. Calm
    BY <1>4, <2>2 DEF Calm
  <2> QED
    BY <1>1, <2>3, SoundStays
<1>5. CASE AddPortForward \/ RemovePortForward
  <2>1. \A k \in Keys, host \in HostPorts \cup {AnyPort} : (host = AnyPort => k[1] = "local") =>
          [type |-> "add", key |-> k, host |-> host] \in Event
    BY DEF Event, AddEvent
  <2>2. (\A k \in Keys : [type |-> "remove", key |-> k] \in Event)
        /\ \A host \in HostPorts : [type |-> "unbind", host |-> host] \in Event
    BY DEF Event
  <2>3. PICK op \in Event : op.type # "state" /\ queue' = Append(queue, op)
    <3>1. CASE AddPortForward
      <4>1. PICK k \in Keys, host \in HostPorts \cup {AnyPort} :
              /\ host = AnyPort => k[1] = "local"
              /\ Call([type |-> "add", key |-> k, host |-> host])
        BY <3>1 DEF AddPortForward
      <4> QED
        BY <2>1, <4>1 DEF Call
    <3>2. CASE RemovePortForward
      BY <2>2, <3>2 DEF RemovePortForward, Call
    <3> QED
      BY <1>5, <3>1, <3>2
  <2> QED
    BY <1>4, <2>3
<1>6. CASE Connect
  <2> DEFINE own == {c \in Ports : table[c] # None /\ table[c].establishing}
             desired == {k[2] : k \in Managed("remote")} \ own
  <2>1. desired \subseteq Ports
    BY MutationFacts DEF Managed
  <2>2. queue' = queue \o Report(desired, "pending") \o
                 (IF initial = "pending" /\ closing = "open" THEN <<[type |-> "connected"]>>
                  ELSE <<>>)
    BY <1>6 DEF Connect
  <2>3. (\E C : C = desired) /\ (\E s : s = "pending") /\ (\E q : q = queue)
    OBVIOUS
  <2>4. PICK C, s, q : C = desired /\ s = "pending" /\ q = queue
    BY <2>3
  <2>5. C \in SUBSET Ports /\ s \in ForwardState /\ s \notin Bad /\ q \in Seq(Event)
    BY <1>3, <2>1, <2>4 DEF ForwardState, Bad
  <2> HIDE DEF desired, own
  <2>a. /\ q \o Report(C, s) \in Seq(Event)
        /\ \A e \in Range(q \o Report(C, s)) : e \in Range(q) \/ e.state = s
    BY <2>5, ReportRange
  <2>b. \E r \in Seq(Event) : r = q \o Report(C, s)
    BY <2>a
  <2>6. PICK r \in Seq(Event) : r = q \o Report(C, s)
    BY <2>b
  <2>7. r \in Seq(Event) /\ \A e \in Range(r) : e \in Range(q) \/ e.state = s
    BY <2>a, <2>6
  <2>8. CASE queue' = r \o <<[type |-> "connected"]>>
    <3>1. PICK op : op = [type |-> "connected"]
      OBVIOUS
    <3>2. op \in Event /\ op.type # "state"
      BY <3>1 DEF Event
    <3>3. Range(r \o <<op>>) = Range(r) \cup {op}
      BY <2>7, <3>2, RangeOne
    <3>4. Calm
      BY <2>4, <2>5, <2>7, <2>8, <3>1, <3>2, <3>3 DEF Calm
    <3> QED
      BY <1>1, <3>4, SoundStays
  <2>9. CASE queue' = r \o <<>>
    <3>1. queue' = r
      BY <2>7, <2>9, ConcatEmptySeq
    <3>2. Calm
      BY <2>4, <2>5, <2>7, <3>1 DEF Calm
    <3> QED
      BY <1>1, <3>2, SoundStays
  <2> QED
    BY <2>2, <2>4, <2>6, <2>8, <2>9
<1> QED
  <2>1. Connect \/ AddPortForward \/ RemovePortForward \/ queue' = queue
    BY DEF Aside, LateAnswer, RelayForward, RelayUnforward, RelayCancelled, RelayListens, RelayOnly,
      Close, StreamEnds, Accept
  <2> QED
    BY <1>2, <1>5, <1>6, <2>1

\* Every step is sound, and shows no loss that is not the mapping's own.
LEMMA TroubleNext ==
    ASSUME Inv, TroubleFits, [Next]_vars
    PROVE  TroubleFits'
<1>1. CASE UNCHANGED vars
  BY <1>1 DEF TroubleFits, Told, vars, forwards
<1>2. CASE Next /\ Fresh
  <2>1. StartPrepare \/ Close
    BY <1>2, FreshStep DEF Inv
  <2>2. CASE StartPrepare
    BY <1>2, <2>2, StartPrepareBase, SoundPrepare, TroubleKept DEF Inv
  <2>3. CASE Close
    BY <2>3 DEF Close, TroubleFits, Told, forwards
  <2> QED
    BY <2>1, <2>2, <2>3
<1>3. CASE Next /\ Base
  <2>0. Base'
    BY <1>3, NextBase
  <2>1. CASE CloseGateway \/ Drop \/ RelayExits
    BY <1>3, <2>0, <2>1, SoundLost, TroubleKept DEF CloseGateway, Drop, RelayExits
  <2>2. CASE CloseBroker
    <3>1. PICK K : K = Keys
      OBVIOUS
    <3>2. Delete(K) /\ K \in SUBSET Keys /\ queue' = queue
      BY <2>2, <3>1 DEF CloseBroker
    <3> QED
      BY <2>0, <3>2, SoundTakesBack, TroubleKept
  <2>3. ~StartPrepare
    <3>1. ASSUME StartPrepare PROVE FALSE
      <4>1. Start("prepare")
        BY <3>1 DEF StartPrepare
      <4>2. Head(queue) \in Event /\ Head(queue).type = "prepare"
        BY <1>3, <4>1, StartFacts
      <4> QED
        BY <4>2, EventFacts
    <3> QED
      BY <3>1
  <2>4. CASE BrokerStep
    BY <1>3, <2>0, <2>1, <2>2, <2>3, <2>4, SoundStartAdd, SoundLocal, SoundEnsure, SoundPersists,
      SoundRemoves, SoundEvents, TroubleKept DEF BrokerStep
  <2>5. CASE GatewayStep \/ Aside
    BY <1>3, <2>0, <2>5, SoundAnswered, SoundAside, TroubleKept
  <2> QED
    BY <1>3, <2>1, <2>4, <2>5 DEF Next, RelayStep, Aside
<1> QED
  BY <1>1, <1>2, <1>3 DEF Inv, Base, PrepareFits

\* A forward is never shown as lost for what happened to an earlier forward of its port:
\* a new mapping gets a generation that no queued event carries, and onForwardState drops
\* the events of every other one.
THEOREM TroubleOwned == Spec => []TroubleIsItsOwn
<1>1. Init => TroubleFits
  <2> SUFFICES ASSUME Init PROVE TroubleFits
    OBVIOUS
  <2>1. PICK f \in InitialForwards : queue = <<[type |-> "prepare", entries |-> f]>>
    BY DEF Init
  <2>2. \A e \in Range(queue) : e.type = "prepare"
    BY <2>1 DEF Range
  <2>3. \A c \in Ports : gens[c] = None /\ managed[Remote(c)] = None
    BY MutationFacts DEF Init
  <2> QED
    BY <2>2, <2>3 DEF TroubleFits, Told
<1>2. Inv /\ TroubleFits /\ [Next]_vars => TroubleFits'
  BY TroubleNext
<1>3. TroubleFits => TroubleIsItsOwn
  BY DEF TroubleFits, TroubleIsItsOwn, Bad
<1> QED
  BY <1>1, <1>2, <1>3, InvariantHolds, PTL DEF Spec

-----------------------------------------------------------------------------
(* The listeners of the relay. *)

\* The tokens the gateway knows of a port: those it retired and the one of its entry.
Known(c) == retired[c] \cup (IF table[c] = None THEN {} ELSE {table[c].token})

\* No listener of the port, there or asked for, has the token.
Gone(c, t) ==
    /\ fwd[c] # None => fwd[c].token # t
    /\ \A m \in Range(toRelay) : m.kind = "forward" /\ m.port = c => m.token # t

\* Nothing is left of a relay that is gone.
Apart ==
    ~conn => /\ toRelay = <<>> /\ waiting = {} /\ answers = {} /\ limbo = {}
             /\ \A c \in Ports : fwd[c] = None

\* Every listener, there or asked for, is known; a token in the table is neither retired
\* nor on its way to be closed.
TokensFit ==
    \A c \in Ports :
      /\ fwd[c] # None => fwd[c].token \in Known(c)
      /\ \A m \in Range(toRelay) : m.kind = "forward" /\ m.port = c => m.token \in Known(c)
      /\ table[c] # None =>
           /\ table[c].token \notin retired[c]
           /\ \A m \in Range(toRelay) :
                m.kind = "unforward" /\ m.port = c => m.token # table[c].token

\* No listener is asked for again once its end is on the wire.
Ordered(q) ==
    \A i, j \in DOMAIN q :
      /\ i < j /\ q[i].kind = "unforward" /\ q[j].kind = "forward" /\ q[i].port = q[j].port
      => q[i].token # q[j].token

\* An id is of one request, and its answer -- read, or owed by a cancelled listener --
\* comes when the listener is gone.
IdFits(w) ==
    /\ w.id # 0
    /\ \A m \in Range(toRelay) :
         m.port = w.port /\ m.id = w.id /\ m.kind \in {"forward", "unforward"} =>
           m.kind = w.kind /\ m.token = w.token
    /\ w.kind = "unforward" =>
         /\ fwd[w.port] # None => fwd[w.port].id # w.id
         /\ \A a \in answers : a.port = w.port /\ a.id = w.id => Gone(w.port, w.token)
         /\ \A x \in limbo : x.port = w.port /\ w.id \in {x.id, x.removal} =>
              Gone(w.port, w.token)

IdsFit == \A w \in waiting : IdFits(w)

ListenersFit == Apart /\ TokensFit /\ Ordered(toRelay) /\ IdsFit

\* A line that is taken off the wire leaves the order; what follows an unforward does not
\* ask for its listener again.
LEMMA OrderTail ==
    ASSUME NEW S, NEW q \in Seq(S), q # <<>>, Ordered(q)
    PROVE  /\ Ordered(Tail(q)) /\ Tail(q) \in Seq(S)
           /\ Range(Tail(q)) \subseteq Range(q) /\ Head(q) \in Range(q)
           /\ Head(q).kind = "unforward" =>
                \A m \in Range(Tail(q)) : m.kind = "forward" /\ m.port = Head(q).port =>
                  m.token # Head(q).token
<1>1. PICK n \in Nat : n = Len(q)
  BY LenProperties
<1>2. n # 0 /\ DOMAIN q = 1..n /\ Head(q) = q[1]
  <2>1. Len(q) # 0
    BY EmptySeq
  <2> QED
    BY <1>1, <2>1, LenProperties
<1>3. PICK r : r = Tail(q)
  OBVIOUS
<1>4. /\ r \in Seq(S) /\ Len(r) = n - 1 /\ DOMAIN r = 1..(n - 1)
      /\ \A i \in 1..(n - 1) : r[i] = q[i + 1]
  BY <1>1, <1>2, <1>3, HeadTailProperties, LenProperties
<1>5. Ordered(r)
  <2>1. ASSUME NEW i \in DOMAIN r, NEW j \in DOMAIN r, i < j, r[i].kind = "unforward",
               r[j].kind = "forward", r[i].port = r[j].port
        PROVE  r[i].token # r[j].token
    <3>1. /\ i + 1 \in DOMAIN q /\ j + 1 \in DOMAIN q /\ i + 1 < j + 1
          /\ r[i] = q[i + 1] /\ r[j] = q[j + 1]
      BY <1>2, <1>4, <2>1
    <3> QED
      BY <2>1, <3>1 DEF Ordered
  <2> QED
    BY <2>1 DEF Ordered
<1>6. \A m \in Range(r) : \E i \in 2..n : m = q[i]
  BY <1>4 DEF Range
<1>7. Range(r) \subseteq Range(q) /\ Head(q) \in Range(q)
  BY <1>2, <1>6 DEF Range
<1>8. Head(q).kind = "unforward" =>
        \A m \in Range(r) : m.kind = "forward" /\ m.port = Head(q).port => m.token # Head(q).token
  BY <1>2, <1>6 DEF Ordered
<1> QED
  BY <1>3, <1>4, <1>5, <1>7, <1>8

\* Lines that are put on the wire keep the order, unless they ask for a listener whose end
\* is there.
LEMMA OrderConcat ==
    ASSUME NEW S, NEW q \in Seq(S), NEW r \in Seq(S), Ordered(q), Ordered(r),
           \A x \in Range(q), m \in Range(r) :
             x.kind = "unforward" /\ m.kind = "forward" /\ x.port = m.port => x.token # m.token
    PROVE  Ordered(q \o r) /\ Range(q \o r) = Range(q) \cup Range(r)
<1>1. PICK n \in Nat, k \in Nat : n = Len(q) /\ k = Len(r)
  BY LenProperties
<1>2. DOMAIN q = 1..n /\ DOMAIN r = 1..k
  BY <1>1, LenProperties
<1>3. PICK s : s = q \o r
  OBVIOUS
<1>4. /\ DOMAIN s = 1..(n + k)
      /\ \A i \in 1..(n + k) : s[i] = IF i <= n THEN q[i] ELSE r[i - n]
  BY <1>1, <1>2, <1>3, ConcatProperties, LenProperties
<1>5. ASSUME NEW i \in DOMAIN s, NEW j \in DOMAIN s, i < j, s[i].kind = "unforward",
             s[j].kind = "forward", s[i].port = s[j].port
      PROVE  s[i].token # s[j].token
  <2>0. i \in 1..(n + k) /\ j \in 1..(n + k)
    BY <1>4
  <2>1. CASE j <= n
    <3>1. i \in DOMAIN q /\ j \in DOMAIN q /\ s[i] = q[i] /\ s[j] = q[j]
      BY <1>2, <1>4, <1>5, <2>0, <2>1
    <3> QED
      BY <1>5, <3>1 DEF Ordered
  <2>2. CASE n < i
    <3>1. /\ i - n \in DOMAIN r /\ j - n \in DOMAIN r /\ s[i] = r[i - n] /\ s[j] = r[j - n]
          /\ i - n < j - n
      BY <1>2, <1>4, <1>5, <2>0, <2>2
    <3> QED
      BY <1>5, <3>1 DEF Ordered
  <2>3. CASE i <= n /\ n < j
    <3>1. i \in DOMAIN q /\ j - n \in DOMAIN r /\ s[i] = q[i] /\ s[j] = r[j - n]
      BY <1>2, <1>4, <2>0, <2>3
    <3>2. q[i] \in Range(q) /\ r[j - n] \in Range(r)
      BY <3>1 DEF Range
    <3> QED
      BY <1>5, <3>1, <3>2
  <2> QED
    BY <2>0, <2>1, <2>2, <2>3
<1>6. Ordered(s)
  BY <1>5 DEF Ordered
<1> QED
  BY <1>3, <1>6, RangeConcatenation

\* A request of Send: one of each port, with an id that is not in use.
New(x, kind, T) ==
    x.port \in DOMAIN T /\ x.id = NewId(x.port) /\ x.kind = kind /\ x.token = T[x.port]

\* What Send does to the wire and to the requests.
Asks(kind, T, others) ==
    /\ \A m \in Range(toRelay') : m \in Range(toRelay) \/ New(m, kind, T)
    /\ \A w \in waiting' : w \in others \/ New(w, kind, T)
    /\ Ordered(toRelay')
    /\ DOMAIN T = {} => toRelay' = toRelay /\ waiting' = others

\* It keeps the order, if no end of a listener is on the wire that it asks for.
LEMMA AsksFacts ==
    ASSUME Core, NEW kind \in {"forward", "unforward"}, NEW by \in {"add", "adopt", "broker"},
           NEW C \in SUBSET Ports, NEW T \in [C -> Nat], NEW others,
           Send(kind, by, T, others), Ordered(toRelay),
           kind = "forward" => \A x \in Range(toRelay) :
             x.kind = "unforward" /\ x.port \in C => x.token # T[x.port]
    PROVE  Asks(kind, T, others)
<1> DEFINE ask == [c \in C |-> [port |-> c, id |-> NewId(c), kind |-> kind, token |-> T[c]]]
           asks == {[port |-> c, id |-> NewId(c), kind |-> kind, token |-> T[c]] : c \in C}
<1>0. DOMAIN T = C /\ Types
  BY TypesParts DEF Base, Core
<1>1. /\ toRelay' = toRelay \o SetToSeq(asks)
      /\ \A w \in waiting' : w \in others \/ \E a \in asks : w.port = a.port /\ w.id = a.id
                                               /\ w.kind = kind /\ w.token = a.token
      /\ asks = {} => waiting' = others
  BY <1>0 DEF Send
<1>2. IsFiniteSet(asks)
  <2>1. IsFiniteSet(C)
    BY PortForwardsAssumption, FS_Subset
  <2>2. ask \in Surjection(C, asks)
    BY DEF Surjection
  <2> HIDE DEF ask, asks
  <2> QED
    BY <2>1, <2>2, FS_Surjection
<1>3. \A a \in asks : New(a, kind, T) /\ a \in Request
  BY <1>0, NameTypes DEF New, Request
<1>4. C = {} => asks = {}
  OBVIOUS
<1> HIDE DEF ask, asks
<1>5. SetToSeq(asks) \in Seq(asks) /\ (asks = {} => SetToSeq(asks) = <<>>)
  <2>0. \E A : A = asks
    OBVIOUS
  <2>1. PICK A : A = asks
    BY <2>0
  <2> QED
    BY <1>2, <2>1, SetToSeqType
<1>6. (\E A : A = asks) /\ (\E q : q = toRelay) /\ (\E r : r = SetToSeq(asks))
  OBVIOUS
<1>7. PICK A, q, r : A = asks /\ q = toRelay /\ r = SetToSeq(asks)
  BY <1>6
<1>8. r \in Seq(A) /\ Range(r) \subseteq A /\ toRelay' = q \o r
  BY <1>1, <1>5, <1>7, FiniteRange
<1>9. q \in Seq(Request \cup {Exit}) /\ r \in Seq(Request \cup {Exit})
  <2>1. A \subseteq Request \cup {Exit}
    BY <1>3, <1>7
  <2> QED
    BY <1>7, <1>8, <2>1, SeqMonotonic DEF Base, Core, RelayTypes
<1>10. \A m \in Range(r) : New(m, kind, T)
  BY <1>3, <1>7, <1>8
<1>11. Ordered(r)
  <2>1. \A i \in DOMAIN r : r[i] \in Range(r)
    BY DEF Range
  <2>2. \A i \in DOMAIN r : r[i].kind = kind
    BY <1>10, <2>1 DEF New
  <2> QED
    BY <2>2 DEF Ordered
<1>12. \A x \in Range(q), m \in Range(r) :
         x.kind = "unforward" /\ m.kind = "forward" /\ x.port = m.port => x.token # m.token
  BY <1>0, <1>7, <1>10 DEF New
<1>13. Ordered(q \o r) /\ Range(q \o r) = Range(q) \cup Range(r)
  <2>1. Ordered(q)
    BY <1>7
  <2> QED
    BY <1>9, <1>11, <1>12, <2>1, OrderConcat
<1>14. C = {} => toRelay' = toRelay /\ waiting' = others
  BY <1>1, <1>4, <1>5, <1>7, <1>8, <1>9, ConcatEmptySeq
<1>15. \A w \in waiting' : w \in others \/ New(w, kind, T)
  BY <1>0, <1>1, <1>3 DEF New
<1> QED
  BY <1>0, <1>7, <1>8, <1>10, <1>13, <1>14, <1>15 DEF Asks

\* A new id is of nothing that is on its way.
LEMMA FreshId ==
    ASSUME Core, NEW c \in Ports
    PROVE  /\ NewId(c) # 0
           /\ \A w \in waiting : w.port = c => w.id # NewId(c)
           /\ \A m \in Range(toRelay) : m.port = c => m.id # NewId(c)
           /\ \A a \in answers : a.port = c => a.id # NewId(c)
           /\ \A x \in limbo : x.port = c => x.id # NewId(c) /\ x.removal # NewId(c)
           /\ fwd[c] # None => fwd[c].id # NewId(c)
<1>1. Types
  BY TypesParts DEF Base, Core
<1>2. NewId(c) # 0 /\ NewId(c) \notin UsedIds(c)
  BY <1>1, NamesFree
<1>3. PICK n : n = NewId(c)
  OBVIOUS
<1>4. n \notin UsedIds(c)
  BY <1>2, <1>3
<1> QED
  BY <1>2, <1>3, <1>4 DEF UsedIds, OfPort

\* A new token is known to nobody.
LEMMA FreshToken ==
    ASSUME Base, NEW c \in Ports
    PROVE  /\ NewToken(c) \notin retired[c]
           /\ \A m \in Range(toRelay) : m.port = c => m.token # NewToken(c)
<1>1. Types
  BY TypesParts DEF Base, Core
<1>2. NewToken(c) \notin UsedTokens(c)
  BY <1>1, NamesFree
<1> QED
  BY <1>2 DEF UsedTokens, OfPort

\* Steps that change neither tokens nor lines.
Stays ==
    /\ \A c \in Ports : /\ table'[c] = None <=> table[c] = None
                        /\ table[c] # None => table'[c].token = table[c].token
    /\ waiting' \subseteq waiting /\ answers' \subseteq answers
    /\ UNCHANGED <<conn, toRelay, retired, fwd, limbo>>

\* They keep what is known of the listeners.
LEMMA ListenersStay ==
    ASSUME ListenersFit, Stays
    PROVE  ListenersFit'
<1>1. Apart'
  BY DEF ListenersFit, Apart, Stays
<1>2. TokensFit'
  BY DEF ListenersFit, TokensFit, Known, Stays
<1>3. Ordered(toRelay')
  BY DEF ListenersFit, Stays
<1>4. IdsFit'
  BY DEF ListenersFit, IdsFit, IdFits, Gone, Stays
<1> QED
  BY <1>1, <1>2, <1>3, <1>4 DEF ListenersFit

\* Every new request has an id of its own, and asks again for no listener that is gone.
LEMMA AskIds ==
    ASSUME Core, IdsFit, NEW kind, NEW C \in SUBSET Ports, NEW T \in [C -> Nat],
           NEW others \in SUBSET waiting, Asks(kind, T, others),
           answers' \subseteq answers, UNCHANGED <<fwd, limbo>>,
           kind = "unforward" \/ (kind = "forward" /\ \A w \in waiting : w.kind = "forward")
    PROVE  IdsFit'
<1>0. DOMAIN T = C
  OBVIOUS
<1>1. ASSUME NEW c, NEW t, kind = "unforward", Gone(c, t)
      PROVE  Gone(c, t)'
  BY <1>1 DEF Gone, Asks, New
<1>2. ASSUME NEW w \in others PROVE IdFits(w)'
  <2>1. IdFits(w) /\ w \in waiting /\ w.port \in Ports
    BY WaiterFacts DEF IdsFit, Base
  <2>2. \A m \in Range(toRelay') :
          m.port = w.port /\ m.id = w.id /\ m.kind \in {"forward", "unforward"} =>
            m.kind = w.kind /\ m.token = w.token
    BY <2>1, FreshId DEF Asks, New, IdFits
  <2>3. ASSUME w.kind = "unforward"
        PROVE  /\ fwd'[w.port] # None => fwd'[w.port].id # w.id
               /\ \A a \in answers' : a.port = w.port /\ a.id = w.id => Gone(w.port, w.token)'
               /\ \A x \in limbo' : x.port = w.port /\ w.id \in {x.id, x.removal} =>
                    Gone(w.port, w.token)'
    BY <1>1, <2>1, <2>3 DEF IdFits
  <2> QED
    BY <2>1, <2>2, <2>3 DEF IdFits
<1>3. ASSUME NEW w, New(w, kind, T) PROVE IdFits(w)'
  <2>1. w.port \in Ports /\ w.id = NewId(w.port)
    BY <1>0, <1>3 DEF New
  <2>2. \A m \in Range(toRelay') :
          m.port = w.port /\ m.id = w.id /\ m.kind \in {"forward", "unforward"} =>
            m.kind = w.kind /\ m.token = w.token
    BY <1>3, <2>1, FreshId DEF Asks, New
  <2>3. /\ w.id # 0
        /\ fwd'[w.port] # None => fwd'[w.port].id # w.id
        /\ \A a \in answers' : ~(a.port = w.port /\ a.id = w.id)
        /\ \A x \in limbo' : ~(x.port = w.port /\ w.id \in {x.id, x.removal})
    BY <2>1, FreshId
  <2> QED
    BY <2>2, <2>3 DEF IdFits
<1> QED
  BY <1>2, <1>3 DEF IdsFit, Asks

\* A permission for a port without one has a token nobody knows.
LEMMA ListenersGrant ==
    ASSUME Base, ListenersFit, NEW c \in Ports, table[c] = None,
           table' = [table EXCEPT ![c] = [token |-> NewToken(c), host |-> table'[c].host,
                                          active |-> FALSE, establishing |-> TRUE]],
           UNCHANGED <<retired, waiting, relay>>
    PROVE  ListenersFit'
<1>1. /\ UNCHANGED <<retired, waiting, conn, toRelay, answers, fwd, limbo>>
      /\ table'[c].token = NewToken(c)
      /\ \A d \in Ports \ {c} : table'[d] = table[d]
  BY DEF relay, Base, Core, GatewayTypes
<1>2. Apart' /\ Ordered(toRelay') /\ IdsFit'
  BY <1>1 DEF ListenersFit, Apart, IdsFit, IdFits, Gone
<1>3. TokensFit'
  <2>1. ASSUME NEW d \in Ports \ {c}
        PROVE  /\ fwd'[d] # None => fwd'[d].token \in Known(d)'
               /\ \A m \in Range(toRelay') :
                    m.kind = "forward" /\ m.port = d => m.token \in Known(d)'
               /\ table'[d] # None =>
                    /\ table'[d].token \notin retired'[d]
                    /\ \A m \in Range(toRelay') :
                         m.kind = "unforward" /\ m.port = d => m.token # table'[d].token
    BY <1>1 DEF ListenersFit, TokensFit, Known
  <2>2. /\ fwd'[c] # None => fwd'[c].token \in retired'[c]
        /\ \A m \in Range(toRelay') : m.kind = "forward" /\ m.port = c => m.token \in retired'[c]
    BY <1>1 DEF ListenersFit, TokensFit, Known
  <2>3. /\ table'[c].token \notin retired'[c]
        /\ \A m \in Range(toRelay') : m.port = c => m.token # table'[c].token
    BY <1>1, FreshToken
  <2>4. retired'[c] \subseteq Known(c)'
    BY DEF Known
  <2> QED
    BY <2>1, <2>2, <2>3, <2>4 DEF TokensFit
<1> QED
  BY <1>2, <1>3 DEF ListenersFit

\* The relay is asked for the listener of an add.
LEMMA ListenersAsk ==
    ASSUME Base, ListenersFit, EnsureReady
    PROVE  ListenersFit'
<1>0. (\E c : c = cur.key[2]) /\ (\E o : o = waiting) /\ (\E k : k = "forward") /\ (\E b : b = "add")
      /\ (\E T : T = [x \in {cur.key[2]} |-> table[x].token])
  OBVIOUS
<1>1. PICK c, o, k, b, T : /\ c = cur.key[2] /\ o = waiting /\ k = "forward" /\ b = "add"
                           /\ T = [x \in {cur.key[2]} |-> table[x].token]
  BY <1>0
<1>2. /\ conn /\ cur # None /\ cur.step = "ensure"
      /\ UNCHANGED <<table, retired, conn, answers, fwd, limbo>>
  BY DEF EnsureReady
<1>3. c \in Ports /\ table[c] # None /\ table[c].token \in Nat
  <2>1. c \in Ports /\ table[c] # None
    BY <1>1, <1>2, MutationFacts DEF Base, Core, CurFits
  <2> QED
    BY <2>1 DEF Base, Core, GatewayTypes, Resource
<1>4. \A w \in waiting : w.kind = "forward"
  <2>1. \A w \in waiting : w.kind # "unforward"
    BY <1>2, WaiterFacts DEF Base, Stopping
  <2> QED
    BY <2>1 DEF Base, Core, GatewayTypes, Waiter
<1>5. PICK C : C = {c}
  OBVIOUS
<1>6. C \in SUBSET Ports /\ T \in [C -> Nat] /\ DOMAIN T = {c} /\ T[c] = table[c].token
  BY <1>1, <1>3, <1>5
<1>7. Send(k, b, T, o)
  BY <1>1 DEF EnsureReady, Send
<1>8. \A x \in Range(toRelay) : x.kind = "unforward" /\ x.port \in C => x.token # T[x.port]
  BY <1>3, <1>5, <1>6 DEF ListenersFit, TokensFit
<1>9. Asks(k, T, o)
  BY <1>1, <1>6, <1>7, <1>8, AsksFacts DEF ListenersFit, Base
<1>10. IdsFit'
  BY <1>1, <1>2, <1>4, <1>6, <1>9, AskIds DEF ListenersFit, Base
<1>11. TokensFit'
  <2>1. \A m \in Range(toRelay') : m \in Range(toRelay) \/
          (m.port = c /\ m.kind = "forward" /\ m.token = table[c].token)
    BY <1>1, <1>6, <1>9 DEF Asks, New
  <2>2. \A d \in Ports : Known(d)' = Known(d) /\ (table[d] # None => table[d].token \in Known(d))
    BY <1>2 DEF Known
  <2> QED
    BY <1>2, <1>3, <2>1, <2>2 DEF ListenersFit, TokensFit
<1>12. Apart' /\ Ordered(toRelay')
  BY <1>2, <1>9 DEF Apart, Asks
<1> QED
  BY <1>10, <1>11, <1>12 DEF ListenersFit

\* A permission that ends is retired: its listener stays known.
LEMMA ListenersRetire ==
    ASSUME Core, ListenersFit, NEW C \in SUBSET Ports, NEW step,
           NEW others \in SUBSET waiting, Unforward(C, step, others), answers' \subseteq answers
    PROVE  ListenersFit'
<1> DEFINE asked == {c \in C : conn /\ Retired(C)[c] # {}}
           T0 == [c \in asked |-> CHOOSE t \in Retired(C)[c] : TRUE]
<1>0. Types
  BY TypesParts DEF Base, Core
<1>1. /\ retired' = Retired(C)
      /\ table' = [c \in Ports |-> IF c \in C THEN None ELSE table[c]]
      /\ Send("unforward", "broker", T0, others)
      /\ UNCHANGED <<conn, fwd, limbo>>
  BY DEF Unforward
<1>2. T0 \in [asked -> Nat]
  <2>1. \A c \in asked : Retired(C)[c] \subseteq Nat /\ Retired(C)[c] # {}
    BY <1>0, RetiredType
  <2> QED
    BY <2>1
<1>3. asked \in SUBSET Ports /\ asked \subseteq C /\ (~conn => asked = {})
  OBVIOUS
<1> HIDE DEF T0, asked
<1>4. (\E D : D = asked) /\ (\E T : T = T0) /\ (\E k : k = "unforward") /\ (\E b : b = "broker")
  OBVIOUS
<1>5. PICK D, T, k, b : D = asked /\ T = T0 /\ k = "unforward" /\ b = "broker"
  BY <1>4
<1>6. D \in SUBSET Ports /\ T \in [D -> Nat] /\ DOMAIN T = D
  BY <1>2, <1>3, <1>5
<1>7. Send(k, b, T, others)
  BY <1>1, <1>5 DEF Send
<1>8. Asks(k, T, others)
  BY <1>5, <1>6, <1>7, AsksFacts DEF ListenersFit, Base
<1>9. IdsFit'
  BY <1>1, <1>5, <1>6, <1>8, AskIds DEF ListenersFit, Base
<1>10. TokensFit'
  <2>1. \A m \in Range(toRelay') : m \in Range(toRelay) \/ (m.port \in C /\ m.kind = "unforward")
    BY <1>3, <1>5, <1>6, <1>8 DEF Asks, New
  <2>2. \A c \in Ports :
          retired'[c] = IF c \in C /\ table[c] # None THEN retired[c] \cup {table[c].token}
                                                      ELSE retired[c]
    BY <1>1 DEF Retired
  <2>3. \A c \in Ports : table'[c] = IF c \in C THEN None ELSE table[c]
    BY <1>1
  <2>4. \A c \in Ports : Known(c) \subseteq Known(c)'
    BY <2>2, <2>3 DEF Known
  <2> QED
    BY <1>1, <2>1, <2>2, <2>3, <2>4 DEF ListenersFit, TokensFit
<1>11. Ordered(toRelay')
  BY <1>8 DEF Asks
<1>12. Apart'
  <2>1. ~conn => toRelay' = toRelay /\ waiting' = others
    BY <1>3, <1>5, <1>6, <1>8 DEF Asks
  <2> QED
    BY <1>1, <2>1 DEF ListenersFit, Apart
<1> QED
  BY <1>9, <1>10, <1>11, <1>12 DEF ListenersFit

\* A token is forgotten when the relay has confirmed that its listener is gone.
LEMMA ListenersConfirm ==
    ASSUME Base, ListenersFit, NEW w \in waiting, w.kind = "unforward", Settled(w, TRUE),
           EndUnforward(w)
    PROVE  ListenersFit'
<1>1. /\ UNCHANGED <<table, conn, fwd, limbo>> /\ answers' \subseteq answers
      /\ w.port \in Ports /\ w \in Waiter
  BY WaiterFacts DEF Settled, EndUnforward, Base
<1>2. Gone(w.port, w.token)
  <2>1. \E a \in answers : a.port = w.port /\ a.id = w.id
    BY DEF Settled
  <2> QED
    BY <2>1 DEF ListenersFit, IdsFit, IdFits
<1>3. conn
  BY DEF ListenersFit, Apart
<1>4. (\E l : l = retired[w.port] \ {w.token}) /\ (\E o : o = waiting \ {w})
      /\ (\E p : p = w.port) /\ (\E t : t = w.token)
  OBVIOUS
<1>5. PICK left, others, p, t : left = retired[w.port] \ {w.token} /\ others = waiting \ {w}
                                /\ p = w.port /\ t = w.token
  BY <1>4
<1>6. /\ p \in Ports /\ left \subseteq Nat /\ left \subseteq retired[p]
      /\ retired' = [retired EXCEPT ![p] = left]
  BY <1>1, <1>5 DEF EndUnforward, Base, Core, GatewayTypes
<1>7. \A c \in Ports : retired'[c] = IF c = p THEN retired[p] \ {t} ELSE retired[c]
  BY <1>5, <1>6 DEF Base, Core, GatewayTypes
<1>8. \/ toRelay' = toRelay /\ waiting' = others
      \/ \E T \in [{p} -> left] : Asks("unforward", T, others)
  <2>1. CASE left = {}
    BY <1>5, <2>1 DEF EndUnforward, EndRequest
  <2>2. CASE left # {}
    <3> DEFINE T0 == [c \in {w.port} |-> CHOOSE x \in retired[w.port] \ {w.token} : TRUE]
    <3>1. T0 \in [{p} -> left]
      BY <1>5, <2>2
    <3>2. Send("unforward", "broker", T0, waiting \ {w})
      BY <1>5, <2>2 DEF EndUnforward
    <3> HIDE DEF T0
    <3>3. (\E T : T = T0) /\ (\E D : D = {p}) /\ (\E k : k = "unforward") /\ (\E b : b = "broker")
      OBVIOUS
    <3>4. PICK T, D, k, b : T = T0 /\ D = {p} /\ k = "unforward" /\ b = "broker"
      BY <3>3
    <3>5. D \in SUBSET Ports /\ T \in [D -> Nat] /\ T \in [{p} -> left]
      BY <1>6, <3>1, <3>4
    <3>6. Send(k, b, T, others)
      BY <1>5, <3>2, <3>4 DEF Send
    <3>7. Asks(k, T, others)
      BY <3>4, <3>5, <3>6, AsksFacts DEF ListenersFit, Base
    <3> QED
      BY <3>4, <3>5, <3>7
  <2> QED
    BY <2>1, <2>2
<1>9. /\ \A m \in Range(toRelay') : m \in Range(toRelay) \/
           (m.port = p /\ m.kind = "unforward" /\ m.token \in left)
      /\ Ordered(toRelay') /\ IdsFit'
  <2>1. CASE toRelay' = toRelay /\ waiting' = others
    BY <1>1, <1>5, <2>1 DEF ListenersFit, IdsFit, IdFits, Gone
  <2>2. ASSUME NEW T \in [{p} -> left], Asks("unforward", T, others)
        PROVE  /\ \A m \in Range(toRelay') : m \in Range(toRelay) \/
                    (m.port = p /\ m.kind = "unforward" /\ m.token \in left)
               /\ Ordered(toRelay') /\ IdsFit'
    <3>1. PICK C, k : C = {p} /\ k = "unforward"
      OBVIOUS
    <3>2. C \in SUBSET Ports /\ T \in [C -> Nat] /\ Asks(k, T, others) /\ others \in SUBSET waiting
      BY <1>5, <1>6, <2>2, <3>1
    <3>3. IdsFit'
      BY <1>1, <3>1, <3>2, AskIds DEF ListenersFit, Base
    <3> QED
      BY <2>2, <3>3 DEF Asks, New
  <2> QED
    BY <1>8, <2>1, <2>2
<1>10. TokensFit'
  <2>1. \A c \in Ports : Known(c)' = IF c = p
            THEN (retired[p] \ {t}) \cup (IF table[p] = None THEN {} ELSE {table[p].token})
            ELSE Known(c)
    BY <1>1, <1>7 DEF Known
  <2>2. Gone(p, t)
    BY <1>2, <1>5
  <2>3. ASSUME NEW c \in Ports
        PROVE  /\ fwd'[c] # None => fwd'[c].token \in Known(c)'
               /\ \A m \in Range(toRelay') :
                    m.kind = "forward" /\ m.port = c => m.token \in Known(c)'
    <3>1. CASE c = p
      BY <1>1, <1>9, <2>1, <2>2, <3>1 DEF ListenersFit, TokensFit, Known, Gone
    <3>2. CASE c # p
      BY <1>1, <1>9, <2>1, <3>2 DEF ListenersFit, TokensFit
    <3> QED
      BY <3>1, <3>2
  <2>4. ASSUME NEW c \in Ports, table'[c] # None
        PROVE  /\ table'[c].token \notin retired'[c]
               /\ \A m \in Range(toRelay') :
                    m.kind = "unforward" /\ m.port = c => m.token # table'[c].token
    <3>1. table'[c] = table[c] /\ retired'[c] \subseteq retired[c] /\ (c = p => left \subseteq retired[c])
      BY <1>1, <1>6, <1>7
    <3>2. /\ table[c].token \notin retired[c]
          /\ \A m \in Range(toRelay) :
               m.kind = "unforward" /\ m.port = c => m.token # table[c].token
      BY <2>4, <3>1 DEF ListenersFit, TokensFit
    <3> QED
      BY <1>9, <3>1, <3>2
  <2> QED
    BY <2>3, <2>4 DEF TokensFit
<1> QED
  BY <1>1, <1>3, <1>9, <1>10 DEF ListenersFit, Apart

\* An empty wire.
LEMMA EmptyWire == Range(<<>>) = {} /\ Ordered(<<>>)
<1>1. DOMAIN <<>> = {}
  OBVIOUS
<1> QED
  BY <1>1 DEF Range, Ordered

\* With the relay its listeners are gone.
LEMMA ListenersLost ==
    ASSUME Base, LoseRelay
    PROVE  ListenersFit'
<1> DEFINE asked0 == {w.port : w \in {x \in waiting : x.kind = "forward"
                     /\ table[x.port] # None /\ table[x.port].token = x.token}}
<1>0. (\E A : A = Adding) /\ (\E D : D = asked0)
  OBVIOUS
<1>1. PICK A, D : A = Adding /\ D = asked0
  BY <1>0
<1>2. /\ toRelay' = <<>> /\ waiting' = {} /\ answers' = {} /\ limbo' = {} /\ conn' = FALSE
      /\ fwd' = [c \in Ports |-> None]
      /\ table' = [c \in Ports |->
              IF c \in A \/ table[c] = None THEN None
              ELSE [table[c] EXCEPT !.active = FALSE,
                                    !.establishing = @ /\ c \notin D]]
      /\ retired' = [c \in Ports |-> IF c \in A THEN {table[c].token} ELSE {}]
  BY <1>1 DEF LoseRelay, Adding
<1>3. Range(toRelay') = {} /\ \A c \in Ports : fwd'[c] = None
  BY <1>2, EmptyWire
<1>4. \A c \in Ports : c \in A => table'[c] = None
  BY <1>2
<1>5. \A c \in Ports : c \notin A => retired'[c] = {}
  BY <1>2
<1>6. TokensFit'
  BY <1>3, <1>4, <1>5 DEF TokensFit
<1>7. Apart' /\ IdsFit'
  BY <1>2, <1>3 DEF Apart, IdsFit
<1>8. Ordered(toRelay')
  BY <1>2, EmptyWire
<1> QED
  BY <1>6, <1>7, <1>8 DEF ListenersFit

\* The line that tells the relay to exit asks for no listener.
LEMMA ListenersExit ==
    ASSUME Base, ListenersFit, UNCHANGED <<gateway, conn, answers, fwd, limbo>>,
           toRelay' = IF conn THEN Append(toRelay, Exit) ELSE toRelay
    PROVE  ListenersFit'
<1>1. CASE ~conn
  <2>1. Stays
    BY <1>1 DEF Stays, gateway
  <2> QED
    BY <2>1, ListenersStay
<1>2. CASE conn
  <2>0. (\E q : q = toRelay) /\ (\E e : e = Exit)
    OBVIOUS
  <2>1. PICK q, e : q = toRelay /\ e = Exit
    BY <2>0
  <2>2. q \in Seq(Request \cup {Exit}) /\ e \in Request \cup {Exit} /\ e.kind = "initial-failed"
    BY <2>1 DEF Base, Core, RelayTypes, Exit
  <2>3. q \o <<e>> = Append(q, e) /\ Range(q \o <<e>>) = Range(q) \cup {e}
    BY <2>2, RangeOne
  <2>4. Range(toRelay') = Range(toRelay) \cup {e}
    BY <1>2, <2>1, <2>3
  <2>5. Ordered(toRelay')
    <3>1. PICK r : r = <<e>>
      OBVIOUS
    <3>2. r \in Seq(Request \cup {Exit}) /\ Range(r) = {e} /\ Ordered(r) /\ Ordered(q)
      BY <2>1, <2>2, <3>1 DEF Range, Ordered, ListenersFit
    <3>3. Ordered(q \o r)
      BY <2>2, <3>2, OrderConcat
    <3> QED
      BY <1>2, <2>1, <2>3, <3>1, <3>3
  <2>6. TokensFit'
    BY <2>2, <2>4 DEF ListenersFit, TokensFit, Known, gateway
  <2>7. IdsFit'
    BY <2>2, <2>4 DEF ListenersFit, IdsFit, IdFits, Gone, gateway
  <2>8. Apart'
    BY <1>2 DEF Apart
  <2> QED
    BY <2>5, <2>6, <2>7, <2>8 DEF ListenersFit
<1> QED
  BY <1>1, <1>2 DEF Base, Core, RelayTypes

\* A relay that connects is asked for the mappings the broker keeps, with new tokens.
LEMMA ListenersConnect ==
    ASSUME Base, ListenersFit, Connect
    PROVE  ListenersFit'
<1> DEFINE own == {c \in Ports : table[c] # None /\ table[c].establishing}
           desired == {k[2] : k \in Managed("remote")} \ own
           line == [c \in desired |-> [port |-> c, id |-> 1, kind |-> "forward",
                                       token |-> NewToken(c)]]
           lines == {[port |-> c, id |-> 1, kind |-> "forward",
                      token |-> NewToken(c)] : c \in desired}
           new == [c \in Ports |-> [token |-> NewToken(c), host |-> managed[Remote(c)].host,
                                    active |-> FALSE, establishing |-> TRUE]]
<1>0. Types
  BY TypesParts DEF Base, Core
<1>1. /\ answers = {} /\ limbo = {} /\ \A c \in Ports : fwd[c] = None
  BY DEF ListenersFit, Apart, Connect
<1>2. \A c \in desired : c \in Ports /\ managed[Remote(c)] # None
  BY MutationFacts DEF Managed
<1>3. /\ table' = [c \in Ports |-> IF c \in own THEN table[c]
                                   ELSE IF c \in desired THEN new[c] ELSE None]
      /\ conn' = TRUE
      /\ \A w \in waiting' : w.id = 1 /\ w.kind = "forward" /\ w.port \in desired
                             /\ w.token = NewToken(w.port)
      /\ toRelay' = SetToSeq(lines)
      /\ UNCHANGED <<retired, answers, fwd, limbo>>
  <2> HIDE DEF own, desired
  <2>1. \A c \in desired : c \in Ports
    BY <1>2
  <2> QED
    BY <2>1 DEF Connect, own, desired
<1>4. IsFiniteSet(lines)
  <2>1. IsFiniteSet(desired)
    <3>1. desired \subseteq Ports
      BY <1>2
    <3> HIDE DEF desired
    <3> QED
      BY <3>1, PortForwardsAssumption, FS_Subset
  <2>2. line \in Surjection(desired, lines)
    <3> HIDE DEF desired
    <3> QED
      BY DEF Surjection
  <2> HIDE DEF line, lines, desired
  <2> QED
    BY <2>1, <2>2, FS_Surjection
<1>5. \A m \in lines : m.id = 1 /\ m.kind = "forward" /\ m.port \in desired
                       /\ m.token = NewToken(m.port)
  <2> HIDE DEF desired
  <2> QED
    OBVIOUS
<1>6. \A c \in desired : new[c] # None /\ new[c].token = NewToken(c)
  <2>1. ASSUME NEW c \in desired PROVE new[c] \in Resource /\ new[c].token = NewToken(c)
    <3>1. c \in Ports /\ managed[Remote(c)].host \in HostPorts /\ NewToken(c) \in Nat
      <4> HIDE DEF desired
      <4> QED
        BY <1>0, <1>2, NameTypes, MutationFacts DEF Base, Core, BrokerTypes, Entry
    <3> QED
      BY <3>1 DEF Resource
  <2> QED
    BY <2>1, PortForwardsAssumption
<1>7. desired \cap own = {}
  OBVIOUS
<1> HIDE DEF line, lines, desired, own, new
<1>8. \A m \in Range(toRelay') : m \in lines
  <2>0. (\E L : L = lines) /\ (\E q : q = toRelay')
    OBVIOUS
  <2>1. PICK L, q : L = lines /\ q = toRelay'
    BY <2>0
  <2>2. q \in Seq(L)
    BY <1>3, <1>4, <2>1, SetToSeqType
  <2>3. Range(q) \subseteq L
    BY <2>2, FiniteRange
  <2> QED
    BY <2>1, <2>3
<1>9. \A m \in Range(toRelay') : m.id = 1 /\ m.kind = "forward" /\ m.port \in desired
                                 /\ m.token = NewToken(m.port)
  BY <1>5, <1>8
<1>10. TokensFit'
  <2>1. ASSUME NEW c \in Ports, table'[c] # None PROVE table'[c].token \notin retired'[c]
    <3>1. CASE c \in own
      BY <1>3, <2>1, <3>1 DEF ListenersFit, TokensFit
    <3>2. CASE c \in desired
      BY <1>3, <1>6, <1>7, <3>2, FreshToken
    <3> QED
      BY <1>3, <2>1, <3>1, <3>2
  <2>2. ASSUME NEW c \in desired PROVE NewToken(c) \in Known(c)'
    BY <1>2, <1>3, <1>6, <1>7 DEF Known
  <2> QED
    BY <1>1, <1>3, <1>9, <2>1, <2>2 DEF TokensFit
<1>11. Ordered(toRelay')
  <2>1. \A i \in DOMAIN toRelay' : toRelay'[i] \in Range(toRelay')
    BY DEF Range
  <2> QED
    BY <1>9, <2>1 DEF Ordered
<1>12. IdsFit'
  BY <1>3, <1>9 DEF IdsFit, IdFits
<1> QED
  BY <1>3, <1>10, <1>11, <1>12 DEF ListenersFit, Apart

\* The relay takes a line.
LEMMA LineTaken ==
    ASSUME Base, ListenersFit, toRelay # <<>>, toRelay' = Tail(toRelay),
           Head(toRelay).kind \in {"forward", "unforward"}
    PROVE  /\ conn /\ Ordered(toRelay')
           /\ Range(toRelay') \subseteq Range(toRelay)
           /\ Head(toRelay) \in Range(toRelay) /\ Head(toRelay).port \in Ports
           /\ Head(toRelay).kind = "unforward" =>
                \A m \in Range(toRelay') : m.kind = "forward" /\ m.port = Head(toRelay).port =>
                  m.token # Head(toRelay).token
<1>1. conn
  BY DEF ListenersFit, Apart
<1>2. Head(toRelay).port \in Ports
  <2>1. Head(toRelay) \in Request \cup {Exit}
    BY HeadTailProperties DEF Base, Core, RelayTypes
  <2>2. Head(toRelay) # Exit
    BY DEF Exit
  <2> QED
    BY <2>1, <2>2 DEF Request
<1>3. toRelay \in Seq(Request \cup {Exit}) /\ Ordered(toRelay)
  BY DEF Base, Core, RelayTypes, ListenersFit
<1>4. \E q : q = toRelay
  OBVIOUS
<1>5. PICK q : q = toRelay
  BY <1>4
<1>6. /\ Ordered(Tail(q)) /\ Range(Tail(q)) \subseteq Range(q) /\ Head(q) \in Range(q)
      /\ Head(q).kind = "unforward" =>
           \A m \in Range(Tail(q)) : m.kind = "forward" /\ m.port = Head(q).port =>
             m.token # Head(q).token
  BY <1>3, <1>5, OrderTail
<1> QED
  BY <1>1, <1>2, <1>5, <1>6

\* It opens the listener that is asked for, or refuses it.
LEMMA ListenersOpen ==
    ASSUME Base, ListenersFit, RelayForward
    PROVE  ListenersFit'
<1>0. \E m : m = Head(toRelay)
  OBVIOUS
<1>1. PICK m : m = Head(toRelay)
  BY <1>0
<1>2. /\ conn /\ Ordered(toRelay') /\ Range(toRelay') \subseteq Range(toRelay)
      /\ m \in Range(toRelay) /\ m.port \in Ports /\ m.kind = "forward"
  BY <1>1, LineTaken DEF RelayForward
<1>3. /\ UNCHANGED <<table, retired, waiting, conn, limbo>>
      /\ \/ fwd' = fwd /\ answers' = answers \cup {[port |-> m.port, id |-> m.id, ok |-> FALSE]}
         \/ /\ answers' = answers
            /\ fwd' = [fwd EXCEPT ![m.port] = [token |-> m.token, id |-> m.id, ready |-> FALSE]]
  BY <1>1 DEF RelayForward, RelayOnly, gateway
<1>4. \A c \in Ports : \/ fwd'[c] = fwd[c]
                       \/ c = m.port /\ fwd'[c].token = m.token /\ fwd'[c].id = m.id
  BY <1>2, <1>3 DEF Base, Core, RelayTypes
<1>5. \A a \in answers' : a \in answers \/ (a.port = m.port /\ a.id = m.id)
  BY <1>3
<1>6. ASSUME NEW c \in Ports, NEW t, Gone(c, t) PROVE Gone(c, t)'
  BY <1>2, <1>4, <1>6 DEF Gone
<1>7. TokensFit'
  BY <1>2, <1>3, <1>4 DEF ListenersFit, TokensFit, Known
<1>8. ASSUME NEW w \in waiting PROVE IdFits(w)'
  <2>1. IdFits(w) /\ w.port \in Ports
    BY WaiterFacts DEF ListenersFit, IdsFit, Base
  <2>2. \A x \in Range(toRelay') :
          x.port = w.port /\ x.id = w.id /\ x.kind \in {"forward", "unforward"} =>
            x.kind = w.kind /\ x.token = w.token
    BY <1>2, <2>1 DEF IdFits
  <2>3. w.kind = "unforward" => ~(m.port = w.port /\ m.id = w.id)
    BY <1>2, <2>1 DEF IdFits
  <2>4. ASSUME w.kind = "unforward"
        PROVE  /\ fwd'[w.port] # None => fwd'[w.port].id # w.id
               /\ \A a \in answers' : a.port = w.port /\ a.id = w.id => Gone(w.port, w.token)'
               /\ \A x \in limbo' : x.port = w.port /\ w.id \in {x.id, x.removal} =>
                    Gone(w.port, w.token)'
    BY <1>3, <1>4, <1>5, <1>6, <2>1, <2>3, <2>4 DEF IdFits
  <2> QED
    BY <2>1, <2>2, <2>4 DEF IdFits
<1> QED
  BY <1>2, <1>3, <1>7, <1>8 DEF ListenersFit, Apart, IdsFit

\* The relay ends a listener, at once or when it is ready: it is gone when that is answered.
LEMMA ListenersEnd ==
    ASSUME Base, ListenersFit, RelayUnforward
    PROVE  ListenersFit'
<1>0. \E m : m = Head(toRelay)
  OBVIOUS
<1>1. PICK m : m = Head(toRelay)
  BY <1>0
<1>2. /\ conn /\ Ordered(toRelay') /\ Range(toRelay') \subseteq Range(toRelay)
      /\ m \in Range(toRelay) /\ m.port \in Ports /\ m.kind = "unforward"
      /\ \A x \in Range(toRelay') : x.kind = "forward" /\ x.port = m.port => x.token # m.token
  BY <1>1, LineTaken DEF RelayUnforward
<1>3. /\ UNCHANGED <<table, retired, waiting, conn>>
      /\ fwd' = IF fwd[m.port] # None /\ fwd[m.port].token = m.token
                THEN [fwd EXCEPT ![m.port] = None] ELSE fwd
      /\ \A a \in answers' : a \in answers \/ (a.port = m.port /\ a.id = m.id)
      /\ \A x \in limbo' : x \in limbo \/
           (x.port = m.port /\ fwd[m.port] # None /\ x.id = fwd[m.port].id /\ x.removal = m.id)
  BY <1>1 DEF RelayUnforward, RelayOnly, gateway
<1>4. \A c \in Ports : fwd'[c] = fwd[c] \/ fwd'[c] = None
  BY <1>2, <1>3 DEF Base, Core, RelayTypes
<1>5. Gone(m.port, m.token)'
  BY <1>2, <1>3 DEF Gone, Base, Core, RelayTypes
<1>6. ASSUME NEW c \in Ports, NEW t, Gone(c, t) PROVE Gone(c, t)'
  BY <1>2, <1>4, <1>6 DEF Gone
<1>7. TokensFit'
  BY <1>2, <1>3, <1>4 DEF ListenersFit, TokensFit, Known
<1>8. ASSUME NEW w \in waiting PROVE IdFits(w)'
  <2>1. IdFits(w) /\ w.port \in Ports
    BY WaiterFacts DEF ListenersFit, IdsFit, Base
  <2>2. \A x \in Range(toRelay') :
          x.port = w.port /\ x.id = w.id /\ x.kind \in {"forward", "unforward"} =>
            x.kind = w.kind /\ x.token = w.token
    BY <1>2, <2>1 DEF IdFits
  <2>3. m.port = w.port /\ m.id = w.id => Gone(w.port, w.token)'
    BY <1>2, <1>5, <2>1 DEF IdFits
  <2>4. ASSUME w.kind = "unforward"
        PROVE  /\ fwd'[w.port] # None => fwd'[w.port].id # w.id
               /\ \A a \in answers' : a.port = w.port /\ a.id = w.id => Gone(w.port, w.token)'
               /\ \A x \in limbo' : x.port = w.port /\ w.id \in {x.id, x.removal} =>
                    Gone(w.port, w.token)'
    <3>1. Gone(w.port, w.token) => Gone(w.port, w.token)'
      BY <1>6, <2>1
    <3> QED
      BY <1>3, <1>4, <2>1, <2>3, <2>4, <3>1 DEF IdFits
  <2> QED
    BY <2>1, <2>2, <2>4 DEF IdFits
<1> QED
  BY <1>2, <1>3, <1>7, <1>8 DEF ListenersFit, Apart, IdsFit

\* The listener of the port is the same one, and its request is answered.
Readied(c) == fwd[c] # None /\ fwd'[c].token = fwd[c].token /\ fwd'[c].id = 0

\* A listener is ready, or could not be opened; a cancelled one is closed.
LEMMA ListenersReady ==
    ASSUME Base, ListenersFit, RelayCancelled \/ \E c \in Ports : RelayListens(c)
    PROVE  ListenersFit'
<1>1. /\ UNCHANGED <<table, retired, waiting, conn, toRelay>>
      /\ limbo' \subseteq limbo /\ (conn' \/ (answers' = answers /\ fwd' = fwd))
      /\ \A c \in Ports : fwd'[c] \in {fwd[c], None} \/ Readied(c)
      /\ \A a \in answers' : \/ a \in answers
                             \/ fwd[a.port] # None /\ fwd[a.port].id = a.id
                             \/ \E x \in limbo : x.port = a.port /\ a.id \in {x.id, x.removal}
  <2>1. CASE RelayCancelled
    <3>1. PICK x \in limbo :
            /\ limbo' = limbo \ {x}
            /\ \A a \in answers' : a \in answers \/ (a.port = x.port /\ a.id \in {x.id, x.removal})
      BY <2>1 DEF RelayCancelled
    <3>2. UNCHANGED <<table, retired, waiting, conn, toRelay, fwd>>
      BY <2>1 DEF RelayCancelled, RelayOnly, gateway
    <3>3. conn
      BY DEF ListenersFit, Apart
    <3> QED
      BY <3>1, <3>2, <3>3
  <2>2. ASSUME NEW c \in Ports, RelayListens(c)
        PROVE  /\ UNCHANGED <<table, retired, waiting, conn, toRelay, limbo>> /\ conn
               /\ \A d \in Ports : fwd'[d] \in {fwd[d], None} \/ Readied(d)
               /\ \A a \in answers' : \/ a \in answers
                                      \/ fwd[a.port] # None /\ fwd[a.port].id = a.id
    <3>1. UNCHANGED <<table, retired, waiting, conn, toRelay, limbo>> /\ fwd[c] # None
      BY <2>2 DEF RelayListens, RelayOnly, gateway
    <3>2. conn
      BY <3>1 DEF ListenersFit, Apart
    <3>3. PICK ok \in BOOLEAN :
          /\ answers' = answers \cup {[port |-> c, id |-> fwd[c].id, ok |-> ok]}
          /\ fwd' = IF ok THEN [fwd EXCEPT ![c].ready = TRUE, ![c].id = 0]
                          ELSE [fwd EXCEPT ![c] = None]
      BY <2>2 DEF RelayListens
    <3>4. fwd[c] \in Listener /\ fwd \in [Ports -> Listener \cup {None}]
      BY <3>1 DEF Base, Core, RelayTypes
    <3>5. PICK l : l = [[fwd[c] EXCEPT !.ready = TRUE] EXCEPT !.id = 0]
      OBVIOUS
    <3>6. l.token = fwd[c].token /\ l.id = 0
      BY <3>4, <3>5 DEF Listener
    <3>7. \A d \in Ports : fwd'[d] = fwd[d] \/ fwd'[d] = None \/ (d = c /\ fwd'[d] = l)
      BY <3>3, <3>4, <3>5
    <3>8. \A d \in Ports :
            fwd'[d] \in {fwd[d], None} \/ Readied(d)
      BY <3>1, <3>6, <3>7 DEF Readied
    <3>9. \A a \in answers' : a \in answers \/ (fwd[a.port] # None /\ fwd[a.port].id = a.id)
      <4>1. PICK b : b = [port |-> c, id |-> fwd[c].id, ok |-> ok]
        OBVIOUS
      <4>2. b.port = c /\ b.id = fwd[c].id /\ answers' = answers \cup {b}
        BY <3>3, <4>1
      <4> QED
        BY <3>1, <4>2
    <3> QED
      BY <3>1, <3>2, <3>8, <3>9
  <2> QED
    BY <2>1, <2>2
<1>2. ASSUME NEW c \in Ports, NEW t, Gone(c, t) PROVE Gone(c, t)'
  BY <1>1, <1>2 DEF Gone, Readied
<1>3. TokensFit'
  BY <1>1 DEF ListenersFit, TokensFit, Known, Readied
<1>4. ASSUME NEW w \in waiting PROVE IdFits(w)'
  <2>1. IdFits(w) /\ w.port \in Ports
    BY WaiterFacts DEF ListenersFit, IdsFit, Base
  <2>2. ASSUME w.kind = "unforward"
        PROVE  /\ fwd'[w.port] # None => fwd'[w.port].id # w.id
               /\ \A a \in answers' : a.port = w.port /\ a.id = w.id => Gone(w.port, w.token)'
               /\ \A x \in limbo' : x.port = w.port /\ w.id \in {x.id, x.removal} =>
                    Gone(w.port, w.token)'
    <3>1. Gone(w.port, w.token) => Gone(w.port, w.token)'
      BY <1>2, <2>1
    <3>2. /\ w.id # 0 /\ (fwd[w.port] # None => fwd[w.port].id # w.id)
          /\ \A a \in answers : a.port = w.port /\ a.id = w.id => Gone(w.port, w.token)
          /\ \A x \in limbo : x.port = w.port /\ w.id \in {x.id, x.removal} =>
                    Gone(w.port, w.token)
      BY <2>1, <2>2 DEF IdFits
    <3> QED
      BY <1>1, <2>1, <3>1, <3>2 DEF Readied
  <2> QED
    BY <1>1, <2>1, <2>2 DEF IdFits
<1>5. IdsFit' /\ Ordered(toRelay')
  BY <1>1, <1>4 DEF ListenersFit, IdsFit
<1>6. Apart'
  BY <1>1 DEF ListenersFit, Apart
<1> QED
  BY <1>3, <1>5, <1>6 DEF ListenersFit

\* A permission that is settled keeps its token.
LEMMA TokenStays ==
    ASSUME GatewayTypes, NEW c \in Ports, table[c] # None, NEW a \in BOOLEAN,
           table' = [table EXCEPT ![c].active = a, ![c].establishing = FALSE]
    PROVE  \A d \in Ports : /\ table'[d] = None <=> table[d] = None
                            /\ table[d] # None => table'[d].token = table[d].token
<1>1. table[c] \in Resource /\ table \in [Ports -> Resource \cup {None}] /\ None \notin Resource
  BY PortForwardsAssumption DEF GatewayTypes
<1>2. PICK r : r = [[table[c] EXCEPT !.active = a] EXCEPT !.establishing = FALSE]
  OBVIOUS
<1>3. r \in Resource /\ r.token = table[c].token
  BY <1>1, <1>2 DEF Resource
<1>4. \A d \in Ports : table'[d] = IF d = c THEN r ELSE table[d]
  BY <1>1, <1>2
<1> QED
  BY <1>1, <1>3, <1>4

\* The broker's mutations.
LEMMA ListenersBroker ==
    ASSUME Base, PermissionIsManaged, ListenersFit,
           \/ StartAdd \/ Pick \/ Listen \/ EnsureReady \/ EnsureFails
           \/ PersistAdd \/ PersistOwner \/ PersistRevocation \/ StartRemove
           \/ PersistPrepared \/ StartConnected \/ StartState \/ PersistInitial \/ PersistFailure
           \/ CloseBroker
    PROVE  ListenersFit'
<1>0. Core
  BY DEF Base
<1>1. CASE UNCHANGED <<gateway, relay>>
  <2>1. Stays
    BY <1>1 DEF Stays, gateway, relay
  <2> QED
    BY <2>1, ListenersStay
<1>2. ASSUME NEW c \in Ports, NEW step, Unforward({c}, step, waiting), answers' = answers
      PROVE  ListenersFit'
  <2>0. \E o : o = waiting
    OBVIOUS
  <2>1. PICK C, o : C = {c} /\ o = waiting
    BY <2>0
  <2>2. C \in SUBSET Ports /\ o \in SUBSET waiting /\ Unforward(C, step, o)
    BY <1>2, <2>1 DEF Unforward, Send
  <2> QED
    BY <1>0, <1>2, <2>2, ListenersRetire
<1>3. CASE FailInitial
  <2>0. (\E o : o = waiting) /\ (\E C : C = {k[2] : k \in Managed("remote")})
        /\ (\E s : s = "unforwardAll")
    OBVIOUS
  <2>1. PICK C, o, s : C = {k[2] : k \in Managed("remote")} /\ o = waiting /\ s = "unforwardAll"
    BY <2>0
  <2>2. C \in SUBSET Ports
    BY <2>1, MutationFacts DEF Managed
  <2>3. Unforward(C, s, o) /\ answers' = answers /\ o \in SUBSET waiting
    BY <1>3, <2>1 DEF FailInitial, Unforward, Send
  <2> QED
    BY <1>0, <2>2, <2>3, ListenersRetire
<1>4. CASE StartAdd
  <2>0. (\E k : k = Head(queue).key) /\ (\E host : host = Head(queue).host)
    OBVIOUS
  <2>1. PICK k, host : k = Head(queue).key /\ host = Head(queue).host
    BY <2>0
  <2>2. k \in Keys /\ closing \in {"open", "closing"}
    <3>1. Start("add")
      BY <1>4 DEF StartAdd
    <3>2. Head(queue) \in Event /\ Head(queue).type = "add" /\ closing \in {"open", "closing"}
      BY <3>1, StartFacts
    <3> QED
      BY <2>1, <3>2, EventFacts
  <2>3. CASE /\ managed[k] = None /\ k[1] # "local"
             /\ table' = [table EXCEPT ![k[2]] =
                   [token |-> NewToken(k[2]), host |-> host, active |-> FALSE,
                    establishing |-> TRUE]]
             /\ UNCHANGED <<retired, waiting, relay>>
    <3>1. PICK c : c = k[2]
      OBVIOUS
    <3>2. c \in Ports /\ k = Remote(c)
      BY <2>2, <2>3, <3>1, MutationFacts
    <3>3. table[c] = None
      BY <2>2, <2>3, <3>2 DEF PermissionIsManaged
    <3>4. table'[c].host = host
      BY <2>3, <3>1, <3>2 DEF Base, Core, GatewayTypes
    <3> QED
      BY <2>3, <3>1, <3>2, <3>3, <3>4, ListenersGrant
  <2>4. CASE UNCHANGED <<table, retired, waiting, streams, relay>>
    BY <1>1, <2>4 DEF gateway
  <2> QED
    BY <1>4, <2>1, <2>3, <2>4 DEF StartAdd, gateway
<1>5. CASE EnsureFails
  <2>1. cur.key[2] \in Ports
    BY <1>5, MutationFacts DEF EnsureFails, Base, Core, CurFits
  <2>2. \E c : c = cur.key[2]
    OBVIOUS
  <2>3. PICK c : c = cur.key[2]
    BY <2>2
  <2>4. Unforward({c}, "rollback", waiting) /\ answers' = answers
    BY <1>5, <2>3 DEF EnsureFails, AddFails, Unforward, Send
  <2> QED
    BY <1>2, <2>1, <2>3, <2>4
<1>6. CASE PersistAdd
  <2>1. cur.key[2] \in Ports
    BY <1>6, MutationFacts DEF PersistAdd, Persisting, Base, Core, CurFits
  <2>2. \E c : c = cur.key[2]
    OBVIOUS
  <2>3. PICK c : c = cur.key[2]
    BY <2>2
  <2>4. \/ UNCHANGED <<gateway, relay>>
        \/ Unforward({c}, "rollback", waiting) /\ answers' = answers
    <3>1. \/ UNCHANGED <<gateway, relay>>
          \/ Unforward({cur.key[2]}, "rollback", waiting) /\ answers' = answers
      BY <1>6 DEF PersistAdd
    <3>2. ASSUME Unforward({cur.key[2]}, "rollback", waiting)
          PROVE  Unforward({c}, "rollback", waiting)
      <4>1. {cur.key[2]} = {c}
        BY <2>3
      <4> QED
        BY <3>2, <4>1, ZenonT(30) DEF Unforward, Send
    <3> QED
      BY <3>1, <3>2
  <2> QED
    BY <1>1, <1>2, <2>1, <2>3, <2>4
<1>7. CASE StartRemove
  <2> DEFINE op == Head(queue)
             K == IF op.type = "remove" THEN {op.key} \ {k \in Keys : managed[k] = None}
                  ELSE {k \in Managed("local") : managed[k].host = op.host}
  <2>1. PICK t : t \in {"remove", "unbind"} /\ Start(t)
    BY <1>7 DEF StartRemove
  <2>2. op \in Event /\ op.type = t
    BY <2>1, StartFacts
  <2>3. \A k \in K : k[2] \in Ports
    <3>1. op.type = "remove" => op.key \in Keys
      BY <2>2, EventFacts
    <3> QED
      BY <3>1, MutationFacts DEF Managed
  <2> HIDE DEF K
  <2>4. \/ UNCHANGED <<gateway, relay>>
        \/ \E k \in K : Unforward({k[2]}, "unforward", waiting) /\ answers' = answers
    BY <1>7 DEF StartRemove, K
  <2>5. ASSUME NEW k \in K, Unforward({k[2]}, "unforward", waiting), answers' = answers
        PROVE  ListenersFit'
    <3>1. PICK c : c = k[2]
      OBVIOUS
    <3>2. c \in Ports /\ Unforward({c}, "unforward", waiting)
      BY <2>3, <2>5, <3>1
    <3> QED
      BY <1>2, <2>5, <3>2
  <2> QED
    BY <1>1, <2>4, <2>5
<1>8. CASE PersistFailure
  BY <1>8, ListenersExit DEF PersistFailure
<1> QED
  BY <1>1, <1>3, <1>4, <1>5, <1>6, <1>7, <1>8, ListenersAsk
    DEF Pick, Listen, PersistOwner, PersistRevocation, PersistPrepared, StartConnected, StartState,
      PersistInitial, CloseBroker

\* The ends of requests.
LEMMA ListenersAnswered ==
    ASSUME Base, ListenersFit, GatewayStep
    PROVE  ListenersFit'
<1>0. Core
  BY DEF Base
<1>1. PICK w \in waiting : Answer(w) \/ AnswerRefused(w) \/ TimeOut(w)
  BY DEF GatewayStep
<1>2. w.port \in Ports /\ w \in Waiter
  BY WaiterFacts DEF Base
<1>3. ASSUME NEW s, EndAdopted(w, s), answers' \subseteq answers, UNCHANGED <<conn, fwd, limbo>>
      PROVE  ListenersFit'
  <2>1. UNCHANGED <<retired, toRelay>> /\ waiting' \subseteq waiting
    BY <1>3 DEF EndAdopted
  <2>2. \A c \in Ports : /\ table'[c] = None <=> table[c] = None
                         /\ table[c] # None => table'[c].token = table[c].token
    <3>1. CASE UNCHANGED table
      BY <3>1
    <3>2. CASE /\ table[w.port] # None
               /\ table' = [table EXCEPT ![w.port].active = (s = "active"),
                                         ![w.port].establishing = FALSE]
      <4>0. \E c : c = w.port
        OBVIOUS
      <4>1. PICK c, a : c = w.port /\ a = (s = "active")
        BY <4>0
      <4>2. c \in Ports /\ a \in BOOLEAN /\ table[c] # None
            /\ table' = [table EXCEPT ![c].active = a, ![c].establishing = FALSE]
        BY <1>2, <3>2, <4>1
      <4> QED
        BY <4>2, TokenStays DEF Base, Core
    <3> QED
      BY <1>3, <3>1, <3>2 DEF EndAdopted
  <2>3. Stays
    BY <1>3, <2>1, <2>2 DEF Stays
  <2> QED
    BY <2>3, ListenersStay
<1>4. ASSUME w.by = "add", EndAdd(w), answers' \subseteq answers, UNCHANGED <<conn, fwd, limbo>>
      PROVE  ListenersFit'
  <2>1. UNCHANGED <<retired, toRelay>> /\ waiting' \subseteq waiting
    BY <1>4 DEF EndAdd
  <2>2. table[w.port] # None
    BY <1>4, WaiterFacts DEF Base
  <2>3. \A c \in Ports : /\ table'[c] = None <=> table[c] = None
                         /\ table[c] # None => table'[c].token = table[c].token
    <3>1. PICK c, a : c = w.port /\ a = TRUE
      OBVIOUS
    <3>2. c \in Ports /\ a \in BOOLEAN /\ table[c] # None
          /\ table' = [table EXCEPT ![c].active = a, ![c].establishing = FALSE]
      BY <1>2, <1>4, <2>2, <3>1 DEF EndAdd
    <3> QED
      BY <3>2, TokenStays DEF Base, Core
  <2>4. Stays
    BY <1>4, <2>1, <2>3 DEF Stays
  <2> QED
    BY <2>4, ListenersStay
<1>5. ASSUME NEW s, NEW u, AddFails(w.port, s, waiting \ {w}, u), u \subseteq answers
      PROVE  ListenersFit'
  <2>0. (\E C : C = {w.port}) /\ (\E o : o = waiting \ {w}) /\ (\E x : x = "rollback")
    OBVIOUS
  <2>1. PICK C, o, x : C = {w.port} /\ o = waiting \ {w} /\ x = "rollback"
    BY <2>0
  <2>2. C \in SUBSET Ports /\ o \in SUBSET waiting /\ answers' \subseteq answers
    BY <1>2, <1>5, <2>1 DEF AddFails
  <2>3. Unforward(C, x, o)
    BY <1>5, <2>1 DEF AddFails, Unforward, Send
  <2> QED
    BY <1>0, <2>2, <2>3, ListenersRetire
<1>6. CASE Answer(w)
  <2>1. ASSUME NEW ok \in BOOLEAN, Settled(w, ok)
        PROVE  answers' \subseteq answers /\ UNCHANGED <<conn, fwd, limbo>>
    BY <2>1 DEF Settled
  <2> QED
    BY <1>3, <1>4, <1>6, <2>1, ListenersConfirm DEF Answer
<1>7. CASE AnswerRefused(w)
  <2>0. \E u : u = answers \ {[port |-> w.port, id |-> w.id, ok |-> FALSE]}
    OBVIOUS
  <2>1. PICK u : u = answers \ {[port |-> w.port, id |-> w.id, ok |-> FALSE]}
    BY <2>0
  <2>2. AddFails(w.port, "failed", waiting \ {w}, u) /\ u \subseteq answers
    BY <1>7, <2>1 DEF AnswerRefused, AddFails
  <2> QED
    BY <1>5, <2>2
<1>8. CASE TimeOut(w)
  <2>1. CASE EndRequest(w) /\ UNCHANGED <<forwards, queue, table, retired, streams, relay>>
    <3>1. Stays
      BY <2>1 DEF EndRequest, Stays, relay
    <3> QED
      BY <3>1, ListenersStay
  <2>2. CASE EndAdopted(w, "unavailable") /\ UNCHANGED <<conn, answers, fwd, limbo>>
    BY <1>3, <2>2
  <2>3. CASE AddFails(w.port, "unavailable", waiting \ {w}, answers)
    <3>0. \E u : u = answers
      OBVIOUS
    <3>1. PICK u : u = answers
      BY <3>0
    <3>2. AddFails(w.port, "unavailable", waiting \ {w}, u) /\ u \subseteq answers
      BY <2>3, <3>1 DEF AddFails
    <3> QED
      BY <1>5, <3>2
  <2> QED
    BY <1>8, <2>1, <2>2, <2>3 DEF TimeOut
<1> QED
  BY <1>1, <1>6, <1>7, <1>8

\* Every step keeps what is known of the listeners.
LEMMA ListenersNext ==
    ASSUME Inv, ListenersFit, [Next]_vars
    PROVE  ListenersFit'
<1>0. Core /\ PermissionIsManaged
  BY DEF Inv
<1>1. CASE UNCHANGED <<gateway, relay>>
  <2>1. Stays
    BY <1>1 DEF Stays, gateway, relay
  <2> QED
    BY <2>1, ListenersStay
<1>2. CASE Next /\ Fresh
  <2>1. StartPrepare \/ Close
    BY <1>0, <1>2, FreshStep
  <2>2. CASE FailInitial
    <3>0. (\E o : o = waiting) /\ (\E C : C = {k[2] : k \in Managed("remote")})
          /\ (\E s : s = "unforwardAll")
      OBVIOUS
    <3>1. PICK C, o, s : C = {k[2] : k \in Managed("remote")} /\ o = waiting /\ s = "unforwardAll"
      BY <3>0
    <3>2. C \in SUBSET Ports
      BY <3>1, MutationFacts DEF Managed
    <3>3. Unforward(C, s, o) /\ answers' = answers /\ o \in SUBSET waiting
      BY <2>2, <3>1 DEF FailInitial, Unforward, Send
    <3> QED
      BY <1>0, <3>2, <3>3, ListenersRetire
  <2> QED
    BY <1>1, <2>1, <2>2 DEF StartPrepare, Close
<1>3. CASE Next /\ Base
  <2>1. ~StartPrepare
    <3>1. ASSUME StartPrepare PROVE FALSE
      <4>1. Start("prepare")
        BY <3>1 DEF StartPrepare
      <4>2. Head(queue) \in Event /\ Head(queue).type = "prepare"
        BY <1>3, <4>1, StartFacts
      <4> QED
        BY <4>2, EventFacts
    <3> QED
      BY <3>1
  <2>2. CASE LoseRelay
    BY <1>3, <2>2, ListenersLost
  <2>3. CASE BrokerStep
    BY <1>0, <1>3, <2>1, <2>2, <2>3, ListenersBroker DEF BrokerStep, CloseGateway
  <2>4. CASE RelayStep
    BY <1>3, <2>2, <2>4, ListenersOpen, ListenersEnd, ListenersReady DEF RelayStep, RelayExits
  <2>5. CASE LateAnswer \/ StreamEnds \/ \E c \in Ports : Accept(c)
    <3>1. Stays
      BY <2>5 DEF LateAnswer, StreamEnds, Accept, Stays, gateway, relay
    <3> QED
      BY <3>1, ListenersStay
  <2>6. CASE AddPortForward \/ RemovePortForward \/ Close
    BY <1>1, <2>6 DEF AddPortForward, RemovePortForward, Call, Close
  <2> QED
    BY <1>3, <2>2, <2>3, <2>4, <2>5, <2>6, ListenersAnswered, ListenersConnect DEF Next, Drop
<1>4. CASE UNCHANGED vars
  BY <1>1, <1>4 DEF vars
<1> QED
  BY <1>2, <1>3, <1>4 DEF Inv, Base, PrepareFits

\* Every listener of the relay, open or asked for, is one the gateway knows by its token and
\* can close: a token leaves the retired ones only when the relay has answered its
\* unforward, which it does when the listener is gone and none of its lines is left.
THEOREM ListenersKnown == Spec => []ListenerIsKnown
<1>1. Init => ListenersFit
  <2> SUFFICES ASSUME Init PROVE ListenersFit
    OBVIOUS
  <2>1. /\ toRelay = <<>> /\ waiting = {} /\ \A c \in Ports : fwd[c] = None /\ table[c] = None
        /\ answers = {} /\ limbo = {}
    BY DEF Init
  <2> QED
    BY <2>1, EmptyWire DEF ListenersFit, Apart, TokensFit, IdsFit
<1>2. Inv /\ ListenersFit /\ [Next]_vars => ListenersFit'
  BY ListenersNext
<1>3. ListenersFit => ListenerIsKnown
  BY DEF ListenersFit, TokensFit, Known, ListenerIsKnown
<1> QED
  BY <1>1, <1>2, <1>3, InvariantHolds, PTL DEF Spec

-----------------------------------------------------------------------------
(* The state that is shown. *)

\* Whether an event is about this generation of a port.
About(e, c, g) == e.type = "state" /\ e.port = c /\ e.gen = g

\* When the queue is done, the state of the port's forward, s now, is one of X: none is
\* queued and s is one, or from some queued state on all of them are.
Says(q, c, g, s, X) ==
    \/ s \in X /\ \A i \in DOMAIN q : ~About(q[i], c, g)
    \/ \E i \in DOMAIN q :
         /\ About(q[i], c, g)
         /\ \A j \in DOMAIN q : i <= j /\ About(q[j], c, g) => q[j].state \in X

\* What is to be shown of a forward, by its entry in the gateway's table.
Shows(r) ==
    IF r = None THEN {"pending"}
    ELSE IF r.active THEN {"active"}
    ELSE IF r.establishing THEN {"pending"}
    ELSE Bad

\* An add of the port waits for the relay: its entry is there, and nothing is told of it.
Ensuring(c) == cur # None /\ cur.step = "ensure" /\ cur.key = Remote(c)

ActiveFits == \A c \in Ports : table[c] # None => ~(table[c].active /\ table[c].establishing)

\* The relay is asked for a listener that is being established, unless an add waits for
\* the relay itself.
AskedFits ==
    closing # "shut" =>
      \A c \in Ports : table[c] # None /\ table[c].establishing =>
        Ensuring(c) \/ \E w \in waiting : w.kind = "forward" /\ w.port = c
                                          /\ w.token = table[c].token

ShownFits ==
    closing = "open" =>
      \A c \in Ports : managed[Remote(c)] # None /\ ~Ensuring(c) =>
        Says(queue, c, gens[c], managed[Remote(c)].state, Shows(table[c]))

\* The entry of an add that waits for the relay is its own: nobody has asked for it yet.
EnsuringFits ==
    \A c \in Ports : Ensuring(c) =>
      table[c].establishing /\ \A w \in waiting : w.port = c => w.token # table[c].token

LatestFits == ActiveFits /\ AskedFits /\ ShownFits /\ EnsuringFits

\* Every element of a finite set is in its sequence.
LEMMA SetToSeqOnto ==
    ASSUME NEW S, IsFiniteSet(S)
    PROVE  S \subseteq Range(SetToSeq(S))
<1>1. PICK n \in Nat : n = Cardinality(S)
  BY FS_CardinalityType
<1>2. \E f \in [1..n -> S] : IsInjective(f)
  <2>1. ExistsBijection(1..n, S)
    BY <1>1, FS_CardinalityType
  <2> QED
    BY <2>1 DEF ExistsBijection, Bijection, Injection, IsInjective
<1>3. PICK f : f = SetToSeq(S)
  OBVIOUS
<1>4. f \in [1..n -> S] /\ IsInjective(f)
  BY <1>1, <1>2, <1>3 DEF SetToSeq
<1>5. f \in Injection(1..n, S)
  BY <1>4 DEF Injection, IsInjective
<1>6. Cardinality(1..n) = n
  BY FS_Interval
<1>7. f \in Surjection(1..n, S)
  BY <1>1, <1>5, <1>6, FS_Injection
<1> QED
  BY <1>3, <1>7 DEF Surjection, Range

\* More events, none of which says something else.
LEMMA SaysMore ==
    ASSUME NEW S, NEW q \in Seq(S), NEW r \in Seq(S), NEW c, NEW g, NEW s, NEW X,
           \A e \in Range(r) : About(e, c, g) => e.state \in X,
           Says(q, c, g, s, X) \/ \E e \in Range(r) : About(e, c, g)
    PROVE  Says(q \o r, c, g, s, X)
<1>1. PICK n \in Nat, k \in Nat : n = Len(q) /\ k = Len(r)
  BY LenProperties
<1>2. DOMAIN q = 1..n /\ DOMAIN r = 1..k
  BY <1>1, LenProperties
<1>3. PICK z : z = q \o r
  OBVIOUS
<1>4. /\ DOMAIN z = 1..(n + k)
      /\ \A i \in 1..(n + k) : z[i] = IF i <= n THEN q[i] ELSE r[i - n]
  BY <1>1, <1>2, <1>3, ConcatProperties, LenProperties
<1>5. \A j \in DOMAIN z : n < j /\ About(z[j], c, g) => z[j].state \in X
  <2>1. ASSUME NEW j \in DOMAIN z, n < j, About(z[j], c, g) PROVE z[j].state \in X
    <3>1. j - n \in DOMAIN r /\ z[j] = r[j - n]
      BY <1>2, <1>4, <2>1
    <3>2. r[j - n] \in Range(r)
      BY <3>1 DEF Range
    <3> QED
      BY <2>1, <3>1, <3>2
  <2> QED
    BY <2>1
<1>6. \A j \in DOMAIN q : j \in DOMAIN z /\ z[j] = q[j]
  BY <1>2, <1>4
<1>7. \A j \in DOMAIN z : j \in DOMAIN q \/ n < j
  BY <1>2, <1>4
<1>8. CASE \E e \in Range(r) : About(e, c, g)
  <2>1. PICK i \in DOMAIN r : About(r[i], c, g)
    BY <1>8 DEF Range
  <2>2. i + n \in DOMAIN z /\ z[i + n] = r[i] /\ n < i + n
    BY <1>2, <1>4
  <2>3. \A j \in DOMAIN z : i + n <= j => n < j
    BY <1>2, <1>4
  <2> QED
    BY <1>3, <1>5, <2>1, <2>2, <2>3 DEF Says
<1>9. CASE ~\E e \in Range(r) : About(e, c, g)
  <2>1. \A j \in DOMAIN z : n < j => ~About(z[j], c, g)
    <3>1. ASSUME NEW j \in DOMAIN z, n < j PROVE ~About(z[j], c, g)
      <4>1. j - n \in DOMAIN r /\ z[j] = r[j - n]
        BY <1>2, <1>4, <3>1
      <4>2. r[j - n] \in Range(r)
        BY <4>1 DEF Range
      <4> QED
        BY <1>9, <4>1, <4>2
    <3> QED
      BY <3>1
  <2>2. CASE s \in X /\ \A i \in DOMAIN q : ~About(q[i], c, g)
    BY <1>3, <1>6, <1>7, <2>1, <2>2 DEF Says
  <2>3. CASE \E i \in DOMAIN q :
               /\ About(q[i], c, g)
               /\ \A j \in DOMAIN q : i <= j /\ About(q[j], c, g) => q[j].state \in X
    BY <1>3, <1>6, <1>7, <2>1, <2>3 DEF Says
  <2> QED
    BY <1>9, <2>2, <2>3 DEF Says
<1> QED
  BY <1>8, <1>9

\* The head of the queue is taken: if it is about the forward, it is its state now.
LEMMA SaysTail ==
    ASSUME NEW S, NEW q \in Seq(S), q # <<>>, NEW c, NEW g, NEW s, NEW t, NEW X,
           Says(q, c, g, s, X), t = IF About(Head(q), c, g) THEN Head(q).state ELSE s
    PROVE  Says(Tail(q), c, g, t, X)
<1>1. PICK n \in Nat : n = Len(q)
  BY LenProperties
<1>2. n # 0 /\ DOMAIN q = 1..n /\ Head(q) = q[1]
  <2>1. Len(q) # 0
    BY EmptySeq
  <2> QED
    BY <1>1, <2>1, LenProperties
<1>3. PICK r : r = Tail(q)
  OBVIOUS
<1>4. DOMAIN r = 1..(n - 1) /\ \A i \in 1..(n - 1) : r[i] = q[i + 1]
  BY <1>1, <1>2, <1>3, HeadTailProperties, LenProperties
<1>5. \A i \in DOMAIN q : i = 1 \/ (i - 1 \in DOMAIN r /\ q[i] = r[i - 1])
  BY <1>2, <1>4
<1>6. \A i \in DOMAIN r : i + 1 \in DOMAIN q /\ r[i] = q[i + 1] /\ 1 <= i + 1
  BY <1>2, <1>4
<1>7. CASE \A i \in DOMAIN r : ~About(r[i], c, g)
  <2>1. t \in X
    <3>1. CASE About(q[1], c, g)
      <4>1. 1 \in DOMAIN q /\ \A i \in DOMAIN q : About(q[i], c, g) => i = 1
        BY <1>2, <1>5, <1>7
      <4>2. q[1].state \in X
        BY <3>1, <4>1 DEF Says
      <4> QED
        BY <1>2, <3>1, <4>2
    <3>2. CASE ~About(q[1], c, g)
      <4>1. \A i \in DOMAIN q : ~About(q[i], c, g)
        BY <1>5, <1>7, <3>2
      <4> QED
        BY <1>2, <3>2, <4>1 DEF Says
    <3> QED
      BY <3>1, <3>2
  <2> QED
    BY <1>3, <1>7, <2>1 DEF Says
<1>8. ASSUME NEW a \in DOMAIN r, About(r[a], c, g) PROVE Says(r, c, g, t, X)
  <2>1. PICK i \in DOMAIN q : /\ About(q[i], c, g)
                              /\ \A j \in DOMAIN q : i <= j /\ About(q[j], c, g) =>
                                                       q[j].state \in X
    BY <1>6, <1>8 DEF Says
  <2>2. CASE i = 1
    <3>1. \A j \in DOMAIN r : About(r[j], c, g) => r[j].state \in X
      BY <1>6, <2>1, <2>2
    <3> QED
      BY <1>8, <3>1 DEF Says
  <2>3. CASE i # 1
    <3>1. i - 1 \in DOMAIN r /\ About(r[i - 1], c, g)
      BY <1>5, <2>1, <2>3
    <3>2. \A j \in DOMAIN r : i - 1 <= j => i <= j + 1
      BY <1>2, <1>4
    <3>3. \A j \in DOMAIN r : i - 1 <= j /\ About(r[j], c, g) => r[j].state \in X
      BY <1>6, <2>1, <3>2
    <3> QED
      BY <3>1, <3>3 DEF Says
  <2> QED
    BY <2>2, <2>3
<1> QED
  BY <1>3, <1>7, <1>8

\* What a step may do to the queue without a word about the port's forward.
Silent(c) ==
    \/ queue' = queue
    \/ queue # <<>> /\ queue' = Tail(queue) /\ ~About(Head(queue), c, gens[c])
    \/ \E r \in Seq(Event) :
         queue' = queue \o r /\ \A e \in Range(r) : ~About(e, c, gens[c])

\* A step goes on with a mapping that is shown; what its entry is to show stays.
Unmoved(c) ==
    /\ gens'[c] = gens[c] /\ managed[Remote(c)] # None /\ ~Ensuring(c)
    /\ managed'[Remote(c)].state = managed[Remote(c)].state
    /\ Shows(table'[c]) = Shows(table[c])

\* The head of the queue is about the forward, and becomes its state.
Takes(c) ==
    /\ queue # <<>> /\ queue' = Tail(queue) /\ About(Head(queue), c, gens[c])
    /\ gens'[c] = gens[c] /\ managed[Remote(c)] # None /\ ~Ensuring(c)
    /\ managed'[Remote(c)].state = Head(queue).state
    /\ Shows(table'[c]) = Shows(table[c])

\* What the entry shows now is reported.
Tells(c) ==
    /\ gens'[c] = gens[c]
    /\ \E r \in Seq(Event) :
         /\ queue' = queue \o r
         /\ \E e \in Range(r) : About(e, c, gens[c])
         /\ \A e \in Range(r) : About(e, c, gens[c]) => e.state \in Shows(table'[c])

ShownOn(c) ==
    \/ managed'[Remote(c)] = None
    \/ Ensuring(c)'
    \/ Unmoved(c) /\ Silent(c)
    \/ Takes(c)
    \/ Tells(c)

AskedOn(c) ==
    \/ table'[c] = None
    \/ ~table'[c].establishing
    \/ Ensuring(c)'
    \/ \E w \in waiting' : w.kind = "forward" /\ w.port = c /\ w.token = table'[c].token
    \/ /\ table'[c] = table[c] /\ ~Ensuring(c)
       /\ \A w \in waiting : w.kind = "forward" /\ w.port = c /\ w.token = table[c].token =>
            w \in waiting'

ActiveOn(c) ==
    \/ table'[c] = table[c]
    \/ table'[c] = None
    \/ ~(table'[c].active /\ table'[c].establishing)

EnsuringOn(c) ==
    Ensuring(c)' =>
      \/ /\ Ensuring(c) /\ table'[c] = table[c]
         /\ \A w \in waiting' : w.port = c => w \in waiting
      \/ /\ table'[c].establishing
         /\ \A w \in waiting' : w.port = c => w.token # table'[c].token

Lasting ==
    \A c \in Ports :
      /\ ActiveOn(c)
      /\ EnsuringOn(c)
      /\ closing' # "shut" => closing # "shut" /\ AskedOn(c)
      /\ closing' = "open" => closing = "open" /\ ShownOn(c)

\* A step says nothing of the forward, and what is said stays.
LEMMA SaysSilent ==
    ASSUME queue \in Seq(Event), NEW c \in Ports, NEW g, g = gens[c], NEW s, NEW X,
           Silent(c), Says(queue, c, g, s, X)
    PROVE  Says(queue', c, g, s, X)
<1>0. \E q \in Seq(Event) : q = queue
  OBVIOUS
<1>1. PICK q \in Seq(Event) : q = queue
  BY <1>0
<1>2. CASE queue' = queue
  BY <1>2
<1>3. CASE queue # <<>> /\ queue' = Tail(queue) /\ ~About(Head(queue), c, gens[c])
  <2>1. q # <<>> /\ s = IF About(Head(q), c, g) THEN Head(q).state ELSE s
    BY <1>1, <1>3
  <2>2. Says(q, c, g, s, X)
    BY <1>1
  <2>3. Says(Tail(q), c, g, s, X)
    BY <2>1, <2>2, SaysTail
  <2> QED
    BY <1>1, <1>3, <2>3
<1>4. CASE \E r \in Seq(Event) :
             queue' = queue \o r /\ \A e \in Range(r) : ~About(e, c, gens[c])
  <2>1. PICK r \in Seq(Event) : queue' = q \o r /\ \A e \in Range(r) : ~About(e, c, g)
    BY <1>1, <1>4
  <2>2. Says(q, c, g, s, X)
    BY <1>1
  <2>3. Says(q \o r, c, g, s, X)
    BY <2>1, <2>2, SaysMore
  <2> QED
    BY <2>1, <2>3
<1> QED
  BY <1>2, <1>3, <1>4 DEF Silent

\* Such steps keep the state that is shown the latest one.
LEMMA LatestKept ==
    ASSUME Base, LatestFits, Lasting
    PROVE  LatestFits'
<1>1. ActiveFits'
  BY DEF LatestFits, ActiveFits, Lasting, ActiveOn
<1>2. AskedFits'
  <2> SUFFICES ASSUME closing' # "shut", NEW c \in Ports, table'[c] # None,
                      table'[c].establishing, ~Ensuring(c)'
               PROVE  \E w \in waiting' : w.kind = "forward" /\ w.port = c
                                          /\ w.token = table'[c].token
    BY DEF AskedFits
  <2>1. closing # "shut" /\ AskedOn(c)
    BY DEF Lasting
  <2>2. CASE /\ table'[c] = table[c] /\ ~Ensuring(c)
             /\ \A w \in waiting : w.kind = "forward" /\ w.port = c /\ w.token = table[c].token =>
                  w \in waiting'
    <3>1. \E w \in waiting : w.kind = "forward" /\ w.port = c /\ w.token = table[c].token
      BY <2>1, <2>2 DEF LatestFits, AskedFits
    <3> QED
      BY <2>2, <3>1
  <2> QED
    BY <2>1, <2>2 DEF AskedOn
<1>3. ShownFits'
  <2> SUFFICES ASSUME closing' = "open", NEW c \in Ports, managed'[Remote(c)] # None,
                      ~Ensuring(c)'
               PROVE  Says(queue', c, gens'[c], managed'[Remote(c)].state, Shows(table'[c]))
    BY DEF ShownFits
  <2>1. closing = "open" /\ ShownOn(c)
    BY DEF Lasting
  <2>2. queue \in Seq(Event)
    BY DEF Base
  <2>0. /\ \E q \in Seq(Event) : q = queue
        /\ (\E g : g = gens[c]) /\ (\E s : s = managed[Remote(c)].state)
        /\ (\E X : X = Shows(table'[c])) /\ (\E t : t = managed'[Remote(c)].state)
    BY <2>2
  <2>3. PICK q, g, s, t, X :
          /\ q \in Seq(Event) /\ q = queue /\ g = gens[c] /\ s = managed[Remote(c)].state
          /\ t = managed'[Remote(c)].state /\ X = Shows(table'[c])
    BY <2>0
  <2>4. ASSUME managed[Remote(c)] # None, ~Ensuring(c), Shows(table'[c]) = Shows(table[c])
        PROVE  Says(q, c, g, s, X)
    BY <2>1, <2>3, <2>4 DEF LatestFits, ShownFits
  <2>5. CASE Unmoved(c) /\ Silent(c)
    <3>1. Says(q, c, g, s, X) /\ t = s /\ g = gens'[c]
      BY <2>3, <2>4, <2>5 DEF Unmoved
    <3>2. Says(queue, c, g, s, X)
      BY <2>3, <3>1
    <3>3. Says(queue', c, g, s, X)
      BY <2>2, <2>3, <2>5, <3>2, SaysSilent
    <3> QED
      BY <2>3, <3>1, <3>3
  <2>6. CASE Takes(c)
    <3>1. Says(q, c, g, s, X) /\ g = gens'[c] /\ q # <<>> /\ queue' = Tail(q)
      BY <2>3, <2>4, <2>6 DEF Takes
    <3>2. t = IF About(Head(q), c, g) THEN Head(q).state ELSE s
      BY <2>3, <2>6 DEF Takes
    <3>3. Says(Tail(q), c, g, t, X)
      BY <2>3, <3>1, <3>2, SaysTail
    <3> QED
      BY <2>3, <3>1, <3>3
  <2>7. CASE Tells(c)
    <3>1. PICK r \in Seq(Event) :
            /\ queue' = q \o r /\ g = gens'[c]
            /\ \E e \in Range(r) : About(e, c, g)
            /\ \A e \in Range(r) : About(e, c, g) => e.state \in X
      BY <2>3, <2>7 DEF Tells
    <3>2. Says(q \o r, c, g, t, X)
      BY <2>3, <3>1, SaysMore
    <3> QED
      BY <2>3, <3>1, <3>2
  <2> QED
    BY <2>1, <2>5, <2>6, <2>7 DEF ShownOn
<1>4. EnsuringFits'
  <2> SUFFICES ASSUME NEW c \in Ports, Ensuring(c)'
               PROVE  /\ table'[c].establishing
                      /\ \A w \in waiting' : w.port = c => w.token # table'[c].token
    BY DEF EnsuringFits
  <2>1. EnsuringOn(c)
    BY DEF Lasting
  <2> QED
    BY <2>1 DEF EnsuringOn, LatestFits, EnsuringFits
<1> QED
  BY <1>1, <1>2, <1>3, <1>4 DEF LatestFits

\* What a report says: of its ports the state, of others nothing.
LEMMA ReportTells ==
    ASSUME Base, NEW C \in SUBSET Ports, NEW state \in ForwardState, closing = "open"
    PROVE  /\ Report(C, state) \in Seq(Event)
           /\ \A e \in Range(Report(C, state)) : e.state = state /\ e.port \in C
           /\ \A c \in C : gens[c] # None =>
                \E e \in Range(Report(C, state)) : About(e, c, gens[c])
<1> DEFINE told == {c \in C : gens[c] # None /\ closing = "open"}
           event == [c \in told |-> [type |-> "state", port |-> c, gen |-> gens[c],
                                     state |-> state]]
           S == {event[c] : c \in told}
<1>0. Types
  BY TypesParts DEF Base, Core
<1>1. IsFiniteSet(told)
  <2>1. told \subseteq Ports
    OBVIOUS
  <2> HIDE DEF told
  <2> QED
    BY <2>1, PortForwardsAssumption, FS_Subset
<1>2. IsFiniteSet(S)
  <2> HIDE DEF told
  <2>1. event = [x \in told |-> event[x]] /\ told = DOMAIN event
    OBVIOUS
  <2> HIDE DEF event
  <2>0. (\E f : f = event) /\ (\E T : T = told)
    OBVIOUS
  <2>2. PICK f, T : f = event /\ T = told
    BY <2>0
  <2>3. IsFiniteSet({f[x] : x \in T})
    BY <1>1, <2>1, <2>2, FiniteImage
  <2> QED
    BY <2>2, <2>3
<1>3. Report(C, state) = SetToSeq(S)
  <2>1. S = {[type |-> "state", port |-> c, gen |-> gens[c], state |-> state] : c \in told}
    <3> HIDE DEF told
    <3> QED
      OBVIOUS
  <2> QED
    BY <2>1 DEF Report
<1>4. \A c \in told : event[c] \in S /\ About(event[c], c, gens[c])
  <2> HIDE DEF told
  <2> QED
    BY DEF About
<1>5. S \subseteq Range(SetToSeq(S))
  <2>0. \E Z : Z = S
    OBVIOUS
  <2>1. PICK Z : Z = S
    BY <2>0
  <2> HIDE DEF S
  <2>2. Z \subseteq Range(SetToSeq(Z))
    BY <1>2, <2>1, SetToSeqOnto
  <2> QED
    BY <2>1, <2>2
<1>6. \A c \in C : gens[c] # None => \E e \in Range(Report(C, state)) : About(e, c, gens[c])
  <2>1. \A c \in C : gens[c] # None => c \in told
    OBVIOUS
  <2> HIDE DEF told, event, S
  <2> QED
    BY <1>3, <1>4, <1>5, <2>1
<1> HIDE DEF told, event, S
<1>7. /\ \A e \in Range(Report(C, state)) : e.state = state /\ e.port \in C
      /\ Report(C, state) \in Seq(StateEvent)
  BY <1>0, ReportElems
<1>8. Report(C, state) \in Seq(Event)
  <2>1. Seq(StateEvent) \subseteq Seq(Event)
    BY DEF Event
  <2> QED
    BY <1>7, <2>1
<1> QED
  BY <1>6, <1>7, <1>8

\* A step takes the mapping back or leaves its state and generation.
SameState(c) ==
    \/ managed'[Remote(c)] = None
    \/ /\ gens'[c] = gens[c] /\ managed[Remote(c)] # None
       /\ managed'[Remote(c)].state = managed[Remote(c)].state

\* The owners of a mapping change.
LEMMA OwnersSame ==
    ASSUME BrokerTypes, NEW k \in Keys, managed[k] # None, NEW o \in SUBSET Owners,
           managed' = [managed EXCEPT ![k].owners = o], gens' = gens
    PROVE  \A c \in Ports : SameState(c)
<1>1. managed[k] \in Entry /\ managed \in [Keys -> Entry \cup {None}]
  BY DEF BrokerTypes
<1>2. PICK e : e = [managed[k] EXCEPT !.owners = o]
  OBVIOUS
<1>3. e.state = managed[k].state
  BY <1>1, <1>2 DEF Entry
<1>4. \A x \in Keys : managed'[x] = IF x = k THEN e ELSE managed[x]
  BY <1>1, <1>2
<1>5. \A c \in Ports : Remote(c) \in Keys
  BY MutationFacts
<1> QED
  BY <1>3, <1>4, <1>5 DEF SameState

\* Only a local mapping changes.
LEMMA LocalSame ==
    ASSUME NEW k \in Keys, k[1] = "local", \A e \in Keys \ {k} : managed'[e] = managed[e],
           gens' = gens
    PROVE  \A c \in Ports : SameState(c)
<1>1. \A c \in Ports : Remote(c) \in Keys \ {k}
  BY MutationFacts
<1> QED
  BY <1>1 DEF SameState

\* Mappings are deleted with their generations.
LEMMA DeleteSame ==
    ASSUME NEW K \in SUBSET Keys, Delete(K)
    PROVE  \A c \in Ports : SameState(c) /\ (Remote(c) \in K => managed'[Remote(c)] = None)
<1> DEFINE C == {k[2] : k \in {e \in K : e[1] = "remote"}}
<1>1. /\ \A k \in Keys : managed'[k] = IF k \in K THEN None ELSE managed[k]
      /\ \A c \in Ports : gens'[c] = IF c \in C THEN None ELSE gens[c]
  BY DEF Delete
<1>2. \A c \in Ports : c \in C => Remote(c) \in K
  BY MutationFacts
<1>3. \A c \in Ports : Remote(c) \in Keys
  BY MutationFacts
<1> HIDE DEF C
<1> QED
  BY <1>1, <1>2, <1>3 DEF SameState

\* Steps that leave the table, the queue and the requests for listeners alone.
LEMMA LatestRests ==
    ASSUME Base, LatestFits, UNCHANGED <<table, queue>>,
           closing' # "shut" => closing # "shut",
           closing' = "open" => closing = "open" /\ \A c \in Ports : SameState(c),
           \A c \in Ports : Ensuring(c)' <=> Ensuring(c),
           \A w \in waiting : w.kind = "forward" => w \in waiting',
           \A c \in Ports : Ensuring(c) => waiting' \subseteq waiting
    PROVE  LatestFits'
<1>1. \A c \in Ports : ActiveOn(c) /\ EnsuringOn(c) /\ AskedOn(c)
  BY DEF ActiveOn, EnsuringOn, AskedOn
<1>2. ASSUME NEW c \in Ports, closing' = "open" PROVE closing = "open" /\ ShownOn(c)
  BY <1>2 DEF ShownOn, SameState, Unmoved, Silent
<1>3. Lasting
  BY <1>1, <1>2 DEF Lasting
<1> QED
  BY <1>3, LatestKept

\* No state is at the head of the queue, and the step that takes it leaves the table alone.
LEMMA LatestStarts ==
    ASSUME Base, LatestFits, NEW type, type # "state", Start(type), UNCHANGED <<table, waiting>>,
           \A c \in Ports : SameState(c), \A c \in Ports : ~Ensuring(c)'
    PROVE  LatestFits'
<1>1. cur = None /\ closing' = closing /\ queue # <<>> /\ queue' = Tail(queue)
      /\ Head(queue).type = type
  BY DEF Start
<1>2. \A c \in Ports : ~Ensuring(c)
  BY <1>1 DEF Ensuring
<1>3. \A c \in Ports : ActiveOn(c) /\ EnsuringOn(c) /\ AskedOn(c)
  BY <1>2 DEF ActiveOn, EnsuringOn, AskedOn
<1>4. \A c \in Ports : Silent(c)
  BY <1>1 DEF Silent, About
<1>5. \A c \in Ports : ShownOn(c)
  BY <1>2, <1>4 DEF ShownOn, SameState, Unmoved
<1>6. Lasting
  BY <1>1, <1>3, <1>5 DEF Lasting
<1> QED
  BY <1>6, LatestKept

\* Mappings are taken back with their entries in the table.
LEMMA LatestRevokes ==
    ASSUME Base, LatestFits, NEW K \in SUBSET Keys, NEW C \in SUBSET Ports,
           NEW step \in Stopping, NEW others \in SUBSET waiting,
           Delete(K), Unforward(C, step, others), closing' = closing,
           \A c \in C : Remote(c) \in K,
           \A w \in waiting : w.kind = "forward" /\ w.port \notin C => w \in others,
           \A c \in Ports : Ensuring(c) => c \in C,
           closing = "open" => \A c \in Ports : Remote(c) \in K \/ Silent(c)
    PROVE  LatestFits'
<1>1. \A c \in Ports : table'[c] = IF c \in C THEN None ELSE table[c]
  BY DEF Unforward
<1>2. \A c \in Ports : SameState(c) /\ (Remote(c) \in K => managed'[Remote(c)] = None)
  BY DeleteSame
<1>3. others \subseteq waiting'
  BY DEF Unforward, Send
<1>4. \A c \in Ports : ~Ensuring(c)'
  <2>1. cur' = AfterUnforward(step) \/ cur' = [step |-> step, key |-> None]
    BY DEF Unforward
  <2>2. cur' # None => cur'.step # "ensure"
    BY <2>1, AfterUnforwardType DEF Stopping
  <2> QED
    BY <2>2 DEF Ensuring
<1>5. \A c \in Ports : ActiveOn(c) /\ EnsuringOn(c) /\ AskedOn(c)
  <2> SUFFICES ASSUME NEW c \in Ports PROVE ActiveOn(c) /\ EnsuringOn(c) /\ AskedOn(c)
    OBVIOUS
  <2>1. CASE c \in C
    BY <1>1, <1>4, <2>1 DEF ActiveOn, EnsuringOn, AskedOn
  <2>2. CASE c \notin C
    <3>1. \A w \in waiting : w.kind = "forward" /\ w.port = c => w \in waiting'
      BY <1>3, <2>2
    <3> QED
      BY <1>1, <1>4, <2>2, <3>1 DEF ActiveOn, EnsuringOn, AskedOn
  <2> QED
    BY <2>1, <2>2
<1>6. ASSUME NEW c \in Ports, closing = "open" PROVE ShownOn(c)
  <2>1. CASE Remote(c) \in K
    BY <1>2, <2>1 DEF ShownOn
  <2>2. CASE Remote(c) \notin K
    <3>1. c \notin C /\ Silent(c)
      BY <1>6, <2>2
    <3>2. ~Ensuring(c) /\ table'[c] = table[c]
      BY <1>1, <3>1
    <3> QED
      BY <1>2, <3>1, <3>2 DEF ShownOn, SameState, Unmoved
  <2> QED
    BY <2>1, <2>2
<1>7. Lasting
  BY <1>5, <1>6 DEF Lasting
<1> QED
  BY <1>7, LatestKept

\* The mutation that runs is no add that waits for the relay.
NoEnsure == cur # None => cur.step # "ensure"

\* Nothing is left of the mappings.
LEMMA LatestFails ==
    ASSUME Base, LatestFits, FailInitial, closing' = closing, NoEnsure
    PROVE  LatestFits'
<1>0. (\E o : o = waiting) /\ (\E C : C = {k[2] : k \in Managed("remote")})
  OBVIOUS
<1>1. PICK C, K, o, s : C = {k[2] : k \in Managed("remote")} /\ o = waiting /\ K = Keys
                        /\ s = "unforwardAll"
  BY <1>0
<1>2. C \in SUBSET Ports
  BY <1>1, MutationFacts DEF Managed
<1>3. Unforward(C, s, o) /\ o \in SUBSET waiting /\ s \in Stopping
  BY <1>1 DEF FailInitial, Unforward, Send, Stopping
<1>4. Delete(K) /\ K \in SUBSET Keys
  BY <1>1 DEF FailInitial, Delete
<1>5. \A c \in Ports : Remote(c) \in K /\ ~Ensuring(c)
  BY <1>1, MutationFacts DEF NoEnsure, Ensuring
<1>6. \A c \in C : Remote(c) \in K
  BY <1>2, <1>5
<1>7. \A w \in waiting : w.kind = "forward" /\ w.port \notin C => w \in o
  BY <1>1
<1> QED
  BY <1>2, <1>3, <1>4, <1>5, <1>6, <1>7, LatestRevokes

\* An add begins a mapping that is not shown before the relay is asked.
LEMMA LatestStartAdd ==
    ASSUME Base, LatestFits, StartAdd
    PROVE  LatestFits'
<1>a. (\E k : k = Head(queue).key) /\ (\E host : host = Head(queue).host)
  OBVIOUS
<1>b. PICK k, host, t : k = Head(queue).key /\ host = Head(queue).host /\ t = "add"
  BY <1>a
<1>1. Start(t)
  BY <1>b DEF StartAdd
<1>2. Head(queue) \in Event /\ Head(queue).type = "add"
  BY <1>1, <1>b, StartFacts
<1>3. k \in Keys /\ host \in HostPorts \cup {AnyPort}
  BY <1>b, <1>2, EventFacts
<1>4. cur = None /\ closing' = closing /\ queue # <<>> /\ queue' = Tail(queue)
      /\ \A c \in Ports : ~About(Head(queue), c, gens[c])
  BY <1>1, <1>2 DEF Start, About
<1>5. CASE UNCHANGED <<forwards, gateway>> /\ (cur' = None \/ cur' = [step |-> "pick", key |-> k])
  <2>1. \A c \in Ports : SameState(c) /\ ~Ensuring(c)'
    BY <1>5 DEF SameState, Ensuring, forwards
  <2> QED
    BY <1>1, <1>b, <1>5, <2>1, LatestStarts DEF gateway
<1>6. CASE /\ managed[k] # None /\ cur' = [step |-> "persistOwner", key |-> k]
           /\ managed' = [managed EXCEPT ![k].owners = @ \cup {"dynamic"}]
           /\ UNCHANGED <<gens, gateway>>
  <2>0. \E o : o = managed[k].owners \cup {"dynamic"}
    OBVIOUS
  <2>1. PICK o : o = managed[k].owners \cup {"dynamic"}
    BY <2>0
  <2>2. o \in SUBSET Owners
    BY <1>3, <1>6, <2>1 DEF Base, Core, BrokerTypes, Entry, Owners
  <2>3. managed' = [managed EXCEPT ![k].owners = o]
    BY <1>3, <1>6, <2>1 DEF Base, Core, BrokerTypes
  <2>4. \A c \in Ports : SameState(c)
    BY <1>3, <1>6, <2>2, <2>3, OwnersSame DEF Base, Core
  <2>5. \A c \in Ports : ~Ensuring(c)'
    BY <1>6 DEF Ensuring
  <2> QED
    BY <1>1, <1>b, <1>6, <2>4, <2>5, LatestStarts DEF gateway
<1>7. CASE /\ Insert(k, host, "pending") /\ k[1] = "local"
           /\ cur' = [step |-> "listen", key |-> k] /\ UNCHANGED <<table, waiting>>
  <2>1. gens' = gens /\ \A x \in Keys \ {k} : managed'[x] = managed[x]
    BY <1>7 DEF Insert, Base, Core, BrokerTypes
  <2>2. \A c \in Ports : SameState(c)
    BY <1>3, <1>7, <2>1, LocalSame
  <2>3. \A c \in Ports : ~Ensuring(c)'
    BY <1>7 DEF Ensuring
  <2> QED
    BY <1>1, <1>b, <1>7, <2>2, <2>3, LatestStarts
<1>8. CASE /\ host # AnyPort /\ Insert(k, host, "pending") /\ k[1] # "local"
           /\ cur' = [step |-> "ensure", key |-> k]
           /\ table' = [table EXCEPT ![k[2]] =
                 [token |-> NewToken(k[2]), host |-> host, active |-> FALSE,
                  establishing |-> TRUE]]
           /\ UNCHANGED waiting
  <2>1. PICK c : c = k[2]
    OBVIOUS
  <2>2. c \in Ports /\ k = Remote(c)
    BY <1>3, <1>8, <2>1, MutationFacts
  <2>3. cur' # None /\ Ensuring(c)'
    BY <1>3, <1>8, <2>2, MutationFacts DEF Ensuring, Steps
  <2>4. table'[c].active = FALSE /\ table'[c].establishing = TRUE
        /\ table'[c].token = NewToken(c)
    BY <1>8, <2>1, <2>2 DEF Base, Core, GatewayTypes
  <2>5. \A w \in waiting' : w.port = c => w.token # table'[c].token
    <3>1. Types
      BY TypesParts DEF Base, Core
    <3>2. NewToken(c) \notin UsedTokens(c)
      BY <2>2, <3>1, NamesFree
    <3> QED
      BY <1>8, <2>4, <3>2 DEF UsedTokens, OfPort
  <2>6. ActiveOn(c) /\ EnsuringOn(c) /\ AskedOn(c) /\ ShownOn(c)
    BY <2>3, <2>4, <2>5 DEF ActiveOn, EnsuringOn, AskedOn, ShownOn
  <2>7. ASSUME NEW d \in Ports, d # c
        PROVE  ActiveOn(d) /\ EnsuringOn(d) /\ AskedOn(d) /\ ShownOn(d)
    <3>1. table'[d] = table[d] /\ gens'[d] = gens[d] /\ managed'[Remote(d)] = managed[Remote(d)]
      <4>1. Remote(d) \in Keys /\ Remote(d) # k
        BY <2>2, <2>7, MutationFacts
      <4> QED
        BY <1>8, <2>1, <2>2, <2>7, <4>1 DEF Insert, Base, Core, BrokerTypes, GatewayTypes
    <3>2. ~Ensuring(d) /\ ~Ensuring(d)'
      <4>1. Remote(d) # k
        BY <2>2, <2>7, MutationFacts
      <4> QED
        BY <1>4, <1>8, <4>1 DEF Ensuring
    <3>3. Silent(d)
      BY <1>4 DEF Silent
    <3>4. managed'[Remote(d)] = None \/ Unmoved(d)
      BY <3>1, <3>2 DEF Unmoved
    <3> QED
      BY <1>8, <3>1, <3>2, <3>3, <3>4 DEF ActiveOn, EnsuringOn, AskedOn, ShownOn
  <2>8. Lasting
    BY <1>4, <2>6, <2>7 DEF Lasting
  <2> QED
    BY <2>8, LatestKept
<1> QED
  BY <1>b, <1>5, <1>6, <1>7, <1>8 DEF StartAdd, At, Done

\* Local forwards.
LEMMA LatestLocal ==
    ASSUME Base, LatestFits, Pick \/ Listen
    PROVE  LatestFits'
<1>0. cur # None /\ cur.key \in Keys /\ cur.key[1] = "local"
      /\ cur.step \in {"pick", "listen"} /\ UNCHANGED <<table, queue, closing, waiting>>
  BY DEF Pick, Listen, Base, Core, CurFits, gateway
<1>2. PICK k : k = cur.key
  OBVIOUS
<1>3. \A x \in Keys \ {k} : managed'[x] = managed[x]
  BY <1>0, <1>2 DEF Pick, Listen, Insert, Delete, forwards, Base, Core, BrokerTypes
<1>4. gens' = gens
  <2>1. CASE Pick
    BY <1>0, <2>1 DEF Pick, Insert, forwards
  <2>2. CASE Listen
    <3>1. {c[2] : c \in {e \in {cur.key} : e[1] = "remote"}} = {}
      BY <1>0
    <3> QED
      BY <2>2, <3>1 DEF Listen, Delete, Base, Core, BrokerTypes
  <2> QED
    BY <2>1, <2>2
<1>5. \A c \in Ports : SameState(c)
  BY <1>0, <1>2, <1>3, <1>4, LocalSame
<1>6. \A c \in Ports : ~Ensuring(c) /\ ~Ensuring(c)'
  BY <1>0 DEF Pick, Listen, At, Done, Ensuring
<1> QED
  BY <1>0, <1>5, <1>6, LatestRests

\* One mapping is taken back with its entry, and what is queued says nothing of others.
LEMMA LatestTakesBack ==
    ASSUME Base, LatestFits, NEW c \in Ports, NEW step \in Stopping,
           NEW others \in SUBSET waiting, Delete({Remote(c)}), Unforward({c}, step, others),
           closing' = closing, \A w \in waiting : w.kind = "forward" /\ w.port # c => w \in others,
           \A d \in Ports : Ensuring(d) => d = c,
           closing = "open" => \A d \in Ports : d = c \/ Silent(d)
    PROVE  LatestFits'
<1>1. PICK K, C : K = {Remote(c)} /\ C = {c}
  OBVIOUS
<1>2. K \in SUBSET Keys /\ C \in SUBSET Ports
  BY <1>1, MutationFacts
<1>3. Delete(K) /\ Unforward(C, step, others)
  BY <1>1
<1>4. /\ \A d \in C : Remote(d) \in K
      /\ \A w \in waiting : w.kind = "forward" /\ w.port \notin C => w \in others
      /\ \A d \in Ports : Ensuring(d) => d \in C
      /\ closing = "open" => \A d \in Ports : Remote(d) \in K \/ Silent(d)
  BY <1>1
<1> QED
  BY <1>2, <1>3, <1>4, LatestRevokes

\* Writes of the registry.
LEMMA LatestPersists ==
    ASSUME Base, LatestFits,
           \/ PersistAdd \/ PersistOwner \/ PersistRevocation \/ PersistFailure
           \/ PersistPrepared \/ PersistInitial
    PROVE  LatestFits'
<1>0. cur # None /\ queue' = queue /\ closing' = closing /\ cur.step # "ensure"
  BY DEF PersistAdd, PersistOwner, PersistRevocation, PersistFailure, PersistPrepared,
    PersistInitial, Persisting
<1>1. \A c \in Ports : ~Ensuring(c)
  BY <1>0 DEF Ensuring
<1>2. ASSUME \A c \in Ports : SameState(c), UNCHANGED <<table, waiting>>,
             cur' = None \/ cur' = [step |-> "retry", key |-> None]
      PROVE  LatestFits'
  <2>1. \A c \in Ports : ~Ensuring(c)'
    BY <1>2 DEF Ensuring
  <2> QED
    BY <1>0, <1>1, <1>2, <2>1, LatestRests
<1>3. CASE /\ UNCHANGED <<forwards, gateway>>
           /\ cur' = None \/ cur' = [step |-> "retry", key |-> None]
  <2>1. \A c \in Ports : SameState(c)
    BY <1>3 DEF SameState, forwards
  <2> QED
    BY <1>2, <1>3, <2>1 DEF gateway
<1>4. CASE FailInitial
  BY <1>0, <1>4, LatestFails DEF NoEnsure
<1>5. CASE PersistAdd
  <2>1. cur.key \in Keys
    BY <1>0, <1>5 DEF PersistAdd, Persisting, Base, Core, CurFits
  <2>2. \E k : k = cur.key
    OBVIOUS
  <2>3. PICK k : k = cur.key
    BY <2>2
  <2>4. CASE Delete({cur.key}) /\ k[1] = "local" /\ cur' = None /\ UNCHANGED gateway
    <3>1. gens' = gens /\ \A x \in Keys \ {k} : managed'[x] = managed[x]
      <4>1. {c[2] : c \in {e \in {cur.key} : e[1] = "remote"}} = {}
        BY <2>3, <2>4
      <4> QED
        BY <2>3, <2>4, <4>1 DEF Delete, Base, Core, BrokerTypes
    <3>2. \A c \in Ports : SameState(c)
      BY <2>1, <2>3, <2>4, <3>1, LocalSame
    <3> QED
      BY <1>2, <2>4, <3>2 DEF gateway
  <2>5. CASE /\ Delete({cur.key}) /\ k[1] # "local"
             /\ Unforward({cur.key[2]}, "rollback", waiting)
    <3>0. \E o : o = waiting
      OBVIOUS
    <3>1. PICK c, s, o : c = k[2] /\ s = "rollback" /\ o = waiting
      BY <3>0
    <3>2. c \in Ports /\ k = Remote(c) /\ s \in Stopping /\ o \in SUBSET waiting
      BY <2>1, <2>3, <2>5, <3>1, MutationFacts DEF Stopping
    <3>3. Delete({Remote(c)})
      BY <2>3, <2>5, <3>2 DEF Delete
    <3>4. Unforward({c}, s, o)
      <4>1. {cur.key[2]} = {c}
        BY <2>3, <3>1
      <4> QED
        BY <2>5, <3>1, <4>1, ZenonT(30) DEF Unforward, Send
    <3>5. \A d \in Ports : Silent(d)
      BY <1>0 DEF Silent
    <3> QED
      BY <1>0, <1>1, <3>1, <3>2, <3>3, <3>4, <3>5, LatestTakesBack
  <2> QED
    <3>1. \/ cur' = None /\ UNCHANGED <<forwards, gateway>>
          \/ Delete({cur.key}) /\ cur.key[1] = "local" /\ cur' = None /\ UNCHANGED gateway
          \/ /\ Delete({cur.key}) /\ cur.key[1] # "local"
             /\ Unforward({cur.key[2]}, "rollback", waiting)
      BY <1>5 DEF PersistAdd, Done
    <3> QED
      BY <1>3, <2>3, <2>4, <2>5, <3>1
<1>6. CASE PersistOwner
  <2>0. cur.key \in Keys /\ managed[cur.key] # None
    BY <1>0, <1>6 DEF PersistOwner, Persisting, Base, Core, CurFits
  <2>1. gens' = gens /\ cur' = None /\ UNCHANGED <<table, waiting>>
    BY <1>6 DEF PersistOwner, Done, gateway
  <2>2. CASE managed' = managed
    <3>1. \A c \in Ports : SameState(c)
      BY <2>1, <2>2 DEF SameState
    <3> QED
      BY <1>2, <2>1, <3>1
  <2>3. CASE managed' = [managed EXCEPT ![cur.key].owners = @ \ {"dynamic"}]
    <3>0. (\E k : k = cur.key) /\ (\E o : o = managed[cur.key].owners \ {"dynamic"})
      OBVIOUS
    <3>1. PICK k, o : k = cur.key /\ o = managed[cur.key].owners \ {"dynamic"}
      BY <3>0
    <3>2. o \in SUBSET Owners /\ k \in Keys /\ managed[k] # None
      BY <2>0, <3>1 DEF Base, Core, BrokerTypes, Entry
    <3>3. managed' = [managed EXCEPT ![k].owners = o]
      BY <2>0, <2>3, <3>1 DEF Base, Core, BrokerTypes
    <3>4. \A c \in Ports : SameState(c)
      BY <2>1, <3>2, <3>3, OwnersSame DEF Base, Core
    <3> QED
      BY <1>2, <2>1, <3>4
  <2> QED
    BY <1>6, <2>2, <2>3 DEF PersistOwner
<1> QED
  BY <1>3, <1>4, <1>5, <1>6
    DEF PersistRevocation, PersistFailure, PersistPrepared, PersistInitial, At, Done

\* A removal takes its mapping back, or its owners.
LEMMA LatestRemoves ==
    ASSUME Base, LatestFits, StartRemove
    PROVE  LatestFits'
<1>1. PICK t : t \in {"remove", "unbind"} /\ Start(t)
  BY DEF StartRemove
<1>2. Head(queue) \in Event /\ Head(queue).type = t /\ t # "state"
  BY <1>1, StartFacts
<1> DEFINE op == Head(queue)
           K == IF op.type = "remove" THEN {op.key} \ {k \in Keys : managed[k] = None}
                ELSE {k \in Managed("local") : managed[k].host = op.host}
<1>3. \A k \in K : k \in Keys /\ managed[k] # None
  <2>1. op.type = "remove" => op.key \in Keys
    BY <1>2, EventFacts
  <2> QED
    BY <2>1 DEF Managed
<1> HIDE DEF K
<1>4. cur = None /\ closing' = closing /\ queue # <<>> /\ queue' = Tail(queue)
  BY <1>1 DEF Start
<1>5. \A c \in Ports : ~Ensuring(c) /\ Silent(c)
  BY <1>2, <1>4 DEF Ensuring, Silent, About
<1>6. ASSUME \A c \in Ports : SameState(c), UNCHANGED <<table, waiting>>,
             cur' = None \/ cur' = [step |-> "persistRev", key |-> None]
      PROVE  LatestFits'
  <2>1. \A c \in Ports : ~Ensuring(c)'
    BY <1>6 DEF Ensuring
  <2> QED
    BY <1>1, <1>2, <1>6, <2>1, LatestStarts
<1>7. CASE UNCHANGED <<forwards, gateway>> /\ cur' = None
  <2>1. \A c \in Ports : SameState(c)
    BY <1>7 DEF SameState, forwards
  <2> QED
    BY <1>6, <1>7, <2>1 DEF gateway
<1>8. ASSUME NEW k \in K, managed' = [managed EXCEPT ![k].owners = {"internal"}],
             cur' = [step |-> "persistRev", key |-> None], UNCHANGED <<gens, gateway>>
      PROVE  LatestFits'
  <2>1. PICK o : o = {"internal"}
    OBVIOUS
  <2>2. o \in SUBSET Owners /\ managed' = [managed EXCEPT ![k].owners = o]
    BY <1>8, <2>1 DEF Owners
  <2>3. \A c \in Ports : SameState(c)
    BY <1>3, <1>8, <2>2, OwnersSame DEF Base, Core
  <2> QED
    BY <1>6, <1>8, <2>3 DEF gateway
<1>9. ASSUME NEW k \in K, Delete({k}), k[1] = "local",
             cur' = [step |-> "persistRev", key |-> None], UNCHANGED gateway
      PROVE  LatestFits'
  <2>1. PICK L : L = {k}
    OBVIOUS
  <2>2. L \in SUBSET Keys /\ Delete(L)
    BY <1>3, <1>9, <2>1
  <2>3. \A c \in Ports : SameState(c)
    BY <2>2, DeleteSame
  <2> QED
    BY <1>6, <1>9, <2>3 DEF gateway
<1>10. ASSUME NEW k \in K, Delete({k}), k[1] # "local",
              Unforward({k[2]}, "unforward", waiting)
       PROVE  LatestFits'
  <2>0. \E o : o = waiting
    OBVIOUS
  <2>1. PICK c, s, o : c = k[2] /\ s = "unforward" /\ o = waiting
    BY <2>0
  <2>2. c \in Ports /\ k = Remote(c) /\ s \in Stopping /\ o \in SUBSET waiting
    BY <1>3, <1>10, <2>1, MutationFacts DEF Stopping
  <2>3. Delete({Remote(c)})
    BY <1>10, <2>2
  <2>4. Unforward({c}, s, o)
    BY <1>10, <2>1 DEF Unforward, Send
  <2> QED
    BY <1>4, <1>5, <2>1, <2>2, <2>3, <2>4, LatestTakesBack
<1> QED
  <2>1. \/ cur' = None /\ UNCHANGED <<forwards, gateway>>
        \/ \E k \in K :
             /\ managed' = [managed EXCEPT ![k].owners = {"internal"}]
             /\ cur' = [step |-> "persistRev", key |-> None] /\ UNCHANGED <<gens, gateway>>
        \/ \E k \in K :
             /\ Delete({k}) /\ k[1] = "local"
             /\ cur' = [step |-> "persistRev", key |-> None] /\ UNCHANGED gateway
        \/ \E k \in K :
             Delete({k}) /\ k[1] # "local" /\ Unforward({k[2]}, "unforward", waiting)
    BY DEF StartRemove, K, At, Done
  <2> QED
    BY <1>7, <1>8, <1>9, <1>10, <2>1

\* A state that is taken up is shown, if it is about the mapping that is there.
LEMMA LatestEvents ==
    ASSUME Base, TroubleFits, LatestFits, StartConnected \/ StartState
    PROVE  LatestFits'
<1>1. CASE StartConnected
  <2>1. PICK t : t = "connected"
    OBVIOUS
  <2>2. Start(t) /\ t # "state" /\ cur' = None /\ UNCHANGED <<forwards, gateway>>
    BY <1>1, <2>1 DEF StartConnected, Done
  <2>3. \A c \in Ports : SameState(c) /\ ~Ensuring(c)'
    BY <2>2 DEF SameState, Ensuring, forwards
  <2> QED
    BY <2>2, <2>3, LatestStarts DEF gateway
<1>2. CASE StartState
  <2>0. \E e : e = Head(queue)
    OBVIOUS
  <2>1. PICK e : e = Head(queue)
    BY <2>0
  <2>2. Start("state")
    BY <1>2 DEF StartState
  <2>3. e \in Event /\ e.type = "state" /\ closing' = closing /\ cur = None
        /\ queue # <<>> /\ queue' = Tail(queue)
    BY <2>1, <2>2, StartFacts DEF Start
  <2>4. e.port \in Ports /\ e.gen \in Nat /\ e.state \in ForwardState
    BY <2>3, EventFacts
  <2>5. \A c \in Ports : ~Ensuring(c)
    BY <2>3 DEF Ensuring
  <2>6. \A c \in Ports : About(e, c, gens[c]) => c = e.port /\ e.gen = gens[c]
    BY DEF About
  <2>7. CASE FailInitial
    BY <2>3, <2>7, LatestFails DEF NoEnsure
  <2>8. ASSUME UNCHANGED <<table, gens, waiting>>, cur' = None \/ cur'.step # "ensure",
               \A c \in Ports : managed'[Remote(c)] # None =>
                 /\ managed[Remote(c)] # None
                 /\ IF About(e, c, gens[c]) THEN managed'[Remote(c)].state = e.state
                    ELSE managed'[Remote(c)].state = managed[Remote(c)].state
        PROVE  LatestFits'
    <3>1. \A c \in Ports : ~Ensuring(c)'
      BY <2>8 DEF Ensuring
    <3>2. \A c \in Ports : ActiveOn(c) /\ EnsuringOn(c) /\ AskedOn(c)
      BY <2>5, <2>8, <3>1 DEF ActiveOn, EnsuringOn, AskedOn
    <3>3. ASSUME NEW c \in Ports PROVE ShownOn(c)
      <4>1. CASE managed'[Remote(c)] = None
        BY <4>1 DEF ShownOn
      <4>2. CASE managed'[Remote(c)] # None /\ About(e, c, gens[c])
        <5>1. Takes(c)
          BY <2>1, <2>3, <2>5, <2>8, <4>2 DEF Takes
        <5> QED
          BY <5>1 DEF ShownOn
      <4>3. CASE managed'[Remote(c)] # None /\ ~About(e, c, gens[c])
        <5>1. Unmoved(c) /\ Silent(c)
          BY <2>1, <2>3, <2>5, <2>8, <4>3 DEF Unmoved, Silent
        <5> QED
          BY <5>1 DEF ShownOn
      <4> QED
        BY <4>1, <4>2, <4>3
    <3>4. Lasting
      BY <2>3, <3>2, <3>3 DEF Lasting
    <3> QED
      BY <3>4, LatestKept
  <2>9. CASE /\ managed[Remote(e.port)] = None \/ ~IsCurrent(e)
             /\ cur' = None /\ UNCHANGED <<forwards, gateway>>
    <3>1. \A c \in Ports : About(e, c, gens[c]) => managed[Remote(c)] = None
      BY <2>6, <2>9 DEF IsCurrent
    <3> QED
      BY <2>8, <2>9, <3>1 DEF forwards, gateway
  <2>10. ASSUME NEW step \in {"persistInit", "persistRev"},
                managed[Remote(e.port)] # None, IsCurrent(e),
                managed' = [managed EXCEPT ![Remote(e.port)].state = e.state],
                cur' = [step |-> step, key |-> None], UNCHANGED <<gens, gateway>>
         PROVE  LatestFits'
    <3>1. PICK k : k = Remote(e.port)
      OBVIOUS
    <3>2. k \in Keys /\ managed[k] # None /\ managed[k] \in Entry
      BY <2>4, <2>10, <3>1, MutationFacts DEF Base, Core, BrokerTypes
    <3>3. \E x : x = [managed[k] EXCEPT !.state = e.state]
      OBVIOUS
    <3>4. PICK x : x = [managed[k] EXCEPT !.state = e.state]
      BY <3>3
    <3>5. x.state = e.state
      BY <3>2, <3>4 DEF Entry
    <3>6. \A y \in Keys : managed'[y] = IF y = k THEN x ELSE managed[y]
      BY <2>10, <3>1, <3>2, <3>4 DEF Base, Core, BrokerTypes
    <3>7. About(e, e.port, gens[e.port])
      BY <2>3, <2>10 DEF About, IsCurrent
    <3>8. ASSUME NEW c \in Ports, managed'[Remote(c)] # None
          PROVE  /\ managed[Remote(c)] # None
                 /\ IF About(e, c, gens[c]) THEN managed'[Remote(c)].state = e.state
                    ELSE managed'[Remote(c)].state = managed[Remote(c)].state
      <4>1. Remote(c) \in Keys /\ (Remote(c) = k => c = e.port)
        BY <2>4, <3>1, MutationFacts
      <4>2. CASE c = e.port
        BY <3>1, <3>2, <3>5, <3>6, <3>7, <4>1, <4>2
      <4>3. CASE c # e.port
        BY <2>6, <3>6, <3>8, <4>1, <4>3
      <4> QED
        BY <4>2, <4>3
    <3>9. cur'.step # "ensure"
      BY <2>10
    <3> QED
      BY <2>8, <2>10, <3>8, <3>9 DEF gateway
  <2> QED
    <3>1. \/ FailInitial
          \/ /\ managed[Remote(e.port)] = None \/ ~IsCurrent(e)
             /\ cur' = None /\ UNCHANGED <<forwards, gateway>>
          \/ \E step \in {"persistInit", "persistRev"} :
             /\ managed[Remote(e.port)] # None /\ IsCurrent(e)
             /\ managed' = [managed EXCEPT ![Remote(e.port)].state = e.state]
             /\ cur' = [step |-> step, key |-> None] /\ UNCHANGED <<gens, gateway>>
      BY <1>2, <2>1 DEF StartState, At, Done
    <3> QED
      BY <2>7, <2>9, <2>10, <3>1
<1> QED
  BY <1>1, <1>2

\* The initial forwards are pending until the relay comes.
LEMMA LatestPrepare ==
    ASSUME Core, Fresh, StartPrepare
    PROVE  LatestFits'
<1>1. PICK f \in InitialForwards : queue = <<[type |-> "prepare", entries |-> f]>>
  BY DEF Fresh
<1>2. queue' = <<>> /\ Head(queue).entries = f /\ DOMAIN queue' = {}
  BY <1>1 DEF StartPrepare, Start
<1>3. \A c \in Ports : table'[c] = None
  BY DEF Fresh, StartPrepare, FailInitial, Unforward, gateway
<1>4. \A c \in Ports : ~Ensuring(c)'
  <2>1. cur' # None => cur'.step # "ensure"
    <3>1. CASE FailInitial
      BY <3>1, FailInitialWrites DEF Writing
    <3>2. CASE cur' = [step |-> "persistPrep", key |-> None]
      BY <3>2
    <3> QED
      BY <3>1, <3>2 DEF StartPrepare, At
  <2> QED
    BY <2>1 DEF Ensuring
<1>5. \A c \in Ports : managed'[Remote(c)] # None => managed'[Remote(c)].state = "pending"
  <2>1. CASE FailInitial
    BY <2>1, MutationFacts DEF FailInitial, Delete
  <2>2. CASE managed' = [k \in Keys |-> IF k \notin DOMAIN f THEN None ELSE
                     [host |-> f[k].host, owners |-> f[k].owners,
                      state |-> IF k[1] = "local" THEN "active" ELSE "pending"]]
    BY <2>2, MutationFacts
  <2> QED
    BY <1>2, <2>1, <2>2 DEF StartPrepare
<1>6. ASSUME NEW c \in Ports, managed'[Remote(c)] # None
      PROVE  Says(queue', c, gens'[c], managed'[Remote(c)].state, Shows(table'[c]))
  BY <1>2, <1>3, <1>5, <1>6 DEF Says, Shows
<1> QED
  BY <1>3, <1>4, <1>6 DEF LatestFits, ActiveFits, AskedFits, ShownFits, EnsuringFits

\* What a step that only reports a state says.
LEMMA ReportOn ==
    ASSUME Base, NEW C \in SUBSET Ports, NEW s \in ForwardState, closing = "open",
           queue' = queue \o Report(C, s)
    PROVE  /\ \A c \in Ports \ C : Silent(c)
           /\ \A c \in C : gens[c] # None /\ gens'[c] = gens[c] /\ s \in Shows(table'[c]) => Tells(c)
<1>1. /\ Report(C, s) \in Seq(Event)
      /\ \A e \in Range(Report(C, s)) : e.state = s /\ e.port \in C
      /\ \A c \in C : gens[c] # None => \E e \in Range(Report(C, s)) : About(e, c, gens[c])
  BY ReportTells
<1>2. \E r \in Seq(Event) : r = Report(C, s)
  BY <1>1
<1>3. PICK r \in Seq(Event) : r = Report(C, s)
  BY <1>2
<1>4. /\ queue' = queue \o r
      /\ \A e \in Range(r) : e.state = s /\ e.port \in C
      /\ \A c \in C : gens[c] # None => \E e \in Range(r) : About(e, c, gens[c])
  BY <1>1, <1>3
<1>5. ASSUME NEW c \in Ports \ C PROVE Silent(c)
  <2>1. \A e \in Range(r) : ~About(e, c, gens[c])
    BY <1>4, <1>5 DEF About
  <2> QED
    BY <1>4, <2>1 DEF Silent
<1>6. ASSUME NEW c \in C, gens[c] # None, gens'[c] = gens[c], s \in Shows(table'[c])
      PROVE  Tells(c)
  BY <1>4, <1>6 DEF Tells
<1> QED
  BY <1>5, <1>6

\* The relay is there: the add asks it, and its forward is shown as pending.
LEMMA LatestReady ==
    ASSUME Base, TroubleFits, LatestFits, EnsureReady
    PROVE  LatestFits'
<1>0. (\E k : k = cur.key) /\ (\E c : c = cur.key[2])
  OBVIOUS
<1>1. PICK k, c, C, s : k = cur.key /\ c = cur.key[2] /\ C = {c} /\ s = "pending"
  BY <1>0
<1>2. /\ cur # None /\ cur.step = "ensure" /\ k \in Keys /\ k[1] = "remote"
      /\ managed[k] # None /\ table[c] # None
  BY <1>1 DEF EnsureReady, Base, Core, CurFits
<1>3. c \in Ports /\ k = Remote(c) /\ C \in SUBSET Ports /\ s \in ForwardState
  BY <1>1, <1>2, MutationFacts DEF ForwardState
<1>4. Ensuring(c) /\ \A d \in Ports : Ensuring(d) => d = c
  BY <1>1, <1>2, <1>3, MutationFacts DEF Ensuring
<1>5. table[c].establishing /\ ~table[c].active
  BY <1>2, <1>3, <1>4 DEF LatestFits, EnsuringFits, ActiveFits
<1>6. queue' = queue \o Report(C, s) /\ UNCHANGED <<managed, gens, table, closing>>
      /\ cur' = [step |-> "ack", key |-> cur.key]
  BY <1>1 DEF EnsureReady, At, forwards
<1>7. \A d \in Ports : ~Ensuring(d)'
  BY <1>6 DEF Ensuring
<1>8. /\ waiting \subseteq waiting'
      /\ \E w \in waiting' : w.kind = "forward" /\ w.port = c /\ w.token = table[c].token
  <2>1. Send("forward", "add", [x \in {cur.key[2]} |-> table[x].token], waiting)
    BY DEF EnsureReady
  <2> DEFINE T == [x \in {cur.key[2]} |-> table[x].token]
             asks == {[port |-> x, id |-> NewId(x), kind |-> "forward", token |-> T[x]] :
                      x \in DOMAIN T}
  <2>2. waiting' = waiting \cup
          {[port |-> a.port, id |-> a.id, kind |-> "forward", token |-> a.token, by |-> "add"] :
             a \in asks}
    <3> HIDE DEF T
    <3> QED
      BY <2>1 DEF Send, T
  <2>3. c \in DOMAIN T /\ T[c] = table[c].token
    BY <1>1
  <2> HIDE DEF T
  <2> DEFINE a0 == [port |-> c, id |-> NewId(c), kind |-> "forward", token |-> T[c]]
             w0 == [port |-> a0.port, id |-> a0.id, kind |-> "forward", token |-> a0.token,
                    by |-> "add"]
  <2>4. a0 \in asks
    BY <2>3, Zenon
  <2>5. a0.port = c /\ a0.token = table[c].token
    BY <2>3
  <2> HIDE DEF asks, a0
  <2>6. w0 \in waiting'
    BY <2>2, <2>4, Zenon
  <2>7. w0.kind = "forward" /\ w0.port = c /\ w0.token = table[c].token
    BY <2>5
  <2>8. waiting \subseteq waiting'
    BY <2>2, Zenon
  <2> HIDE DEF w0
  <2> QED
    BY <2>6, <2>7, <2>8
<1>9. \A d \in Ports : ActiveOn(d) /\ EnsuringOn(d) /\ AskedOn(d)
  <2> SUFFICES ASSUME NEW d \in Ports PROVE ActiveOn(d) /\ EnsuringOn(d) /\ AskedOn(d)
    OBVIOUS
  <2>1. CASE d = c
    BY <1>6, <1>7, <1>8, <2>1 DEF ActiveOn, EnsuringOn, AskedOn
  <2>2. CASE d # c
    BY <1>4, <1>6, <1>7, <1>8, <2>2 DEF ActiveOn, EnsuringOn, AskedOn
  <2> QED
    BY <2>1, <2>2
<1>10. ASSUME NEW d \in Ports, closing = "open" PROVE ShownOn(d)
  <2>1. /\ \A x \in Ports \ C : Silent(x)
        /\ \A x \in C : gens[x] # None /\ gens'[x] = gens[x] /\ s \in Shows(table'[x]) => Tells(x)
    BY <1>3, <1>6, <1>10, ReportOn
  <2>2. CASE d = c
    <3>1. gens[c] # None
      BY <1>2, <1>3 DEF TroubleFits
    <3>2. s \in Shows(table'[c])
      BY <1>1, <1>2, <1>5, <1>6 DEF Shows
    <3>3. Tells(c)
      BY <1>1, <1>6, <2>1, <3>1, <3>2
    <3> QED
      BY <2>2, <3>3 DEF ShownOn
  <2>3. CASE d # c
    <3>1. Silent(d) /\ ~Ensuring(d)
      BY <1>1, <1>4, <2>1, <2>3
    <3>2. managed'[Remote(d)] = None \/ Unmoved(d)
      BY <1>6, <3>1 DEF Unmoved
    <3> QED
      BY <3>1, <3>2 DEF ShownOn
  <2> QED
    BY <2>2, <2>3
<1>11. Lasting
  BY <1>6, <1>9, <1>10 DEF Lasting
<1> QED
  BY <1>11, LatestKept

\* The forward of an add fails: the mapping goes with its entry.
LEMMA LatestAddFails ==
    ASSUME Base, LatestFits, NEW c \in Ports, NEW s \in ForwardState,
           NEW others \in SUBSET waiting, NEW unread, AddFails(c, s, others, unread),
           closing' = closing, \A w \in waiting : w.kind = "forward" /\ w.port # c => w \in others,
           \A d \in Ports : Ensuring(d) => d = c
    PROVE  LatestFits'
<1>1. PICK x, C : x = "rollback" /\ C = {c}
  OBVIOUS
<1>2. x \in Stopping /\ Delete({Remote(c)}) /\ Unforward({c}, x, others)
      /\ queue' = queue \o Report(C, s) /\ C \in SUBSET Ports
  BY <1>1 DEF AddFails, Stopping
<1>3. closing = "open" => \A d \in Ports : d = c \/ Silent(d)
  <2>1. ASSUME closing = "open" PROVE \A d \in Ports \ C : Silent(d)
    BY <1>2, <2>1, ReportOn
  <2> QED
    BY <1>1, <2>1
<1> QED
  BY <1>2, <1>3, LatestTakesBack

\* The relay did not come.
LEMMA LatestUnready ==
    ASSUME Base, LatestFits, EnsureFails
    PROVE  LatestFits'
<1>0. (\E k : k = cur.key) /\ (\E c : c = cur.key[2]) /\ (\E o : o = waiting)
      /\ (\E u : u = answers)
  OBVIOUS
<1>1. PICK k, c, s, o, u : k = cur.key /\ c = cur.key[2] /\ s = "unavailable" /\ o = waiting
                           /\ u = answers
  BY <1>0
<1>2. cur # None /\ cur.step = "ensure" /\ k \in Keys /\ k[1] = "remote"
  BY <1>1 DEF EnsureFails, Base, Core, CurFits
<1>3. c \in Ports /\ k = Remote(c) /\ s \in ForwardState /\ o \in SUBSET waiting
  BY <1>1, <1>2, MutationFacts DEF ForwardState
<1>4. AddFails(c, s, o, u)
  <2>1. AddFails(cur.key[2], s, o, u)
    BY <1>1 DEF EnsureFails, AddFails, Unforward, Send
  <2> QED
    BY <1>1, <2>1 DEF AddFails, Unforward, Send, Delete, Remote
<1>5. closing' = closing /\ \A d \in Ports : Ensuring(d) => d = c
  BY <1>1, <1>3, MutationFacts DEF EnsureFails, Ensuring
<1> QED
  BY <1>1, <1>3, <1>4, <1>5, LatestAddFails

\* A forward that adoptControl asked for ends: its entry is active, or lost.
LEMMA LatestAdopted ==
    ASSUME Base, TroubleFits, LatestFits, NEW w \in waiting,
           NEW s \in {"active", "failed", "unavailable"}, EndAdopted(w, s), closing' = closing
    PROVE  LatestFits'
<1>0. (\E c : c = w.port) /\ (\E a : a = (s = "active"))
  OBVIOUS
<1>1. PICK c, a, C : c = w.port /\ a = (s = "active") /\ C = {c}
  BY <1>0
<1>2. c \in Ports /\ a \in BOOLEAN /\ s \in ForwardState /\ C \in SUBSET Ports
  BY <1>1, WaiterFacts DEF Base, ForwardState
<1>3. UNCHANGED <<managed, gens, cur>> /\ waiting' = waiting \ {w}
  BY DEF EndAdopted
<1>4. \A d \in Ports : Ensuring(d)' <=> Ensuring(d)
  BY <1>3 DEF Ensuring
<1>5. CASE ~(table[c] # None /\ table[c].token = w.token)
  <2>1. UNCHANGED <<table, queue>>
    BY <1>1, <1>5 DEF EndAdopted
  <2>2. ASSUME NEW d \in Ports PROVE ActiveOn(d) /\ EnsuringOn(d) /\ (AskedOn(d) \/ table'[d] = None)
    BY <1>1, <1>3, <1>4, <1>5, <2>1 DEF ActiveOn, EnsuringOn, AskedOn
  <2>3. ASSUME NEW d \in Ports PROVE ShownOn(d)
    BY <1>3, <1>4, <2>1 DEF ShownOn, Unmoved, Silent
  <2>4. Lasting
    BY <2>2, <2>3 DEF Lasting, AskedOn
  <2> QED
    BY <2>4, LatestKept
<1>6. CASE table[c] # None /\ table[c].token = w.token
  <2>1. /\ table' = [table EXCEPT ![c].active = a, ![c].establishing = FALSE]
        /\ queue' = queue \o Report(C, s)
    BY <1>1, <1>6 DEF EndAdopted
  <2>2. ~Ensuring(c)
    BY <1>1, <1>2, <1>6 DEF LatestFits, EnsuringFits
  <2>3. table[c] \in Resource /\ table \in [Ports -> Resource \cup {None}]
    BY <1>2, <1>6 DEF Base, Core, GatewayTypes
  <2>4. table'[c].active = a /\ table'[c].establishing = FALSE /\ table'[c] # None
        /\ \A d \in Ports \ {c} : table'[d] = table[d]
    <3>0. \E r : r = [[table[c] EXCEPT !.active = a] EXCEPT !.establishing = FALSE]
      OBVIOUS
    <3>1. PICK r : r = [[table[c] EXCEPT !.active = a] EXCEPT !.establishing = FALSE]
      BY <3>0
    <3>2. r \in Resource /\ r.active = a /\ r.establishing = FALSE
      BY <1>2, <2>3, <3>1 DEF Resource
    <3>3. r # None
      BY <3>2, PortForwardsAssumption
    <3>4. \A d \in Ports : table'[d] = IF d = c THEN r ELSE table[d]
      BY <1>2, <2>1, <2>3, <3>1
    <3> QED
      BY <1>2, <3>2, <3>3, <3>4
  <2>5. ASSUME NEW d \in Ports PROVE ActiveOn(d) /\ EnsuringOn(d) /\ AskedOn(d)
    <3>1. CASE d = c
      BY <1>4, <2>2, <2>4, <3>1 DEF ActiveOn, EnsuringOn, AskedOn
    <3>2. CASE d # c
      BY <1>1, <1>3, <1>4, <2>4, <3>2 DEF ActiveOn, EnsuringOn, AskedOn
    <3> QED
      BY <3>1, <3>2
  <2>6. ASSUME NEW d \in Ports, closing = "open" PROVE ShownOn(d)
    <3>1. /\ \A x \in Ports \ C : Silent(x)
          /\ \A x \in C : gens[x] # None /\ gens'[x] = gens[x] /\ s \in Shows(table'[x]) => Tells(x)
      BY <1>2, <2>1, <2>6, ReportOn
    <3>2. CASE d = c
      <4>1. s \in Shows(table'[c])
        BY <1>1, <2>4 DEF Shows, Bad
      <4>2. gens[c] # None => Tells(c)
        BY <1>1, <1>3, <3>1, <4>1
      <4>3. gens[c] = None => managed'[Remote(c)] = None
        BY <1>2, <1>3 DEF TroubleFits
      <4> QED
        BY <3>2, <4>2, <4>3 DEF ShownOn
    <3>3. CASE d # c
      <4>1. Silent(d) /\ table'[d] = table[d]
        BY <1>1, <2>4, <3>1, <3>3
      <4>2. managed'[Remote(d)] = None \/ Ensuring(d)' \/ Unmoved(d)
        BY <1>3, <1>4, <4>1 DEF Unmoved
      <4> QED
        BY <4>1, <4>2 DEF ShownOn
    <3> QED
      BY <3>2, <3>3
  <2>7. Lasting
    BY <2>5, <2>6 DEF Lasting
  <2> QED
    BY <2>7, LatestKept
<1> QED
  BY <1>5, <1>6

\* The forward of an add is up.
LEMMA LatestAdded ==
    ASSUME Base, TroubleFits, LatestFits, NEW w \in waiting, w.by = "add", EndAdd(w),
           closing' = closing
    PROVE  LatestFits'
<1>0. \E c : c = w.port
  OBVIOUS
<1>1. PICK c, s, C : c = w.port /\ s = "active" /\ C = {c}
  BY <1>0
<1>2. /\ c \in Ports /\ s \in ForwardState /\ C \in SUBSET Ports /\ cur # None
      /\ cur.step = "ack" /\ managed[Remote(c)] # None /\ table[c] # None
  <2>1. /\ w.port \in Ports /\ cur = [step |-> "ack", key |-> Remote(w.port)] /\ cur # None
        /\ managed[Remote(w.port)] # None /\ table[w.port] # None
    BY WaiterFacts DEF Base
  <2>2. cur.step = "ack"
    BY <2>1
  <2> QED
    BY <1>1, <2>1, <2>2 DEF ForwardState
<1>3. /\ table' = [table EXCEPT ![c].active = TRUE, ![c].establishing = FALSE]
      /\ queue' = queue \o Report(C, s)
      /\ managed' = [managed EXCEPT ![Remote(c)].state = "active"]
      /\ cur' = [step |-> "persistAdd", key |-> cur.key]
      /\ waiting' = waiting \ {w} /\ gens' = gens
  BY <1>1 DEF EndAdd, At
<1>4. \A d \in Ports : ~Ensuring(d) /\ ~Ensuring(d)'
  BY <1>2, <1>3 DEF Ensuring
<1>5. table[c] \in Resource /\ table \in [Ports -> Resource \cup {None}]
  BY <1>2 DEF Base, Core, GatewayTypes
<1>6. table'[c].active = TRUE /\ table'[c].establishing = FALSE /\ table'[c] # None
      /\ \A d \in Ports \ {c} : table'[d] = table[d]
  <2>0. \E r : r = [[table[c] EXCEPT !.active = TRUE] EXCEPT !.establishing = FALSE]
    OBVIOUS
  <2>1. PICK r : r = [[table[c] EXCEPT !.active = TRUE] EXCEPT !.establishing = FALSE]
    BY <2>0
  <2>2. r \in Resource /\ r.active = TRUE /\ r.establishing = FALSE
    BY <1>5, <2>1 DEF Resource
  <2>3. r # None
    BY <2>2, PortForwardsAssumption
  <2>4. \A d \in Ports : table'[d] = IF d = c THEN r ELSE table[d]
    BY <1>2, <1>3, <1>5, <2>1
  <2> QED
    BY <1>2, <2>2, <2>3, <2>4
<1>7. ASSUME NEW d \in Ports PROVE ActiveOn(d) /\ EnsuringOn(d) /\ AskedOn(d)
  <2>1. CASE d = c
    BY <1>4, <1>6, <2>1 DEF ActiveOn, EnsuringOn, AskedOn
  <2>2. CASE d # c
    BY <1>1, <1>3, <1>4, <1>6, <2>2 DEF ActiveOn, EnsuringOn, AskedOn
  <2> QED
    BY <2>1, <2>2
<1>8. ASSUME NEW d \in Ports, closing = "open" PROVE ShownOn(d)
  <2>1. /\ \A x \in Ports \ C : Silent(x)
        /\ \A x \in C : gens[x] # None /\ gens'[x] = gens[x] /\ s \in Shows(table'[x]) => Tells(x)
    BY <1>2, <1>3, <1>8, ReportOn
  <2>2. CASE d = c
    <3>1. s \in Shows(table'[c])
      BY <1>1, <1>6 DEF Shows
    <3>2. gens[c] # None
      BY <1>2 DEF TroubleFits
    <3>3. Tells(c)
      BY <1>1, <1>3, <2>1, <3>1, <3>2
    <3> QED
      BY <2>2, <3>3 DEF ShownOn
  <2>3. CASE d # c
    <3>1. Silent(d) /\ table'[d] = table[d]
      BY <1>1, <1>6, <2>1, <2>3
    <3>2. managed'[Remote(d)] = managed[Remote(d)]
      <4>1. Remote(d) \in Keys /\ Remote(d) # Remote(c)
        BY <1>2, <2>3, MutationFacts
      <4> QED
        BY <1>3, <4>1 DEF Base, Core, BrokerTypes
    <3>3. managed'[Remote(d)] = None \/ Unmoved(d)
      BY <1>3, <1>4, <3>1, <3>2 DEF Unmoved
    <3> QED
      BY <3>1, <3>3 DEF ShownOn
  <2> QED
    BY <2>2, <2>3
<1>9. Lasting
  BY <1>7, <1>8 DEF Lasting
<1> QED
  BY <1>9, LatestKept

\* A removal goes on, or ends.
LEMMA LatestUnforwarded ==
    ASSUME Base, LatestFits, NEW w \in waiting, w.kind = "unforward",
           UNCHANGED <<forwards, queue, closing, table>>, waiting \ {w} \subseteq waiting',
           cur' = cur \/ cur' = AfterUnforward(cur.step)
    PROVE  LatestFits'
<1>1. cur # None /\ cur.step \in Stopping
  BY WaiterFacts DEF Base
<1>2. AfterUnforward(cur.step) # None =>
        AfterUnforward(cur.step).step \in {"persistRev", "persistFail"}
  <2>0. \E s \in Stopping : s = cur.step
    BY <1>1
  <2>1. PICK s \in Stopping : s = cur.step
    BY <2>0
  <2> QED
    BY <2>1, AfterUnforwardType
<1>3. \A c \in Ports : ~Ensuring(c) /\ ~Ensuring(c)'
  BY <1>1, <1>2 DEF Ensuring, Stopping
<1>4. \A c \in Ports : SameState(c)
  BY DEF SameState, forwards
<1>5. \A x \in waiting : x.kind = "forward" => x \in waiting'
  OBVIOUS
<1> QED
  BY <1>3, <1>4, <1>5, LatestRests

\* The ends of requests.
LEMMA LatestAnswered ==
    ASSUME Base, TroubleFits, LatestFits, GatewayStep
    PROVE  LatestFits'
<1>1. PICK w \in waiting : Answer(w) \/ AnswerRefused(w) \/ TimeOut(w)
  BY DEF GatewayStep
<1>2. ASSUME w.by = "add", NEW s \in {"failed", "unavailable"}, NEW u,
             AddFails(w.port, s, waiting \ {w}, u), closing' = closing
      PROVE  LatestFits'
  <2>0. (\E c : c = w.port) /\ (\E o : o = waiting \ {w})
    OBVIOUS
  <2>1. PICK c, o : c = w.port /\ o = waiting \ {w}
    BY <2>0
  <2>2. c \in Ports /\ s \in ForwardState /\ o \in SUBSET waiting /\ cur # None
        /\ cur.step = "ack"
    <3>1. w.port \in Ports /\ cur = [step |-> "ack", key |-> Remote(w.port)] /\ cur # None
      BY <1>2, WaiterFacts DEF Base
    <3>2. cur.step = "ack"
      BY <3>1
    <3> QED
      BY <1>2, <2>1, <3>1, <3>2 DEF ForwardState
  <2>3. AddFails(c, s, o, u)
    BY <1>2, <2>1 DEF AddFails, Unforward, Send
  <2>4. /\ \A x \in waiting : x.kind = "forward" /\ x.port # c => x \in o
        /\ \A d \in Ports : Ensuring(d) => d = c
    BY <2>1, <2>2 DEF Ensuring
  <2> QED
    BY <1>2, <2>2, <2>3, <2>4, LatestAddFails
<1>3. CASE Answer(w)
  <2>1. closing' = closing
    BY <1>3 DEF Answer, Settled
  <2>2. CASE w.kind = "unforward" /\ EndUnforward(w)
    <3>1. UNCHANGED <<forwards, queue, table>> /\ waiting \ {w} \subseteq waiting'
          /\ (cur' = cur \/ cur' = AfterUnforward(cur.step))
      BY <2>2 DEF EndUnforward, EndRequest, Send
    <3> QED
      BY <2>1, <2>2, <3>1, LatestUnforwarded
  <2>3. ASSUME NEW s \in {"active", "failed"}, EndAdopted(w, s) PROVE LatestFits'
    BY <2>1, <2>3, LatestAdopted
  <2> QED
    BY <1>3, <2>1, <2>2, <2>3, LatestAdded DEF Answer
<1>4. CASE AnswerRefused(w)
  <2>0. \E u : u = answers \ {[port |-> w.port, id |-> w.id, ok |-> FALSE]}
    OBVIOUS
  <2>1. PICK u : u = answers \ {[port |-> w.port, id |-> w.id, ok |-> FALSE]}
    BY <2>0
  <2>2. AddFails(w.port, "failed", waiting \ {w}, u) /\ w.by = "add" /\ closing' = closing
    BY <1>4, <2>1 DEF AnswerRefused, AddFails
  <2> QED
    BY <1>2, <2>2
<1>5. CASE TimeOut(w)
  <2>1. closing' = closing
    BY <1>5 DEF TimeOut
  <2>2. CASE /\ w.kind = "unforward" /\ EndRequest(w)
             /\ UNCHANGED <<forwards, queue, table, retired, streams, relay>>
    <3>1. waiting \ {w} \subseteq waiting' /\ (cur' = cur \/ cur' = AfterUnforward(cur.step))
      BY <2>2 DEF EndRequest
    <3> QED
      BY <2>1, <2>2, <3>1, LatestUnforwarded
  <2>3. CASE EndAdopted(w, "unavailable")
    BY <2>1, <2>3, LatestAdopted
  <2>4. CASE w.by = "add" /\ AddFails(w.port, "unavailable", waiting \ {w}, answers)
    <3>0. \E u : u = answers
      OBVIOUS
    <3>1. PICK u : u = answers
      BY <3>0
    <3>2. AddFails(w.port, "unavailable", waiting \ {w}, u)
      BY <2>4, <3>1 DEF AddFails
    <3> QED
      BY <1>2, <2>1, <2>4, <3>2
  <2> QED
    BY <1>5, <2>2, <2>3, <2>4 DEF TimeOut
<1> QED
  BY <1>1, <1>3, <1>4, <1>5

\* The relay is lost: every entry loses its listener, and it is reported.
LEMMA LatestLost ==
    ASSUME Base, TroubleFits, LatestFits, LoseRelay,
           closing' = closing \/ (closing = "closed" /\ closing' = "shut")
    PROVE  LatestFits'
<1> DEFINE asked0 == {w.port : w \in {x \in waiting : x.kind = "forward"
                     /\ table[x.port] # None /\ table[x.port].token = x.token}}
           listed0 == {c \in Ports : table[c] # None}
<1>0. (\E A : A = Adding) /\ (\E D : D = asked0) /\ (\E L : L = listed0) /\ (\E q : q = queue)
  OBVIOUS
<1>1. PICK A, D, L, q, s : A = Adding /\ D = asked0 /\ L = listed0 /\ q = queue
                           /\ s = "unavailable"
  BY <1>0
<1>2. /\ queue' = q \o Report(L, s) \o Report(D, s)
      /\ managed' = [k \in Keys |-> IF k \in {Remote(c) : c \in A} THEN None ELSE managed[k]]
      /\ gens' = [c \in Ports |-> IF c \in A THEN None ELSE gens[c]]
      /\ table' = [c \in Ports |->
              IF c \in A \/ table[c] = None THEN None
              ELSE [table[c] EXCEPT !.active = FALSE, !.establishing = @ /\ c \notin D]]
      /\ waiting' = {}
  <2> HIDE DEF listed0, asked0
  <2> QED
    BY <1>1 DEF LoseRelay, listed0, asked0, Adding
<1>3. L \in SUBSET Ports /\ D \in SUBSET Ports /\ D \subseteq L /\ A \in SUBSET Ports
      /\ s \in ForwardState /\ q \in Seq(Event)
  <2>1. \A w \in waiting : w.port \in Ports
    BY WaiterFacts DEF Base
  <2>2. D \subseteq L /\ L \subseteq Ports
    BY <1>1, <2>1
  <2>3. A \subseteq Ports
    BY <1>1, <2>1 DEF Adding
  <2> QED
    BY <1>1, <2>2, <2>3 DEF Base, ForwardState
<1>4. /\ \A c \in Ports : c \in L <=> table[c] # None
      /\ \A c \in Ports : (\E w \in waiting : w.kind = "forward" /\ w.port = c
                                             /\ w.token = table[c].token)
                          /\ table[c] # None => c \in D
      /\ \A c \in D : \E w \in waiting : w.port = c /\ w.token = table[c].token
  BY <1>1
<1> HIDE DEF asked0, listed0
<1>5. \A c \in Ports : c \in A \/ table[c] = None => table'[c] = None
  BY <1>2
<1>6. ASSUME NEW c \in Ports, c \notin A, table[c] # None
      PROVE  /\ table'[c] # None /\ table'[c].active = FALSE
             /\ table'[c].establishing <=> table[c].establishing /\ c \notin D
  <2>0. \E r : r = [table[c] EXCEPT !.active = FALSE, !.establishing = @ /\ c \notin D]
    OBVIOUS
  <2>1. PICK r : r = [table[c] EXCEPT !.active = FALSE, !.establishing = @ /\ c \notin D]
    BY <2>0
  <2>2. table[c] \in Resource
    BY <1>6 DEF Base, Core, GatewayTypes
  <2>3. r \in Resource /\ r.active = FALSE
        /\ (r.establishing <=> table[c].establishing /\ c \notin D)
    BY <2>1, <2>2 DEF Resource
  <2>4. table'[c] = r
    BY <1>2, <1>6, <2>1
  <2> QED
    BY <2>3, <2>4, PortForwardsAssumption
<1>7. \A c \in Ports : Ensuring(c)' <=> Ensuring(c)
  <2>1. Loses(A)
    BY <1>1, LossFacts
  <2>2. CASE cur' = cur
    BY <2>2 DEF Ensuring
  <2>3. CASE cur # None /\ cur.step \in Stopping /\ cur' = AfterUnforward(cur.step)
    <3>0. \E x \in Stopping : x = cur.step
      BY <2>3
    <3>1. PICK x \in Stopping : x = cur.step
      BY <3>0
    <3>2. cur' # None => cur'.step \in {"persistRev", "persistFail"}
      BY <2>3, <3>1, AfterUnforwardType
    <3> QED
      BY <2>3, <3>2 DEF Ensuring, Stopping
  <2>4. ASSUME NEW c \in Ports, cur = [step |-> "ack", key |-> Remote(c)], cur' = None
        PROVE  \A d \in Ports : Ensuring(d)' <=> Ensuring(d)
    BY <2>4 DEF Ensuring
  <2> QED
    BY <2>1, <2>2, <2>3, <2>4 DEF Loses
<1>8. \A c \in Ports : Ensuring(c) => c \notin A /\ c \notin D /\ table[c] # None
                                      /\ table[c].establishing
  <2> SUFFICES ASSUME NEW c \in Ports, Ensuring(c)
               PROVE  c \notin A /\ c \notin D /\ table[c] # None /\ table[c].establishing
    OBVIOUS
  <2>1. cur # None /\ cur.step = "ensure" /\ cur.key[2] = c
    BY MutationFacts DEF Ensuring
  <2>2. table[c] # None
    BY <2>1 DEF Base, Core, CurFits
  <2>3. c \notin D /\ table[c].establishing
    BY <1>4 DEF LatestFits, EnsuringFits
  <2>4. A = {}
    <3>1. ASSUME NEW w \in waiting, w.by = "add" PROVE FALSE
      <4>1. cur = [step |-> "ack", key |-> Remote(w.port)]
        BY <3>1, WaiterFacts DEF Base
      <4> QED
        BY <2>1, <4>1
    <3> QED
      BY <1>1, <3>1 DEF Adding
  <2> QED
    BY <2>2, <2>3, <2>4
<1>9. ASSUME NEW c \in Ports, closing # "shut", ~Ensuring(c), c \notin A, table[c] # None
      PROVE  ~table'[c].establishing
  <2>1. table[c].establishing => c \in D
    BY <1>4, <1>9 DEF LatestFits, AskedFits
  <2> QED
    BY <1>6, <1>9, <2>1
<1>10. ASSUME NEW c \in Ports PROVE ActiveOn(c)
  BY <1>5, <1>6 DEF ActiveOn
<1>11. ASSUME NEW c \in Ports PROVE EnsuringOn(c)
  BY <1>2, <1>6, <1>7, <1>8 DEF EnsuringOn
<1>12. ASSUME NEW c \in Ports, closing # "shut" PROVE AskedOn(c)
  BY <1>5, <1>7, <1>9, <1>12 DEF AskedOn
<1>13. ASSUME NEW c \in Ports, closing = "open" PROVE ShownOn(c)
  <2>1. /\ Report(L, s) \in Seq(Event)
        /\ \A e \in Range(Report(L, s)) : e.state = s /\ e.port \in L
        /\ \A x \in L : gens[x] # None => \E e \in Range(Report(L, s)) : About(e, x, gens[x])
    BY <1>3, <1>13, ReportTells
  <2>2. /\ Report(D, s) \in Seq(Event)
        /\ \A e \in Range(Report(D, s)) : e.state = s /\ e.port \in D
    BY <1>3, <1>13, ReportTells
  <2>3. \E r, t \in Seq(Event) : r = Report(L, s) /\ t = Report(D, s)
    BY <2>1, <2>2
  <2>4. PICK r, t \in Seq(Event) : r = Report(L, s) /\ t = Report(D, s)
    BY <2>3
  <2>5. queue' = queue \o (r \o t) /\ r \o t \in Seq(Event) /\ Range(r \o t) = Range(r) \cup Range(t)
    <3>1. (q \o r) \o t = q \o (r \o t) /\ r \o t \in Seq(Event)
      BY <1>3, <2>4, ConcatAssociative, ConcatProperties, SMTT(30)
    <3>2. Range(r \o t) = Range(r) \cup Range(t)
      BY <2>4, RangeConcatenation
    <3> QED
      BY <1>1, <1>2, <2>4, <3>1, <3>2
  <2>6. PICK u \in Seq(Event) : u = r \o t
    BY <2>5
  <2>7. /\ queue' = queue \o u
        /\ \A e \in Range(u) : e.state = s /\ e.port \in L
        /\ \A x \in L : gens[x] # None => \E e \in Range(u) : About(e, x, gens[x])
    BY <1>3, <2>1, <2>2, <2>4, <2>5, <2>6
  <2>8. CASE c \in A
    <3>1. managed'[Remote(c)] = None
      BY <1>2, <2>8, MutationFacts
    <3> QED
      BY <3>1 DEF ShownOn
  <2>9. CASE c \notin A /\ Ensuring(c)
    BY <1>7, <2>9 DEF ShownOn
  <2>10. CASE c \notin A /\ ~Ensuring(c)
    <3>1. managed'[Remote(c)] = managed[Remote(c)] /\ gens'[c] = gens[c]
      <4>1. Remote(c) \in Keys /\ Remote(c) \notin {Remote(d) : d \in A}
        BY <1>3, <2>10, MutationFacts
      <4> QED
        BY <1>2, <2>10, <4>1
    <3>2. CASE managed[Remote(c)] = None
      BY <3>1, <3>2 DEF ShownOn
    <3>3. CASE managed[Remote(c)] # None /\ c \in L
      <4>1. gens[c] # None
        BY <3>3 DEF TroubleFits
      <4>2. s \in Shows(table'[c])
        <5>1. /\ table'[c] # None /\ table'[c].active = FALSE /\ ~table'[c].establishing
          BY <1>4, <1>6, <1>9, <1>13, <2>10, <3>3
        <5> QED
          BY <1>1, <5>1 DEF Shows, Bad
      <4>3. Tells(c)
        BY <2>7, <3>1, <3>3, <4>1, <4>2 DEF Tells
      <4> QED
        BY <4>3 DEF ShownOn
    <3>4. CASE managed[Remote(c)] # None /\ c \notin L
      <4>1. table'[c] = None /\ table[c] = None
        BY <1>4, <1>5, <3>4
      <4>2. \A e \in Range(u) : ~About(e, c, gens[c])
        BY <2>7, <3>4 DEF About
      <4>3. Silent(c)
        BY <2>7, <4>2 DEF Silent
      <4>4. Unmoved(c)
        BY <2>10, <3>1, <3>4, <4>1 DEF Unmoved
      <4> QED
        BY <4>3, <4>4 DEF ShownOn
    <3> QED
      BY <3>2, <3>3, <3>4
  <2> QED
    BY <2>8, <2>9, <2>10
<1>14. Lasting
  BY <1>10, <1>11, <1>12, <1>13 DEF Lasting
<1> QED
  BY <1>14, LatestKept

\* A relay connects: every mapping but that of an add that waits is pending.
LEMMA LatestConnects ==
    ASSUME Base, TroubleFits, Apart, LatestFits, Connect
    PROVE  LatestFits'
<1> DEFINE own0 == {c \in Ports : table[c] # None /\ table[c].establishing}
           desired0 == {k[2] : k \in Managed("remote")} \ own0
           new == [c \in Ports |-> [token |-> NewToken(c), host |-> managed[Remote(c)].host,
                                    active |-> FALSE, establishing |-> TRUE]]
           ask == [c \in Ports |-> [port |-> c, id |-> 1, kind |-> "forward",
                                    token |-> NewToken(c), by |-> "adopt"]]
<1>0. (\E O : O = own0) /\ (\E C : C = desired0)
  OBVIOUS
<1>1. PICK O, C, s : O = own0 /\ C = desired0 /\ s = "pending"
  BY <1>0
<1>2. C \in SUBSET Ports /\ C \cap O = {} /\ s \in ForwardState /\ waiting = {}
      /\ closing # "shut" /\ closing' = closing
  <2>1. desired0 \subseteq Ports /\ desired0 \cap own0 = {}
    BY MutationFacts DEF Managed
  <2> QED
    BY <1>1, <2>1 DEF ForwardState, Apart, Connect
<1>3. /\ \A c \in Ports : c \in C <=> managed[Remote(c)] # None /\ c \notin O
      /\ \A c \in Ports : c \in O <=> table[c] # None /\ table[c].establishing
  <2>1. \A c \in Ports : c \in desired0 <=> managed[Remote(c)] # None /\ c \notin own0
    <3>1. ASSUME NEW c \in Ports
          PROVE  c \in {k[2] : k \in Managed("remote")} <=> managed[Remote(c)] # None
      <4>1. Remote(c) \in Keys /\ Remote(c)[1] = "remote" /\ Remote(c)[2] = c
        BY MutationFacts
      <4>2. \A k \in Managed("remote") : k \in Keys /\ k[1] = "remote" /\ managed[k] # None
                                         /\ k = Remote(k[2])
        BY MutationFacts DEF Managed
      <4>3. managed[Remote(c)] # None => Remote(c) \in Managed("remote")
        BY <4>1 DEF Managed
      <4> QED
        BY <4>1, <4>2, <4>3
    <3> QED
      BY <3>1
  <2> QED
    BY <1>1, <2>1
<1>4. /\ table' = [c \in Ports |-> IF c \in O THEN table[c]
                                   ELSE IF c \in C THEN new[c] ELSE None]
      /\ \A c \in C : ask[c] \in waiting'
      /\ \A w \in waiting' : w.port \in C
      /\ queue' = queue \o Report(C, s) \o
                 (IF initial = "pending" /\ closing = "open" THEN <<[type |-> "connected"]>>
                  ELSE <<>>)
      /\ UNCHANGED <<managed, gens, cur>>
  <2> HIDE DEF own0, desired0
  <2>1. \A c \in desired0 : c \in Ports
    BY <1>1, <1>2
  <2> QED
    BY <1>1, <2>1 DEF Connect, own0, desired0, forwards
<1>5. \A c \in C : new[c] # None /\ new[c].token = NewToken(c) /\ new[c].active = FALSE
                   /\ ask[c].kind = "forward" /\ ask[c].port = c /\ ask[c].token = NewToken(c)
  <2> SUFFICES ASSUME NEW c \in C
               PROVE  /\ new[c] # None /\ new[c].token = NewToken(c) /\ new[c].active = FALSE
                      /\ ask[c].kind = "forward" /\ ask[c].port = c /\ ask[c].token = NewToken(c)
    OBVIOUS
  <2>1. c \in Ports /\ managed[Remote(c)].host \in HostPorts /\ NewToken(c) \in Nat
    <3>1. Types
      BY TypesParts DEF Base, Core
    <3> QED
      BY <1>2, <1>3, <3>1, NameTypes, MutationFacts DEF Base, Core, BrokerTypes, Entry
  <2>2. new[c] \in Resource
    BY <2>1 DEF Resource
  <2> QED
    BY <2>1, <2>2, PortForwardsAssumption
<1>6. \A c \in C : new[c].establishing = TRUE
  BY <1>2
<1> HIDE DEF own0, desired0, new, ask
<1>7. \A c \in Ports : Ensuring(c)' <=> Ensuring(c)
  BY <1>4 DEF Ensuring
<1>8. \A c \in Ports : c \in O <=> Ensuring(c)
  <2>1. ASSUME NEW c \in Ports, c \in O PROVE Ensuring(c)
    BY <1>2, <1>3, <2>1 DEF LatestFits, AskedFits
  <2>2. ASSUME NEW c \in Ports, Ensuring(c) PROVE c \in O
    <3>1. cur # None /\ cur.step = "ensure" /\ cur.key[2] = c
      BY <2>2, MutationFacts DEF Ensuring
    <3>2. table[c] # None
      BY <3>1 DEF Base, Core, CurFits
    <3> QED
      BY <1>3, <2>2, <3>2 DEF LatestFits, EnsuringFits
  <2> QED
    BY <2>1, <2>2
<1>9. ASSUME NEW c \in Ports PROVE ActiveOn(c) /\ EnsuringOn(c) /\ AskedOn(c)
  <2>1. CASE c \in O
    <3>1. table'[c] = table[c] /\ Ensuring(c) /\ Ensuring(c)'
      BY <1>4, <1>7, <1>8, <2>1
    <3>2. \A w \in waiting' : w.port # c
      BY <1>2, <1>4, <2>1
    <3> QED
      BY <3>1, <3>2 DEF ActiveOn, EnsuringOn, AskedOn
  <2>2. CASE c \in C
    <3>1. table'[c] = new[c] /\ ~Ensuring(c)' /\ ask[c] \in waiting'
      BY <1>2, <1>4, <1>7, <1>8, <2>2
    <3> QED
      BY <1>5, <2>2, <3>1 DEF ActiveOn, EnsuringOn, AskedOn
  <2>3. CASE c \notin O /\ c \notin C
    <3>1. table'[c] = None /\ ~Ensuring(c)'
      BY <1>4, <1>7, <1>8, <2>3
    <3> QED
      BY <3>1 DEF ActiveOn, EnsuringOn, AskedOn
  <2> QED
    BY <2>1, <2>2, <2>3
<1>10. ASSUME NEW c \in Ports, closing = "open" PROVE ShownOn(c)
  <2>1. /\ Report(C, s) \in Seq(Event)
        /\ \A e \in Range(Report(C, s)) : e.state = s /\ e.port \in C
        /\ \A x \in C : gens[x] # None => \E e \in Range(Report(C, s)) : About(e, x, gens[x])
    BY <1>2, <1>10, ReportTells
  <2>2. \E r \in Seq(Event) : r = Report(C, s)
    BY <2>1
  <2>3. PICK r \in Seq(Event) : r = Report(C, s)
    BY <2>2
  <2>4. \E t \in Seq(Event) : /\ queue' = queue \o r \o t
                              /\ \A e \in Range(t) : e.type = "connected"
    <3>1. PICK t, z : t = <<[type |-> "connected"]>> /\ z = <<>>
      OBVIOUS
    <3>2. t \in Seq(Event) /\ z \in Seq(Event)
      BY <3>1 DEF Event
    <3>3. (\A e \in Range(t) : e.type = "connected") /\ (\A e \in Range(z) : e.type = "connected")
      BY <3>1 DEF Range
    <3>4. queue' = queue \o r \o t \/ queue' = queue \o r \o z
      BY <1>4, <2>3, <3>1
    <3> QED
      BY <3>2, <3>3, <3>4
  <2>5. PICK t \in Seq(Event) : /\ queue' = queue \o r \o t
                                /\ \A e \in Range(t) : e.type = "connected"
    BY <2>4
  <2>6. queue' = queue \o (r \o t) /\ r \o t \in Seq(Event) /\ Range(r \o t) = Range(r) \cup Range(t)
    <3>0. \E q \in Seq(Event) : q = queue
      BY DEF Base
    <3>q. PICK q \in Seq(Event) : q = queue
      BY <3>0
    <3>1. (q \o r) \o t = q \o (r \o t) /\ r \o t \in Seq(Event)
      BY ConcatAssociative, ConcatProperties, SMTT(30)
    <3>2. Range(r \o t) = Range(r) \cup Range(t)
      BY RangeConcatenation
    <3> QED
      BY <2>5, <3>q, <3>1, <3>2
  <2>7. PICK u \in Seq(Event) : u = r \o t
    BY <2>6
  <2>8. /\ queue' = queue \o u
        /\ \A e \in Range(u) : \A x : About(e, x, gens[x]) => e.state = s /\ e.port \in C
        /\ \A x \in C : gens[x] # None => \E e \in Range(u) : About(e, x, gens[x])
    BY <2>1, <2>3, <2>5, <2>6, <2>7 DEF About
  <2>9. CASE c \in O
    BY <1>7, <1>8, <2>9 DEF ShownOn
  <2>10. CASE c \in C
    <3>1. gens[c] # None /\ gens'[c] = gens[c]
      BY <1>3, <1>4, <2>10 DEF TroubleFits
    <3>2. table'[c] = new[c]
      BY <1>2, <1>4, <2>10
    <3>3. s \in Shows(table'[c])
      BY <1>1, <1>5, <1>6, <2>10, <3>2 DEF Shows
    <3>4. Tells(c)
      BY <2>8, <2>10, <3>1, <3>3 DEF Tells
    <3> QED
      BY <3>4 DEF ShownOn
  <2>11. CASE c \notin O /\ c \notin C
    <3>1. managed'[Remote(c)] = None
      BY <1>3, <1>4, <2>11
    <3> QED
      BY <3>1 DEF ShownOn
  <2> QED
    BY <2>9, <2>10, <2>11
<1>11. Lasting
  BY <1>2, <1>9, <1>10 DEF Lasting
<1> QED
  BY <1>11, LatestKept

\* The calls, the relay's own steps and the clients change nothing that is shown.
LEMMA LatestAside ==
    ASSUME Base, TroubleFits, Apart, LatestFits, Aside
    PROVE  LatestFits'
<1>1. CASE Connect
  BY <1>1, LatestConnects
<1>2. ASSUME UNCHANGED <<forwards, cur, table, waiting>>,
             closing' = closing \/ (closing = "open" /\ closing' = "closing"), queue' = queue
      PROVE  LatestFits'
  <2>1. \A c \in Ports : SameState(c)
    BY <1>2 DEF SameState, forwards
  <2>2. \A c \in Ports : Ensuring(c)' <=> Ensuring(c)
    BY <1>2 DEF Ensuring
  <2> QED
    BY <1>2, <2>1, <2>2, LatestRests
<1>3. ASSUME NEW op \in Event, op.type # "state", queue' = Append(queue, op),
             UNCHANGED <<forwards, cur, table, waiting, closing>>
      PROVE  LatestFits'
  <2>0. \E q \in Seq(Event) : q = queue
    BY DEF Base
  <2>1. PICK q \in Seq(Event) : q = queue
    BY <2>0
  <2>2. PICK r : r = <<op>>
    OBVIOUS
  <2>3. r \in Seq(Event) /\ \A e \in Range(r) : e = op
    BY <2>2 DEF Range
  <2>4. queue' = queue \o r
    BY <1>3, <2>1, <2>2, RangeOne
  <2>5. \A c \in Ports : Silent(c)
    BY <1>3, <2>3, <2>4 DEF Silent, About
  <2>6. \A c \in Ports : Ensuring(c)' <=> Ensuring(c)
    BY <1>3 DEF Ensuring
  <2>7. \A c \in Ports : ShownOn(c)
    BY <1>3, <2>5, <2>6 DEF ShownOn, Unmoved, forwards
  <2>8. \A c \in Ports : ActiveOn(c) /\ EnsuringOn(c) /\ AskedOn(c)
    BY <1>3, <2>6 DEF ActiveOn, EnsuringOn, AskedOn
  <2>9. Lasting
    BY <1>3, <2>7, <2>8 DEF Lasting
  <2> QED
    BY <2>9, LatestKept
<1>4. CASE AddPortForward \/ RemovePortForward
  <2>1. \A k \in Keys, host \in HostPorts \cup {AnyPort} : (host = AnyPort => k[1] = "local") =>
          [type |-> "add", key |-> k, host |-> host] \in Event
    BY DEF Event, AddEvent
  <2>2. (\A k \in Keys : [type |-> "remove", key |-> k] \in Event)
        /\ \A host \in HostPorts : [type |-> "unbind", host |-> host] \in Event
    BY DEF Event
  <2>3. PICK op \in Event : op.type # "state" /\ queue' = Append(queue, op)
    <3>1. CASE AddPortForward
      <4>1. PICK k \in Keys, host \in HostPorts \cup {AnyPort} :
              /\ host = AnyPort => k[1] = "local"
              /\ Call([type |-> "add", key |-> k, host |-> host])
        BY <3>1 DEF AddPortForward
      <4> QED
        BY <2>1, <4>1 DEF Call
    <3>2. CASE RemovePortForward
      BY <2>2, <3>2 DEF RemovePortForward, Call
    <3> QED
      BY <1>4, <3>1, <3>2
  <2>4. UNCHANGED <<forwards, cur, table, waiting, closing>>
    BY <1>4 DEF AddPortForward, RemovePortForward, Call, gateway
  <2> QED
    BY <1>3, <2>3, <2>4
<1> QED
  BY <1>1, <1>2, <1>4
    DEF Aside, LateAnswer, RelayForward, RelayUnforward, RelayCancelled, RelayListens, RelayOnly,
      Close, StreamEnds, Accept, gateway

\* Every step keeps the state that is shown the latest one, or on its way there.
LEMMA LatestNext ==
    ASSUME Inv, TroubleFits, ListenersFit, LatestFits, [Next]_vars
    PROVE  LatestFits'
<1>0. Core /\ Apart
  BY DEF Inv, ListenersFit
<1>1. CASE UNCHANGED vars
  BY <1>1 DEF LatestFits, ActiveFits, AskedFits, ShownFits, EnsuringFits, Ensuring, vars, forwards,
    gateway
<1>2. CASE Next /\ Fresh
  <2>1. StartPrepare \/ Close
    BY <1>0, <1>2, FreshStep
  <2>2. CASE Close
    BY <2>2 DEF Close, LatestFits, ActiveFits, AskedFits, ShownFits, EnsuringFits, Ensuring, forwards,
      gateway
  <2> QED
    BY <1>0, <1>2, <2>1, <2>2, LatestPrepare
<1>3. CASE Next /\ Base
  <2>1. ~StartPrepare
    <3>1. ASSUME StartPrepare PROVE FALSE
      <4>1. Start("prepare")
        BY <3>1 DEF StartPrepare
      <4>2. Head(queue) \in Event /\ Head(queue).type = "prepare"
        BY <1>3, <4>1, StartFacts
      <4> QED
        BY <4>2, EventFacts
    <3> QED
      BY <3>1
  <2>2. CASE CloseGateway \/ Drop \/ RelayExits
    <3>1. LoseRelay /\ (closing' = closing \/ (closing = "closed" /\ closing' = "shut"))
      BY <2>2 DEF CloseGateway, Drop, RelayExits
    <3> QED
      BY <1>3, <3>1, LatestLost
  <2>3. CASE CloseBroker
    <3>1. /\ closing = "closing" /\ closing' = "closed" /\ cur = None /\ cur' = cur
          /\ UNCHANGED <<table, queue, waiting>>
      BY <2>3 DEF CloseBroker, gateway
    <3>2. \A c \in Ports : Ensuring(c)' <=> Ensuring(c)
      BY <3>1 DEF Ensuring
    <3> QED
      BY <1>3, <3>1, <3>2, LatestRests
  <2>4. CASE BrokerStep
    BY <1>3, <2>1, <2>2, <2>3, <2>4, LatestStartAdd, LatestLocal, LatestReady, LatestUnready,
      LatestPersists, LatestRemoves, LatestEvents DEF BrokerStep
  <2>5. CASE GatewayStep \/ Aside
    BY <1>0, <1>3, <2>5, LatestAnswered, LatestAside
  <2> QED
    BY <1>3, <2>2, <2>4, <2>5 DEF Next, RelayStep, Aside
<1> QED
  BY <1>0, <1>1, <1>2, <1>3 DEF Inv, Base, PrepareFits

\* When no mutation is left, the state shown for a remote forward is the one its listener
\* has: whatever changes an entry of the gateway's table -- an answer, a timeout, a lost
\* relay or a new one -- reports the new state behind what is queued, with the generation
\* that is there, and only a mapping that goes is not reported on.
THEOREM StateShown == Spec => []StateIsLatest
<1>1. Init => TroubleFits /\ ListenersFit /\ LatestFits
  <2> SUFFICES ASSUME Init PROVE TroubleFits /\ ListenersFit /\ LatestFits
    OBVIOUS
  <2>1. PICK f \in InitialForwards : queue = <<[type |-> "prepare", entries |-> f]>>
    BY DEF Init
  <2>2. \A e \in Range(queue) : e.type = "prepare"
    BY <2>1 DEF Range
  <2>3. \A c \in Ports : gens[c] = None /\ managed[Remote(c)] = None
    BY MutationFacts DEF Init
  <2>4. /\ toRelay = <<>> /\ waiting = {} /\ \A c \in Ports : fwd[c] = None /\ table[c] = None
        /\ answers = {} /\ limbo = {} /\ cur = None
    BY DEF Init
  <2>5. TroubleFits
    BY <2>2, <2>3 DEF TroubleFits, Told
  <2>6. ListenersFit
    BY <2>4, EmptyWire DEF ListenersFit, Apart, TokensFit, IdsFit
  <2>7. LatestFits
    BY <2>3, <2>4 DEF LatestFits, ActiveFits, AskedFits, ShownFits, EnsuringFits, Ensuring
  <2> QED
    BY <2>5, <2>6, <2>7
<1>2. Inv /\ TroubleFits /\ ListenersFit /\ LatestFits /\ [Next]_vars =>
        TroubleFits' /\ ListenersFit' /\ LatestFits'
  BY TroubleNext, ListenersNext, LatestNext
<1>3. LatestFits => StateIsLatest
  <2> SUFFICES ASSUME LatestFits, Quiet, NEW c \in Ports, managed[Remote(c)] # None
               PROVE  CASE table[c] = None -> managed[Remote(c)].state = "pending"
                        [] table[c] # None /\ table[c].active ->
                             managed[Remote(c)].state = "active"
                        [] table[c] # None /\ table[c].establishing ->
                             managed[Remote(c)].state = "pending"
                        [] OTHER -> managed[Remote(c)].state \in {"unavailable", "failed"}
    BY DEF StateIsLatest
  <2>1. ~Ensuring(c) /\ closing = "open" /\ queue = <<>>
    BY DEF Quiet, Ensuring
  <2>2. Says(queue, c, gens[c], managed[Remote(c)].state, Shows(table[c]))
    BY <2>1 DEF LatestFits, ShownFits
  <2>3. managed[Remote(c)].state \in Shows(table[c])
    <3>1. DOMAIN queue = {}
      BY <2>1
    <3> QED
      BY <2>2, <3>1 DEF Says
  <2>4. table[c] # None => ~(table[c].active /\ table[c].establishing)
    BY DEF LatestFits, ActiveFits
  <2> QED
    BY <2>3, <2>4 DEF Shows, Bad
<1> QED
  BY <1>1, <1>2, <1>3, InvariantHolds, PTL DEF Spec

-----------------------------------------------------------------------------
(* Loops of forwards. *)

\* A non-empty set of naturals has a least element.
LEMMA LeastNatural ==
    ASSUME NEW T \in SUBSET Nat, T # {}
    PROVE  \E n \in T : \A m \in T : n <= m
<1>1. PICK n \in T : \A m \in T : ~(<<m, n>> \in OpToRel(<, Nat))
  BY NatLessThanWellFounded, WFMin
<1>2. \A m \in T : ~(m < n)
  BY <1>1 DEF OpToRel
<1> QED
  BY <1>2

\* The edges of entries, and where createsForwardCycle goes on from a node.
From(entries, e) == Source(e, entries[e].host)
Into(entries, e) == Target(e, entries[e].host)
Follow(entries, n) ==
    IF {e \in DOMAIN entries : Source(e, entries[e].host) = n} = {} THEN End
    ELSE LET e == CHOOSE e \in {x \in DOMAIN entries : Source(x, entries[x].host) = n} : TRUE
         IN  Target(e, entries[e].host)

\* g is the walk along the entries from a node, for n steps.
IsWalk(g, entries, from, n) ==
    g = [i \in 0..n |-> IF i = 0 THEN from ELSE Follow(entries, g[i - 1])]

\* There is a walk of every length.
LEMMA WalkExists ==
    ASSUME NEW entries, NEW from, NEW n \in Nat
    PROVE  \E g : IsWalk(g, entries, from, n)
<1> DEFINE Wrong == {m \in Nat : ~\E g : IsWalk(g, entries, from, m)}
<1>1. SUFFICES ASSUME Wrong # {} PROVE FALSE
  BY <1>1
<1>2. PICK b \in Wrong : \A m \in Wrong : b <= m
  BY <1>1, LeastNatural
<1>3. CASE b = 0
  <2> DEFINE h == [i \in 0..0 |-> from]
  <2>1. IsWalk(h, entries, from, 0)
    BY DEF IsWalk
  <2> QED
    BY <1>2, <1>3, <2>1
<1>4. CASE b # 0
  <2>1. b \in Nat /\ b - 1 \in Nat /\ b - 1 \notin Wrong
    BY <1>2, <1>4
  <2>2. PICK g : IsWalk(g, entries, from, b - 1)
    BY <2>1
  <2> DEFINE h == [i \in 0..b |-> IF i = 0 THEN from ELSE Follow(entries, g[i - 1])]
  <2>3. \A i \in 0..(b - 1) : h[i] = g[i]
    <3>1. \A i \in 0..(b - 1) : i \in 0..b
      BY <2>1
    <3> QED
      BY <3>1, <2>2 DEF IsWalk
  <2>4. \A i \in 0..b : i # 0 => i - 1 \in 0..(b - 1)
    BY <2>1
  <2>5. IsWalk(h, entries, from, b)
    <3>1. \A i \in 0..b : i # 0 => h[i - 1] = g[i - 1]
      BY <2>3, <2>4
    <3> DEFINE hh == [i \in 0..b |-> IF i = 0 THEN from ELSE Follow(entries, h[i - 1])]
    <3>2. \A i \in 0..b : h[i] = hh[i]
      <4> HIDE DEF h
      <4>1. \A i \in 0..b : hh[i] = IF i = 0 THEN from ELSE Follow(entries, h[i - 1])
        OBVIOUS
      <4>2. \A i \in 0..b : h[i] = IF i = 0 THEN from ELSE Follow(entries, g[i - 1])
        BY DEF h
      <4> QED
        BY <3>1, <4>1, <4>2
    <3>3. h = hh
      <4> HIDE DEF h, hh
      <4>1. h = [i \in 0..b |-> h[i]] /\ hh = [i \in 0..b |-> hh[i]]
        BY DEF h, hh
      <4> QED
        BY <3>2, <4>1
    <3> QED
      BY <3>3 DEF IsWalk
  <2> QED
    BY <1>2, <2>1, <2>5
<1> QED
  BY <1>3, <1>4

\* What it means that no cycle was found.
LEMMA NoCycleFound ==
    ASSUME NEW entries, NEW k, NEW host, Cardinality(DOMAIN entries) \in Nat,
           ~CreatesForwardCycle(entries, k, host)
    PROVE  \E g : /\ IsWalk(g, entries, Target(k, host), Cardinality(DOMAIN entries))
                  /\ \A i \in 0..Cardinality(DOMAIN entries) : g[i] # Source(k, host)
<1> DEFINE length == Cardinality(DOMAIN entries)
           from == Target(k, host)
           node == CHOOSE g : IsWalk(g, entries, from, length)
<1>1. IsWalk(node, entries, from, length)
  <2>1. \E g : IsWalk(g, entries, from, length)
    BY WalkExists
  <2> QED
    BY <2>1
<1>2. \A i \in 0..length : node[i] # Source(k, host)
  BY Zenon DEF CreatesForwardCycle, IsWalk, Follow
<1> QED
  BY <1>1, <1>2

\* No two entries lead out of one node; each node of S has an entry that stays in S.
OneWay(entries) ==
    \A d, e \in DOMAIN entries : From(entries, d) = From(entries, e) => d = e
Chained(S, entries) ==
    \A n \in S : \E e \in DOMAIN entries : From(entries, e) = n /\ Into(entries, e) \in S

\* The walk follows the one entry that leads out of a node.
LEMMA FollowsEntry ==
    ASSUME NEW entries, OneWay(entries), NEW e \in DOMAIN entries
    PROVE  Follow(entries, From(entries, e)) = Into(entries, e)
<1> DEFINE out == {x \in DOMAIN entries : Source(x, entries[x].host) = From(entries, e)}
<1>1. out = {e}
  BY DEF OneWay, From
<1>2. out # {} /\ (CHOOSE x \in out : TRUE) = e
  BY <1>1
<1> HIDE DEF out
<1>3. Follow(entries, From(entries, e)) =
        IF out = {} THEN End
        ELSE LET x == CHOOSE x \in out : TRUE IN Target(x, entries[x].host)
  BY DEF Follow, out
<1> QED
  BY <1>2, <1>3 DEF Into

\* A chain through an entry that creates no cycle has a chain beside that entry: the
\* walk from the entry's target stays in the chain, never comes to the entry's source, and
\* meets a node again because it is longer than there are entries.
LEMMA ChainBeside ==
    ASSUME NEW entries, IsFiniteSet(DOMAIN entries), OneWay(entries),
           NEW k, NEW host, ~CreatesForwardCycle(entries, k, host),
           NEW S, Target(k, host) \in S,
           \A n \in S : \/ n = Source(k, host)
                        \/ \E e \in DOMAIN entries :
                             From(entries, e) = n /\ Into(entries, e) \in S
    PROVE  \E L \in SUBSET (S \ {Source(k, host)}) : L # {} /\ Chained(L, entries)
<1> DEFINE length == Cardinality(DOMAIN entries)
<1>1. length \in Nat
  BY FS_CardinalityType
<1>2. PICK g : /\ IsWalk(g, entries, Target(k, host), length)
               /\ \A i \in 0..length : g[i] # Source(k, host)
  BY <1>1, NoCycleFound
<1> HIDE DEF length
<1>3. /\ g[0] = Target(k, host)
      /\ \A i \in 0..length : i # 0 => g[i] = Follow(entries, g[i - 1])
  BY <1>1, <1>2 DEF IsWalk
<1>4. \A i \in 0..length : g[i] \in S
  <2> DEFINE Wrong == {i \in 0..length : g[i] \notin S}
  <2>1. SUFFICES ASSUME Wrong # {} PROVE FALSE
    BY <2>1
  <2>2. PICK b \in Wrong : \A m \in Wrong : b <= m
    <3>1. Wrong \in SUBSET Nat
      BY <1>1
    <3> QED
      BY <2>1, <3>1, LeastNatural
  <2>3. b \in 0..length /\ g[b] \notin S /\ b # 0 /\ b - 1 \in 0..length /\ b - 1 \notin Wrong
    BY <1>1, <1>3, <2>2
  <2>4. g[b - 1] \in S /\ g[b - 1] # Source(k, host)
    BY <1>2, <2>3
  <2>5. PICK e \in DOMAIN entries : From(entries, e) = g[b - 1] /\ Into(entries, e) \in S
    BY <2>4
  <2>6. g[b] = Into(entries, e)
    BY <1>3, <2>3, <2>5, FollowsEntry
  <2> QED
    BY <2>3, <2>5, <2>6
<1>5. \A i \in 0..length : \E e \in DOMAIN entries : From(entries, e) = g[i]
  BY <1>2, <1>4
<1> DEFINE f == [i \in 0..length |-> CHOOSE e \in DOMAIN entries : From(entries, e) = g[i]]
<1>6. \A i \in 0..length : f[i] \in DOMAIN entries /\ From(entries, f[i]) = g[i]
  BY <1>5
<1>7. f \in [0..length -> DOMAIN entries]
  BY <1>6
<1>8. IsFiniteSet(0..length) /\ Cardinality(0..length) = length + 1
  BY <1>1, FS_Interval
<1>9. \E i, j \in 0..length : i # j /\ f[i] = f[j]
  <2> HIDE DEF f
  <2>1. Cardinality(DOMAIN entries) < Cardinality(0..length)
    BY <1>1, <1>8 DEF length
  <2> DEFINE I == 0..length
             D == DOMAIN entries
  <2>2. IsFiniteSet(I) /\ IsFiniteSet(D) /\ Cardinality(D) < Cardinality(I) /\ f \in [I -> D]
    BY <1>7, <1>8, <2>1
  <2> HIDE DEF I, D
  <2>3. \E i, j \in I : i # j /\ f[i] = f[j]
    BY <2>2, FS_PigeonHole
  <2> QED
    BY <2>3 DEF I
<1>10. PICK i \in 0..length, j \in 0..length : i < j /\ g[i] = g[j]
  <2>1. PICK x \in 0..length, y \in 0..length : x # y /\ f[x] = f[y]
    BY <1>9
  <2> HIDE DEF f
  <2>2. g[x] = g[y]
    BY <1>6, <2>1
  <2> QED
    BY <1>1, <2>1, <2>2
<1> DEFINE L == {g[m] : m \in i..(j - 1)}
<1>11. L # {}
  <2>1. i \in i..(j - 1)
    BY <1>1, <1>10
  <2> QED
    BY <2>1
<1>12. L \in SUBSET (S \ {Source(k, host)})
  <2>1. \A m \in i..(j - 1) : m \in 0..length
    BY <1>1, <1>10
  <2> QED
    BY <1>2, <1>4, <2>1
<1>13. Chained(L, entries)
  <2>1. SUFFICES ASSUME NEW m \in i..(j - 1)
                 PROVE  \E e \in DOMAIN entries : From(entries, e) = g[m] /\ Into(entries, e) \in L
    BY DEF Chained
  <2>2. m \in 0..length /\ m + 1 \in 0..length /\ m + 1 # 0 /\ (m + 1) - 1 = m
    BY <1>1, <1>10
  <2>3. PICK e \in DOMAIN entries : From(entries, e) = g[m]
    BY <1>5, <2>2
  <2>4. g[m + 1] = Into(entries, e)
    BY <1>3, <2>2, <2>3, FollowsEntry
  <2>5. g[m + 1] \in L
    <3>1. CASE m + 1 = j
      BY <1>1, <1>10, <1>11, <3>1
    <3>2. CASE m + 1 # j
      BY <1>1, <1>10, <3>2
    <3> QED
      BY <3>1, <3>2
  <2> QED
    BY <2>3, <2>4, <2>5
<1> QED
  BY <1>11, <1>12, <1>13

\* No set of nodes has each of its members lead to another member.
Loopless(entries) == \A S : S # {} => ~Chained(S, entries)

\* Fewer entries have no loop either.
LEMMA LooplessShrinks ==
    ASSUME NEW entries, NEW less, OneWay(entries), Loopless(entries),
           DOMAIN less \subseteq DOMAIN entries,
           \A e \in DOMAIN less : less[e].host = entries[e].host
    PROVE  OneWay(less) /\ Loopless(less)
<1>1. \A e \in DOMAIN less : From(less, e) = From(entries, e) /\ Into(less, e) = Into(entries, e)
  BY DEF From, Into
<1>2. OneWay(less)
  BY <1>1 DEF OneWay
<1>3. ASSUME NEW S, Chained(S, less) PROVE Chained(S, entries)
  BY <1>1, <1>3 DEF Chained
<1> QED
  BY <1>2, <1>3 DEF Loopless

\* An entry that is added without a cycle, at a node no other entry leads out of, makes none.
LEMMA LooplessGrows ==
    ASSUME NEW entries, IsFiniteSet(DOMAIN entries), OneWay(entries), Loopless(entries),
           NEW k, NEW host, NEW more, k \notin DOMAIN entries,
           DOMAIN more = DOMAIN entries \cup {k}, more[k].host = host,
           \A e \in DOMAIN entries : more[e].host = entries[e].host,
           \A e \in DOMAIN entries : From(entries, e) # Source(k, host),
           ~CreatesForwardCycle(entries, k, host)
    PROVE  OneWay(more) /\ Loopless(more)
<1>1. \A e \in DOMAIN entries : From(more, e) = From(entries, e) /\ Into(more, e) = Into(entries, e)
  BY DEF From, Into
<1>2. From(more, k) = Source(k, host) /\ Into(more, k) = Target(k, host)
  BY DEF From, Into
<1>3. OneWay(more)
  BY <1>1, <1>2 DEF OneWay
<1>4. ASSUME NEW S, S # {}, Chained(S, more) PROVE FALSE
  <2>1. \A n \in S : \/ n = Source(k, host) /\ Target(k, host) \in S
                     \/ \E e \in DOMAIN entries : From(entries, e) = n /\ Into(entries, e) \in S
    BY <1>1, <1>2, <1>4 DEF Chained
  <2>2. CASE Target(k, host) \notin S
    BY <1>4, <2>1, <2>2 DEF Chained, Loopless
  <2>3. CASE Target(k, host) \in S
    <3>1. \A n \in S : \/ n = Source(k, host)
                       \/ \E e \in DOMAIN entries : From(entries, e) = n /\ Into(entries, e) \in S
      BY <2>1
    <3>2. \E L \in SUBSET (S \ {Source(k, host)}) : L # {} /\ Chained(L, entries)
      BY <2>3, <3>1, ChainBeside
    <3> QED
      BY <3>2 DEF Loopless
  <2> QED
    BY <2>2, <2>3
<1> QED
  BY <1>3, <1>4 DEF Loopless

\* Entries of which none makes a cycle with the others have no loop: a smallest chain would
\* have a smaller one beside any of its entries.
LEMMA LooplessTogether ==
    ASSUME NEW entries, IsFiniteSet(DOMAIN entries), OneWay(entries),
           \A k \in DOMAIN entries :
             ~CreatesForwardCycle([e \in DOMAIN entries \ {k} |-> entries[e]], k, entries[k].host)
    PROVE  Loopless(entries)
<1> DEFINE nodes == {From(entries, e) : e \in DOMAIN entries}
           Chains == {S \in SUBSET nodes : S # {} /\ Chained(S, entries)}
           Sizes == {Cardinality(S) : S \in Chains}
<1>1. IsFiniteSet(nodes)
  <2> DEFINE f == [e \in DOMAIN entries |-> From(entries, e)]
  <2>1. f \in Surjection(DOMAIN entries, nodes)
    BY DEF Surjection
  <2> QED
    BY <2>1, FS_Surjection
<1>2. \A S \in Chains : IsFiniteSet(S) /\ Cardinality(S) \in Nat
  BY <1>1, FS_Subset, FS_CardinalityType
<1>3. ASSUME NEW S, Chained(S, entries) PROVE S \subseteq nodes
  BY <1>3 DEF Chained
<1>4. SUFFICES ASSUME Chains # {} PROVE FALSE
  BY <1>3, <1>4 DEF Loopless
<1>5. PICK S \in Chains : \A L \in Chains : Cardinality(S) <= Cardinality(L)
  <2>1. Sizes \in SUBSET Nat /\ Sizes # {}
    BY <1>2, <1>4
  <2>2. PICK n \in Sizes : \A m \in Sizes : n <= m
    BY <2>1, LeastNatural
  <2> QED
    BY <2>2
<1>6. S # {} /\ Chained(S, entries) /\ S \subseteq nodes
  BY <1>5
<1>7. PICK k \in DOMAIN entries : From(entries, k) \in S /\ Into(entries, k) \in S
  BY <1>6 DEF Chained
<1> DEFINE others == [e \in DOMAIN entries \ {k} |-> entries[e]]
<1>8. DOMAIN others = DOMAIN entries \ {k} /\ \A e \in DOMAIN others : others[e] = entries[e]
  OBVIOUS
<1>9. ~CreatesForwardCycle(others, k, entries[k].host)
  BY <1>7
<1> HIDE DEF others
<1>10. \A e \in DOMAIN others : From(others, e) = From(entries, e) /\ Into(others, e) = Into(entries, e)
  BY <1>8 DEF From, Into
<1>11. IsFiniteSet(DOMAIN others) /\ OneWay(others)
  BY <1>8, <1>10, FS_Subset DEF OneWay
<1>12. From(entries, k) = Source(k, entries[k].host) /\ Into(entries, k) = Target(k, entries[k].host)
  BY DEF From, Into
<1>13. \A n \in S : \/ n = Source(k, entries[k].host)
                    \/ \E e \in DOMAIN others : From(others, e) = n /\ Into(others, e) \in S
  BY <1>6, <1>8, <1>10, <1>12 DEF Chained
<1>14. \E L \in SUBSET (S \ {Source(k, entries[k].host)}) : L # {} /\ Chained(L, others)
  BY <1>7, <1>9, <1>11, <1>12, <1>13, ChainBeside
<1>15. PICK L \in SUBSET (S \ {From(entries, k)}) : L # {} /\ Chained(L, others)
  BY <1>12, <1>14
<1>16. Chained(L, entries)
  BY <1>8, <1>10, <1>15 DEF Chained
<1>17. L \in Chains /\ L \subseteq S /\ L # S
  BY <1>6, <1>7, <1>15, <1>16
<1>18. Cardinality(L) <= Cardinality(S) /\ Cardinality(L) # Cardinality(S)
  BY <1>2, <1>5, <1>17, FS_Subset
<1> QED
  BY <1>2, <1>5, <1>17, <1>18

\* Two forwards lead out of one node only if both are local and use one host port.
LEMMA SourcesDiffer ==
    ASSUME NEW d \in Keys, NEW e \in Keys, NEW g, NEW h, Source(d, g) = Source(e, h), d # e
    PROVE  d[1] = "local" /\ e[1] = "local" /\ g = h
  BY DEF Source, Keys, Directions

\* The mappings that stand: no two lead out of one node, and they have no loop.
LoopsFit == OneWay(Entries) /\ Loopless(Entries)

\* What a step does to the host ports of the mappings: there are no new ones, or one that
\* conflicts with none of the others.
Fewer ==
    \A k \in Keys : managed'[k] # None => managed[k] # None /\ managed'[k].host = managed[k].host
Grows(k, host) ==
    /\ managed[k] = None /\ ~Conflicts(Entries, k, host)
    /\ managed'[k] # None /\ managed'[k].host = host
    /\ \A e \in Keys \ {k} : managed'[e] = managed[e]

\* There are finitely many keys.
LEMMA KeysFinite == IsFiniteSet(Keys)
<1>1. IsFiniteSet({"local", "remote"})
  <2>1. IsFiniteSet({"local"})
    BY FS_Singleton
  <2>2. {"local", "remote"} = {"local"} \cup {"remote"}
    OBVIOUS
  <2> QED
    BY <2>1, <2>2, FS_AddElement
<1>2. Keys = {"local", "remote"} \X Ports
  BY DEF Keys, Directions
<1> QED
  BY <1>1, <1>2, FS_Product, PortForwardsAssumption

\* The mappings that stand, as entries.
LEMMA EntriesFacts ==
    /\ DOMAIN Entries = {e \in Keys : managed[e] # None}
    /\ \A e \in DOMAIN Entries : Entries[e] = managed[e]
    /\ IsFiniteSet(DOMAIN Entries)
<1>1. /\ DOMAIN Entries = {e \in Keys : managed[e] # None}
      /\ \A e \in DOMAIN Entries : Entries[e] = managed[e]
  BY DEF Entries
<1> QED
  BY <1>1, KeysFinite, FS_Subset

\* The two meet in a loop of ports.
LEMMA LoopsFitSays ==
    ASSUME LoopsFit
    PROVE  NoForwardLoop
<1>0. \E E : E = Entries
  OBVIOUS
<1>1. PICK E : E = Entries
  BY <1>0
<1>2. \A k \in DOMAIN E : E[k] = managed[k]
  BY <1>1, EntriesFacts
<1> DEFINE edge == {<<Source(k, managed[k].host), Target(k, managed[k].host)>> : k \in DOMAIN E}
<1>3. ASSUME NEW n, NEW m, <<n, m>> \in edge
      PROVE  \E e \in DOMAIN E : From(E, e) = n /\ Into(E, e) = m
  BY <1>2, <1>3 DEF From, Into
<1>4. ASSUME NEW S, S # {}, \A n \in S : \E m \in S : <<n, m>> \in edge PROVE FALSE
  <2>1. Chained(S, E)
    <3> HIDE DEF edge
    <3>1. ASSUME NEW n \in S
          PROVE  \E e \in DOMAIN E : From(E, e) = n /\ Into(E, e) \in S
      <4>1. PICK m \in S : <<n, m>> \in edge
        BY <1>4
      <4> QED
        BY <1>3, <4>1
    <3> QED
      BY <3>1 DEF Chained
  <2>2. Loopless(E)
    BY <1>1 DEF LoopsFit
  <2> QED
    BY <1>4, <2>1, <2>2 DEF Loopless
<1> HIDE DEF edge
<1>5. \A S \in (SUBSET {e[1] : e \in edge}) \ {{}} : \E n \in S : \A m \in S : <<n, m>> \notin edge
  BY <1>4
<1> QED
  BY <1>1, <1>5 DEF NoForwardLoop, edge

\* Fewer mappings keep it.
LEMMA LoopsFewer ==
    ASSUME LoopsFit, Fewer
    PROVE  LoopsFit'
<1>0. (\E E : E = Entries) /\ (\E F : F = Entries')
  OBVIOUS
<1>1. PICK E, F : E = Entries /\ F = Entries'
  BY <1>0
<1>2. /\ DOMAIN E = {e \in Keys : managed[e] # None} /\ \A e \in DOMAIN E : E[e] = managed[e]
      /\ DOMAIN F = {e \in Keys : managed'[e] # None} /\ \A e \in DOMAIN F : F[e] = managed'[e]
  BY <1>1 DEF Entries
<1>3. DOMAIN F \subseteq DOMAIN E /\ \A e \in DOMAIN F : F[e].host = E[e].host
  BY <1>2 DEF Fewer
<1>4. OneWay(E) /\ Loopless(E)
  BY <1>1 DEF LoopsFit
<1>5. OneWay(F) /\ Loopless(F)
  BY <1>3, <1>4, LooplessShrinks
<1> QED
  BY <1>1, <1>5 DEF LoopsFit

\* So does a new one.
LEMMA LoopsGrow ==
    ASSUME LoopsFit, NEW k \in Keys, NEW host, Grows(k, host)
    PROVE  LoopsFit'
<1>0. (\E E : E = Entries) /\ (\E F : F = Entries')
  OBVIOUS
<1>1. PICK E, F : E = Entries /\ F = Entries'
  BY <1>0
<1>2. /\ DOMAIN E = {e \in Keys : managed[e] # None} /\ \A e \in DOMAIN E : E[e] = managed[e]
      /\ DOMAIN F = {e \in Keys : managed'[e] # None} /\ \A e \in DOMAIN F : F[e] = managed'[e]
  BY <1>1 DEF Entries
<1>3. IsFiniteSet(DOMAIN E)
  BY <1>1, EntriesFacts
<1>4. OneWay(E) /\ Loopless(E)
  BY <1>1 DEF LoopsFit
<1>5. ~Conflicts(E, k, host)
  BY <1>1 DEF Grows
<1>6. \A e \in DOMAIN E : From(E, e) # Source(k, host)
  <2>1. ASSUME NEW e \in DOMAIN E, From(E, e) = Source(k, host) PROVE FALSE
    <3>1. e \in Keys /\ e # k
      BY <1>2 DEF Grows
    <3>2. PICK h : h = E[e].host
      OBVIOUS
    <3>3. e[1] = "local" /\ k[1] = "local" /\ h = host
      BY <2>1, <3>1, <3>2, SourcesDiffer DEF From
    <3> QED
      BY <1>5, <3>2, <3>3 DEF Conflicts
  <2> QED
    BY <2>1
<1>7. /\ DOMAIN F = DOMAIN E \cup {k} /\ k \notin DOMAIN E /\ F[k].host = host
      /\ \A e \in DOMAIN E : F[e].host = E[e].host
  BY <1>2 DEF Grows
<1>8. ~CreatesForwardCycle(E, k, host)
  BY <1>5 DEF Conflicts
<1>9. OneWay(F) /\ Loopless(F)
  BY <1>3, <1>4, <1>6, <1>7, <1>8, LooplessGrows
<1> QED
  BY <1>1, <1>9 DEF LoopsFit

\* And the initial ones, which are checked against each other.
LEMMA LoopsPrepare ==
    ASSUME Core, Fresh, StartPrepare
    PROVE  LoopsFit'
<1>1. PICK f \in InitialForwards : queue = <<[type |-> "prepare", entries |-> f]>>
  BY DEF Fresh
<1>2. Head(queue).entries = f
  BY <1>1
<1>3. PICK K \in SUBSET Keys : f \in [K -> Initial]
  BY PortForwardsAssumption
<1>a. DOMAIN f = K /\ DOMAIN f \subseteq Keys
  BY <1>3
<1>4. CASE FailInitial
  <2>1. \A k \in Keys : managed'[k] = None
    BY <1>4 DEF FailInitial, Delete
  <2>2. DOMAIN Entries' = {}
    BY <2>1 DEF Entries
  <2> QED
    BY <2>2 DEF LoopsFit, OneWay, Loopless, Chained
<1>5. ASSUME \A k \in DOMAIN f : ~Conflicts([e \in DOMAIN f \ {k} |-> f[e]], k, f[k].host),
             managed' = [k \in Keys |-> IF k \notin DOMAIN f THEN None ELSE
                     [host |-> f[k].host, owners |-> f[k].owners,
                      state |-> IF k[1] = "local" THEN "active" ELSE "pending"]]
      PROVE  LoopsFit'
  <2>1. OneWay(f)
    <3>1. SUFFICES ASSUME NEW d \in DOMAIN f, NEW e \in DOMAIN f, d # e,
                          From(f, d) = From(f, e)
                   PROVE  FALSE
      BY DEF OneWay
    <3>2. (\E g : g = f[d].host) /\ (\E h : h = f[e].host)
      OBVIOUS
    <3>3. PICK g, h : g = f[d].host /\ h = f[e].host
      BY <3>2
    <3>4. d[1] = "local" /\ e[1] = "local" /\ g = h
      BY <1>a, <3>1, <3>3, SourcesDiffer DEF From
    <3>5. ~\E x \in DOMAIN f \ {d} : x[1] = "local" /\ f[x].host = g
      BY <1>5, <3>3, <3>4 DEF Conflicts
    <3> QED
      BY <3>1, <3>3, <3>4, <3>5
  <2>2. \A k \in DOMAIN f :
          ~CreatesForwardCycle([e \in DOMAIN f \ {k} |-> f[e]], k, f[k].host)
    BY <1>5 DEF Conflicts
  <2>3. IsFiniteSet(DOMAIN f)
    BY <1>a, KeysFinite, FS_Subset
  <2>4. Loopless(f)
    BY <2>1, <2>2, <2>3, LooplessTogether
  <2>5. \E F : F = Entries'
    OBVIOUS
  <2>6. PICK F : F = Entries'
    BY <2>5
  <2>7. DOMAIN F = {e \in Keys : managed'[e] # None} /\ \A e \in DOMAIN F : F[e] = managed'[e]
    BY <2>6 DEF Entries
  <2>8. \A k \in Keys : /\ k \notin DOMAIN f => managed'[k] = None
                        /\ k \in DOMAIN f => managed'[k].host = f[k].host
    BY <1>5
  <2>9. DOMAIN F \subseteq DOMAIN f /\ \A e \in DOMAIN F : F[e].host = f[e].host
    BY <2>7, <2>8
  <2>10. OneWay(F) /\ Loopless(F)
    BY <2>1, <2>4, <2>9, LooplessShrinks
  <2> QED
    BY <2>6, <2>10 DEF LoopsFit
<1> QED
  BY <1>2, <1>4, <1>5 DEF StartPrepare

\* Mappings that are taken back, or whose owners or state change.
LEMMA FewerDelete ==
    ASSUME NEW K, Delete(K)
    PROVE  Fewer
BY DEF Fewer, Delete

LEMMA FewerSame ==
    ASSUME managed' = managed
    PROVE  Fewer
BY DEF Fewer

LEMMA FewerChanged ==
    ASSUME BrokerTypes, NEW k \in Keys, managed[k] # None, NEW x,
           \/ managed' = [managed EXCEPT ![k].owners = x]
           \/ managed' = [managed EXCEPT ![k].state = x]
    PROVE  Fewer
<1>1. managed \in [Keys -> Entry \cup {None}] /\ managed[k] \in Entry
  BY DEF BrokerTypes
<1>2. \A e \in Keys \ {k} : managed'[e] = managed[e]
  BY <1>1
<1>3. managed'[k].host = managed[k].host
  BY <1>1 DEF Entry
<1> QED
  BY <1>2, <1>3 DEF Fewer

\* failInitial and the loss of the relay take mappings back.
LEMMA FewerLost ==
    ASSUME FailInitial \/ LoseRelay
    PROVE  Fewer
<1>1. CASE FailInitial
  BY <1>1, FewerDelete DEF FailInitial, Delete, Fewer
<1>2. CASE LoseRelay
  <2>1. \E A : managed' = [k \in Keys |-> IF k \in A THEN None ELSE managed[k]]
    BY <1>2 DEF LoseRelay
  <2> QED
    BY <2>1 DEF Fewer
<1> QED
  BY <1>1, <1>2

\* add enters a mapping that conflicts with none.
LEMMA LoopsInsert ==
    ASSUME BrokerTypes, NEW k \in Keys, NEW host \in HostPorts, NEW state \in ForwardState,
           managed[k] = None, ~Conflicts(Entries, k, host), Insert(k, host, state)
    PROVE  Grows(k, host)
<1> DEFINE entry == [host |-> host, owners |-> {"dynamic"}, state |-> state]
<1>1. entry \in Entry /\ entry.host = host
  BY DEF Entry, Owners
<1>2. entry # None
  BY <1>1, PortForwardsAssumption
<1>3. managed' = [managed EXCEPT ![k] = entry]
  BY DEF Insert
<1>4. managed'[k] = entry /\ \A e \in Keys \ {k} : managed'[e] = managed[e]
  BY <1>3 DEF BrokerTypes
<1> QED
  BY <1>1, <1>2, <1>4 DEF Grows

LEMMA LoopsStartAdd ==
    ASSUME Base, LoopsFit, StartAdd
    PROVE  LoopsFit'
<1>0. (\E k : k = Head(queue).key) /\ (\E host : host = Head(queue).host)
      /\ (\E s : s = "pending")
  OBVIOUS
<1>1. PICK k, host, s : k = Head(queue).key /\ host = Head(queue).host /\ s = "pending"
  BY <1>0
<1>2. Start("add")
  BY DEF StartAdd
<1>3. Head(queue) \in Event /\ Head(queue).type = "add"
  BY <1>2, StartFacts
<1>4. k \in Keys /\ host \in HostPorts \cup {AnyPort} /\ s \in ForwardState
  BY <1>1, <1>3, EventFacts DEF ForwardState
<1>5. CASE UNCHANGED forwards
  BY <1>5, FewerSame, LoopsFewer DEF forwards
<1>6. CASE managed[k] # None /\ managed' = [managed EXCEPT ![k].owners = @ \cup {"dynamic"}]
  <2>0. \E o : o = managed[k].owners \cup {"dynamic"}
    OBVIOUS
  <2>1. PICK o : o = managed[k].owners \cup {"dynamic"}
    BY <2>0
  <2>2. managed' = [managed EXCEPT ![k].owners = o]
    BY <1>4, <1>6, <2>1 DEF Base, Core, BrokerTypes
  <2>3. Fewer
    BY <1>4, <1>6, <2>2, FewerChanged DEF Base, Core
  <2> QED
    BY <2>3, LoopsFewer
<1>7. CASE managed[k] = None /\ host # AnyPort /\ ~Conflicts(Entries, k, host) /\ Insert(k, host, s)
  <2>1. host \in HostPorts
    BY <1>4, <1>7
  <2>2. Grows(k, host)
    BY <1>4, <1>7, <2>1, LoopsInsert DEF Base, Core
  <2> QED
    BY <1>4, <2>2, LoopsGrow
<1> QED
  BY <1>1, <1>5, <1>6, <1>7 DEF StartAdd, Insert

\* So does the search for a free port; a port that is taken ends the mapping.
LEMMA LoopsLocal ==
    ASSUME Base, RegistryFits, LoopsFit, Pick \/ Listen
    PROVE  LoopsFit'
<1>0. (\E k : k = cur.key) /\ (\E s : s = "active") /\ (\E K : K = {cur.key})
  OBVIOUS
<1>1. PICK k, s, K : k = cur.key /\ s = "active" /\ K = {cur.key}
  BY <1>0
<1>2. cur # None /\ k \in Keys /\ s \in ForwardState
      /\ (cur.step = "listen" => managed[k] # None) /\ (cur.step = "pick" => managed[k] = None)
  BY <1>1 DEF Pick, Listen, Base, Core, CurFits, RegistryFits, ForwardState
<1>3. CASE Pick
  <2>1. CASE UNCHANGED forwards
    BY <2>1, FewerSame, LoopsFewer DEF forwards
  <2>2. ASSUME NEW host \in HostPorts, ~Conflicts(Entries, k, host), Insert(k, host, s)
        PROVE  LoopsFit'
    <3>1. Grows(k, host)
      BY <1>2, <1>3, <2>2, LoopsInsert DEF Base, Core, Pick
    <3> QED
      BY <1>2, <3>1, LoopsGrow
  <2> QED
    BY <1>1, <1>3, <2>1, <2>2 DEF Pick, Insert
<1>4. CASE Listen
  <2>1. managed' = [managed EXCEPT ![k].state = s] \/ Delete(K)
    BY <1>1, <1>4 DEF Listen, Delete
  <2>2. managed[k] # None
    BY <1>2, <1>4 DEF Listen
  <2>3. Fewer
    BY <1>2, <2>1, <2>2, FewerChanged, FewerDelete DEF Base, Core
  <2> QED
    BY <2>3, LoopsFewer
<1> QED
  BY <1>3, <1>4

\* An add that fails is taken back.
LEMMA FewerFails ==
    ASSUME NEW c, NEW s, NEW others, NEW unread, AddFails(c, s, others, unread)
    PROVE  Fewer
BY DEF AddFails, Delete, Fewer

\* No other mutation of the broker adds a mapping or changes its host port.
LEMMA FewerBroker ==
    ASSUME Base,
           \/ EnsureReady \/ EnsureFails \/ PersistAdd \/ PersistOwner \/ PersistRevocation
           \/ StartRemove \/ PersistPrepared \/ StartConnected \/ StartState \/ PersistInitial
           \/ PersistFailure \/ CloseBroker \/ CloseGateway
    PROVE  Fewer
<1>1. CASE UNCHANGED forwards
  BY <1>1, FewerSame DEF forwards
<1>2. CASE FailInitial \/ LoseRelay
  BY <1>2, FewerLost
<1>3. CASE EnsureReady \/ PersistRevocation \/ PersistPrepared \/ StartConnected
           \/ PersistInitial \/ PersistFailure \/ CloseGateway
  BY <1>1, <1>2, <1>3 DEF EnsureReady, PersistRevocation, PersistPrepared, StartConnected,
    PersistInitial, PersistFailure, CloseGateway
<1>4. CASE EnsureFails
  BY <1>4 DEF EnsureFails, AddFails, Delete, Fewer
<1>5. CASE CloseBroker
  BY <1>5 DEF CloseBroker, Delete, Fewer
<1>6. CASE PersistAdd
  BY <1>1, <1>6 DEF PersistAdd, Delete, Fewer
<1>7. CASE PersistOwner
  <2>0. cur.key \in Keys /\ managed[cur.key] # None
    BY <1>7 DEF PersistOwner, Persisting, Base, Core, CurFits
  <2>1. (\E k : k = cur.key) /\ (\E o : o = managed[cur.key].owners \ {"dynamic"})
    OBVIOUS
  <2>2. PICK k, o : k = cur.key /\ o = managed[cur.key].owners \ {"dynamic"}
    BY <2>1
  <2>3. CASE managed' = [managed EXCEPT ![cur.key].owners = @ \ {"dynamic"}]
    <3>1. managed' = [managed EXCEPT ![k].owners = o]
      BY <2>0, <2>2, <2>3 DEF Base, Core, BrokerTypes
    <3> QED
      BY <2>0, <2>2, <3>1, FewerChanged DEF Base, Core
  <2> QED
    BY <1>7, <2>3, FewerSame DEF PersistOwner
<1>8. CASE StartRemove
  <2>1. PICK t : t \in {"remove", "unbind"} /\ Start(t)
    BY <1>8 DEF StartRemove
  <2>2. Head(queue) \in Event
    BY <2>1, StartFacts
  <2> DEFINE op == Head(queue)
             K == IF op.type = "remove" THEN {op.key} \ {k \in Keys : managed[k] = None}
                  ELSE {k \in Managed("local") : managed[k].host = op.host}
  <2>3. \A k \in K : k \in Keys /\ managed[k] # None
    <3>1. op.type = "remove" => op.key \in Keys
      BY <2>2, EventFacts
    <3> QED
      BY <3>1 DEF Managed
  <2> HIDE DEF K
  <2>4. ASSUME NEW k \in K, managed' = [managed EXCEPT ![k].owners = {"internal"}]
        PROVE  Fewer
    <3>1. PICK o : o = {"internal"}
      OBVIOUS
    <3>2. managed' = [managed EXCEPT ![k].owners = o]
      BY <2>4, <3>1
    <3> QED
      BY <2>3, <3>2, FewerChanged DEF Base, Core
  <2>5. ASSUME NEW k \in K, Delete({k}) PROVE Fewer
    BY <2>5 DEF Delete, Fewer
  <2> QED
    BY <1>1, <1>8, <2>4, <2>5 DEF StartRemove, K
<1>9. CASE StartState
  <2>1. Start("state")
    BY <1>9 DEF StartState
  <2>2. Head(queue) \in Event /\ Head(queue).type = "state"
    BY <2>1, StartFacts
  <2>3. (\E k : k = Remote(Head(queue).port)) /\ (\E s : s = Head(queue).state)
    OBVIOUS
  <2>4. PICK k, s : k = Remote(Head(queue).port) /\ s = Head(queue).state
    BY <2>3
  <2>5. k \in Keys
    BY <2>2, <2>4, EventFacts, MutationFacts
  <2>6. CASE managed[k] # None /\ managed' = [managed EXCEPT ![k].state = s]
    BY <2>5, <2>6, FewerChanged DEF Base, Core
  <2> QED
    BY <1>1, <1>2, <1>9, <2>4, <2>6 DEF StartState
<1> QED
  BY <1>3, <1>4, <1>5, <1>6, <1>7, <1>8, <1>9

\* Nor does an answer of the relay, or a timeout.
LEMMA FewerAnswered ==
    ASSUME Base, GatewayStep
    PROVE  Fewer
<1>0. PICK w \in waiting : Answer(w) \/ AnswerRefused(w) \/ TimeOut(w)
  BY DEF GatewayStep
<1>1. CASE managed' = managed
  BY <1>1, FewerSame
<1>2. CASE Delete({Remote(w.port)})
  BY <1>2 DEF Delete, Fewer
<1>3. CASE w.by = "add" /\ EndAdd(w)
  <2>1. (\E k : k = Remote(w.port)) /\ (\E s : s = "active")
    OBVIOUS
  <2>2. PICK k, s : k = Remote(w.port) /\ s = "active"
    BY <2>1
  <2>3. k \in Keys /\ managed[k] # None /\ managed' = [managed EXCEPT ![k].state = s]
    BY <1>3, <2>2, WaiterFacts, MutationFacts DEF EndAdd, Base
  <2> QED
    BY <2>3, FewerChanged DEF Base, Core
<1>4. CASE Answer(w)
  BY <1>1, <1>3, <1>4 DEF Answer, EndUnforward, EndAdopted, forwards
<1>5. CASE AnswerRefused(w)
  BY <1>2, <1>5 DEF AnswerRefused, AddFails
<1>6. CASE TimeOut(w)
  BY <1>1, <1>2, <1>6 DEF TimeOut, EndAdopted, AddFails, forwards
<1> QED
  BY <1>0, <1>4, <1>5, <1>6

\* Every step keeps the mappings free of loops.
LEMMA LoopsNext ==
    ASSUME Inv, RegistryFits, LoopsFit, [Next]_vars
    PROVE  LoopsFit'
<1>1. CASE UNCHANGED vars
  BY <1>1, FewerSame, LoopsFewer DEF vars, forwards
<1>2. CASE Next /\ Fresh
  <2>1. StartPrepare \/ Close
    BY <1>2, FreshStep DEF Inv
  <2>2. CASE StartPrepare
    BY <1>2, <2>2, LoopsPrepare DEF Inv
  <2>3. CASE Close
    BY <2>3, FewerSame, LoopsFewer DEF Close, forwards
  <2> QED
    BY <2>1, <2>2, <2>3
<1>3. CASE Next /\ Base
  <2>1. CASE StartPrepare
    <3>1. Start("prepare")
      BY <2>1 DEF StartPrepare
    <3>2. Head(queue) \in Event /\ Head(queue).type = "prepare"
      BY <1>3, <3>1, StartFacts
    <3> QED
      BY <3>2, EventFacts
  <2>2. CASE BrokerStep
    BY <1>3, <2>1, <2>2, LoopsStartAdd, LoopsLocal, FewerBroker, LoopsFewer DEF BrokerStep
  <2>3. CASE GatewayStep
    BY <1>3, <2>3, FewerAnswered, LoopsFewer
  <2>4. CASE Drop \/ RelayExits
    BY <2>4, FewerLost, LoopsFewer DEF Drop, RelayExits
  <2>5. CASE Aside
    <3>1. managed' = managed
      BY <2>5 DEF Aside, LateAnswer, RelayForward, RelayUnforward, RelayCancelled, RelayListens,
        RelayOnly, Connect, AddPortForward, RemovePortForward, Call, Close, StreamEnds, Accept,
        forwards
    <3> QED
      BY <3>1, FewerSame, LoopsFewer
  <2> QED
    BY <1>3, <2>2, <2>3, <2>4, <2>5 DEF Next, RelayStep, Aside
<1> QED
  BY <1>1, <1>2, <1>3 DEF Inv, Base, PrepareFits

\* The mappings never lead from a port back to itself, however many there are and however
\* they came: createsForwardCycle, which walks as many steps as there are mappings, finds
\* every loop that a new mapping would close, and among initial forwards that are each
\* checked against the others there is none.
THEOREM LoopsRefused == Spec => []NoForwardLoop
<1>1. Init => RegistryFits /\ LoopsFit
  <2> SUFFICES ASSUME Init PROVE RegistryFits /\ LoopsFit
    OBVIOUS
  <2>1. RegistryFits
    BY DEF Init, RegistryFits, Lists, Same
  <2>2. DOMAIN Entries = {}
    BY DEF Init, Entries
  <2>3. LoopsFit
    BY <2>2 DEF LoopsFit, OneWay, Loopless, Chained
  <2> QED
    BY <2>1, <2>3
<1>2. Inv /\ RegistryFits /\ LoopsFit /\ [Next]_vars => RegistryFits' /\ LoopsFit'
  BY RegistryNext, LoopsNext
<1>3. LoopsFit => NoForwardLoop
  BY LoopsFitSays
<1> QED
  BY <1>1, <1>2, <1>3, InvariantHolds, PTL DEF Spec

=============================================================================
