------------------------------ MODULE AuthzRules ------------------------------
(***************************************************************************)
(* The rules of one scope of the network policy: how a configuration is    *)
(* admitted (src/src/network/authz/validate.ts, relation.ts), in which     *)
(* order the rules that a request meets are tried (specificity.ts) and     *)
(* which of them decides (resolve.ts, decide, semantics.ts).               *)
(*                                                                         *)
(* A rule is a position in declaration order; what it accepts is           *)
(*   [methods, paths, format, pointers]                                    *)
(* paths: a set of patterns, a pattern being the set of paths it accepts;  *)
(* format: "any" (no condition on the body), "opaque", "json" or "none";   *)
(* pointers: which values are accepted where in a JSON body.               *)
(* A request is [method, path, body], body being [kind, value].            *)
(* Left out: GraphQL conditions (a further three-valued condition on the   *)
(* content), what an expectation says once a rule is chosen, and actions   *)
(* themselves: the model says which rule decides, and whether by a match.  *)
(***************************************************************************)
EXTENDS Integers, FiniteSets, SequencesExt

CONSTANTS
    N,        \* how many rules the scope declares
    Matches,  \* what a rule may accept
    Requests, \* what may be asked
    MaxOverrides \* bound: how many `overrides` a configuration has in all

ASSUME RulesAssumption ==
    /\ N \in Nat \ {0} /\ MaxOverrides \in Nat
    /\ \A m \in Matches :
         /\ m.format \in {"any", "opaque", "json", "none"}
         /\ DOMAIN m.pointers # {} => m.format = "json"  \* checkBodyMatch insists
    /\ \A q \in Requests : q.body.kind \in {"absent", "empty", "binary", "json"}

Rules == 1..N

VARIABLES
    match,     \* what each rule accepts
    overrides, \* pairs <<i, j>>: rule i names j in its `overrides`
    phase,     \* loading, then the life of one request
    items,     \* the rules precedenceOrder is sorting
    ordered,   \* what it has put in order so far
    emitted,   \* ... as a set
    walk, at,  \* findCycle: the path so far and the rule to go on from
    ring,      \* the cycle it reported
    request,
    decision   \* the deciding rule, 0 for the scope's fallback, and why

document == <<match, overrides>>
sorting == <<items, ordered, emitted>>
searching == <<walk, at, ring>>
vars == <<document, phase, sorting, searching, request, decision>>

-----------------------------------------------------------------------------
(* Accepted sets, and how two of them compare: each axis on its own. *)

\* Every pattern of a must fit into a single pattern of b: sound, not complete.
PathsSubsume(a, b) == \A p \in a : \E q \in b : p \subseteq q

PathsIntersect(a, b) == \E p \in a, q \in b : p \cap q # {}

FormatSubsumes(a, b) == b = "any" \/ a = b \/ (b = "opaque" /\ a # "any")

FormatIntersects(a, b) == a = b \/ {a, b} \cap {"any", "opaque"} # {}

\* Seeded fault: a condition that only the narrower side has is held against it.
PointersSubsumeSwapped(a, b) == \A p \in DOMAIN a : p \in DOMAIN b /\ a[p] \subseteq b[p]

PointersSubsume(a, b) == \A p \in DOMAIN b : p \in DOMAIN a /\ a[p] \subseteq b[p]

PointersIntersect(a, b) == \A p \in DOMAIN a \cap DOMAIN b : a[p] \cap b[p] # {}

MatchSubsumes(a, b) ==
    /\ a.methods \subseteq b.methods /\ PathsSubsume(a.paths, b.paths)
    /\ FormatSubsumes(a.format, b.format) /\ PointersSubsume(a.pointers, b.pointers)

MatchesIntersect(a, b) ==
    /\ a.methods \cap b.methods # {} /\ PathsIntersect(a.paths, b.paths)
    /\ FormatIntersects(a.format, b.format) /\ PointersIntersect(a.pointers, b.pointers)

CompareSpecificity(a, b) ==
    CASE MatchSubsumes(a, b) /\ MatchSubsumes(b, a) -> "equivalent"
      [] MatchSubsumes(a, b) /\ ~MatchSubsumes(b, a) -> "narrower"
      [] ~MatchSubsumes(a, b) /\ MatchSubsumes(b, a) -> "wider"
      [] OTHER -> "incomparable"

\* Is rule i tried before rule j?  Naming the other wins over being narrower.
RulePrecedes(i, j) ==
    \/ <<i, j>> \in overrides
    \/ <<j, i>> \notin overrides /\ CompareSpecificity(match[i], match[j]) = "narrower"

Predecessors(i) == {j \in items \ {i} : RulePrecedes(j, i)}

-----------------------------------------------------------------------------
(* One rule and one request: true, false or indeterminate. *)

\* The value at a pointer: missing is false, an object or array is indeterminate.
EvaluatePointer(value, p, values) ==
    IF p \notin DOMAIN value THEN "false"
    ELSE IF value[p] = "node" THEN "indeterminate"
    ELSE IF value[p] \in values THEN "true" ELSE "false"

\* Indeterminate wins over false, so that such a rule stops the search.
EvaluateContent(m, value) ==
    LET found == {EvaluatePointer(value, p, m.pointers[p]) : p \in DOMAIN m.pointers} IN
    IF "indeterminate" \in found THEN "indeterminate"
    ELSE IF "false" \in found THEN "false" ELSE "true"

\* Seeded fault: a body that cannot be read counts as one that does not match.
EvaluateBodyLeniently(m, body) ==
    CASE m.format = "any" -> "true"
      [] m.format # "any" /\ body.kind = "absent" -> "false"
      [] m.format = "none" /\ body.kind # "absent" ->
           IF body.kind = "empty" THEN "true" ELSE "false"
      [] m.format = "opaque" /\ body.kind # "absent" -> "true"
      [] m.format = "json" /\ body.kind # "absent" ->
           IF body.kind = "json" THEN EvaluateContent(m, body.value) ELSE "false"

EvaluateBody(m, body) ==
    CASE m.format = "any" -> "true"
      [] m.format # "any" /\ body.kind = "absent" -> "false"
      [] m.format = "none" /\ body.kind # "absent" ->
           IF body.kind = "empty" THEN "true" ELSE "false"
      [] m.format = "opaque" /\ body.kind # "absent" -> "true"
      [] m.format = "json" /\ body.kind # "absent" ->
           IF body.kind = "json" THEN EvaluateContent(m, body.value) ELSE "indeterminate"

IsCandidate(m, q) == q.method \in m.methods /\ \E p \in m.paths : q.path \in p

EvaluateMatch(m, q) == IF IsCandidate(m, q) THEN EvaluateBody(m, q.body) ELSE "false"

Candidates(q) == {i \in Rules : IsCandidate(match[i], q)}

-----------------------------------------------------------------------------
NoRequest == [method |-> "none", path |-> "none", body |-> [kind |-> "none"]]
NoDecision == [rule |-> 0, reason |-> "none"]

\* A configuration has been read and its rules compiled; whatever it is, its
\* precedence is sorted once as a check.
Init ==
    /\ match \in [Rules -> Matches]
    /\ overrides \in {o \in SUBSET (Rules \X Rules) : Cardinality(o) <= MaxOverrides}
    /\ phase = "loading"
    /\ items = Rules /\ ordered = <<>> /\ emitted = {}
    /\ walk = <<>> /\ at = 0 /\ ring = <<>>
    /\ request = NoRequest /\ decision = NoDecision

(* precedenceOrder(): again and again the first rule, in declaration order, *)
(* whose predecessors are all out. *)

Sorting == phase \in {"loading", "sorting"} /\ at = 0

Ready == {i \in items \ emitted : Predecessors(i) \subseteq emitted}

IsLeast(i, S) == i \in S /\ \A j \in S : i <= j

\* Seeded fault: a rule only waits for the rules declared before it.
EmitForwardOnly(i) ==
    /\ Sorting
    /\ IsLeast(i, {j \in items \ emitted : \A p \in Predecessors(j) : p < j => p \in emitted})
    /\ ordered' = Append(ordered, i)
    /\ emitted' = emitted \cup {i}
    /\ UNCHANGED <<document, phase, items, searching, request, decision>>

Emit(i) ==
    /\ Sorting
    /\ IsLeast(i, Ready)
    /\ ordered' = Append(ordered, i)
    /\ emitted' = emitted \cup {i}
    /\ UNCHANGED <<document, phase, items, searching, request, decision>>

(* findCycle(): walk from predecessor to predecessor until a rule comes back. *)

Stuck(i) ==
    /\ Sorting
    /\ Ready = {}
    /\ IsLeast(i, items \ emitted)
    /\ at' = i
    /\ UNCHANGED <<document, phase, sorting, walk, ring, request, decision>>

Searching == phase \in {"loading", "sorting"} /\ at # 0

Left == Predecessors(at) \ emitted

Walk(i) ==
    /\ Searching /\ at \notin Range(walk)
    /\ IsLeast(i, Left)
    /\ walk' = Append(walk, at)
    /\ at' = i
    /\ UNCHANGED <<document, phase, sorting, ring, request, decision>>

\* Seeded fault: the ring is reported in the direction of the walk.
CycleBackwards ==
    /\ Searching /\ at \in Range(walk)
    /\ ring' = SubSeq(walk, CHOOSE k \in 1..Len(walk) : walk[k] = at, Len(walk))
    /\ phase' = IF phase = "loading" THEN "rejected" ELSE "thrown"
    /\ UNCHANGED <<document, sorting, walk, at, request, decision>>

\* The walk runs against the precedence; the ring is reported along it.  A cycle rejects
\* the configuration when it is loaded and throws when a request is decided.
Cycle ==
    /\ Searching /\ at \in Range(walk)
    /\ ring' = Reverse(SubSeq(walk, CHOOSE k \in 1..Len(walk) : walk[k] = at, Len(walk)))
    /\ phase' = IF phase = "loading" THEN "rejected" ELSE "thrown"
    /\ UNCHANGED <<document, sorting, walk, at, request, decision>>

(* validate.ts: what else a scope's rules must satisfy. *)

\* Seeded fault: a rule that names anybody at all is excused.
CheckRuleOverlapsLoosely ==
    \A i, j \in Rules :
      i < j /\ MatchesIntersect(match[i], match[j]) =>
        \/ CompareSpecificity(match[i], match[j]) # "incomparable"
        \/ \E e \in overrides : {i, j} \cap {e[1], e[2]} # {}

\* Two rules that may accept the same request must be ordered, by inclusion or by name.
CheckRuleOverlaps ==
    \A i, j \in Rules :
      i < j /\ MatchesIntersect(match[i], match[j]) =>
        \/ CompareSpecificity(match[i], match[j]) # "incomparable"
        \/ <<i, j>> \in overrides \/ <<j, i>> \in overrides

CheckOverrides ==
    \A e \in overrides : e[1] # e[2] /\ MatchesIntersect(match[e[1]], match[e[2]])

\* Seeded fault: the configuration is admitted without looking for a cycle.
LoadUnsorted ==
    /\ phase = "loading" /\ emitted = {} /\ at = 0
    /\ phase' = IF CheckRuleOverlaps /\ CheckOverrides THEN "ready" ELSE "rejected"
    /\ UNCHANGED <<document, sorting, searching, request, decision>>

\* Every rule is out: there is no cycle, and the other checks decide.
Load ==
    /\ phase = "loading" /\ Sorting /\ emitted = items
    /\ phase' = IF CheckRuleOverlaps /\ CheckOverrides THEN "ready" ELSE "rejected"
    /\ UNCHANGED <<document, sorting, searching, request, decision>>

(* decide() in a scope: orderedCandidates(), then the first rule that does not decline. *)

\* Seeded fault: the order of the load is not thrown away.
AskOnTop(q) ==
    /\ phase = "ready"
    /\ phase' = "sorting"
    /\ request' = q
    /\ items' = Candidates(q)
    /\ UNCHANGED <<document, ordered, emitted, searching, decision>>

Ask(q) ==
    /\ phase = "ready"
    /\ phase' = "sorting"
    /\ request' = q
    /\ items' = Candidates(q)
    /\ ordered' = <<>> /\ emitted' = {}
    /\ UNCHANGED <<document, searching, decision>>

Truth(i) == EvaluateBody(match[i], request.body)

Hits == {k \in 1..Len(ordered) : Truth(ordered[k]) # "false"}

Decide ==
    /\ phase = "sorting" /\ Sorting /\ emitted = items
    /\ \/ /\ Hits = {}
          /\ decision' = [rule |-> 0, reason |-> "scope-fallback"]
       \/ \E k \in Hits :
            /\ \A l \in Hits : k <= l
            /\ decision' = [rule |-> ordered[k],
                            reason |-> IF Truth(ordered[k]) = "true" THEN "rule" ELSE "indeterminate"]
    /\ phase' = "decided"
    /\ UNCHANGED <<document, sorting, searching, request>>

Next ==
    \/ \E i \in Rules : Emit(i) \/ Stuck(i) \/ Walk(i)
    \/ Cycle \/ Load \/ Decide
    \/ \E q \in Requests : Ask(q)

Spec == Init /\ [][Next]_vars

-----------------------------------------------------------------------------
(* Properties. *)

\* Every variable has its type.
TypeOK ==
    /\ match \in [Rules -> Matches] /\ overrides \subseteq Rules \X Rules
    /\ phase \in {"loading", "rejected", "ready", "sorting", "thrown", "decided"}
    /\ items \subseteq Rules /\ emitted \subseteq items /\ ordered \in Seq(items)
    /\ walk \in Seq(Rules) /\ at \in Rules \cup {0} /\ ring \in Seq(Rules)
    /\ request \in Requests \cup {NoRequest}
    /\ decision \in [rule : Rules \cup {0},
                     reason : {"none", "rule", "indeterminate", "scope-fallback"}]

\* A configuration rejected for a cycle is told a real one: each rule of the ring is
\* tried before the next and the last before the first (findCycle; the comment on
\* PrecedenceOutcome and the error message promise this direction), and the walk that
\* looks for it always finds a way on.
RingIsACycle ==
    /\ ring # <<>> =>
         \A k \in 1..Len(ring) :
           RulePrecedes(ring[k], IF k = Len(ring) THEN ring[1] ELSE ring[k + 1])
    /\ at # 0 => Left # {}

\* No request ever makes the sort of its candidates fail: the check made once for the
\* whole scope is enough for every subset that a request meets (orderedCandidates).
AdmittedNeverStuck == phase # "thrown"

\* What it takes to say that a body does not satisfy a condition: it is not there, it is
\* not empty although it should be, or it can be read down to scalars at every pointer
\* and one of them is missing or different.
Refuted(m, body) ==
    \/ m.format # "any" /\ body.kind = "absent"
    \/ m.format = "none" /\ body.kind \in {"binary", "json"}
    \/ /\ m.format = "json" /\ body.kind = "json"
       /\ \A p \in DOMAIN m.pointers \cap DOMAIN body.value : body.value[p] # "node"
       /\ \E p \in DOMAIN m.pointers :
            p \in DOMAIN body.value => body.value[p] \notin m.pointers[p]

\* A request gets past a rule that it meets only if the rule's condition is refuted:
\* no body that cannot be judged, and no wider rule, gets it around a rule that is to
\* be tried first.  (decide: the reason it stops at an indeterminate rule.)
OnlyRefutedAreSkipped ==
    phase = "decided" =>
      \A i \in Candidates(request) :
        \/ Refuted(match[i], request.body)
        \/ decision.rule # 0 /\ ~(i # decision.rule /\ RulePrecedes(i, decision.rule))

\* When a rule decides by matching, every other rule that matches the request too comes
\* after it by precedence or accepts exactly the same: the order of declaration never
\* decides between rules that accept different things (checkRuleOverlaps).
MatchIsUndisputed ==
    phase = "decided" /\ decision.reason = "rule" =>
      \A i \in Rules \ {decision.rule} :
        EvaluateMatch(match[i], request) = "true" =>
          \/ RulePrecedes(decision.rule, i)
          \/ CompareSpecificity(match[i], match[decision.rule]) = "equivalent"

\* The comparison of accepted sets can be trusted: what it calls included is included,
\* and what it calls disjoint has no request in common (relation.ts; semantics.ts
\* names this as what the soundness of relation.ts means).  Asked of a configuration
\* when its rules are about to be compared.
RelationIsSound ==
    phase = "loading" /\ emitted = {} =>
    \A i, j \in Rules, q \in Requests :
      EvaluateMatch(match[i], q) = "true" =>
        /\ MatchSubsumes(match[i], match[j]) => EvaluateMatch(match[j], q) = "true"
        /\ EvaluateMatch(match[j], q) = "true" => MatchesIntersect(match[i], match[j])

-----------------------------------------------------------------------------
(* Why the decision is right: what the sort and the phases have established. *)

\* What is out is what has been put in order, and nothing was put in order before the
\* rules it waits for.
OrderRespectsPrecedence ==
    /\ \A i \in emitted : \E k \in 1..Len(ordered) : ordered[k] = i
    /\ \A k \in 1..Len(ordered) :
         /\ ordered[k] \in emitted
         /\ \A j \in Predecessors(ordered[k]) : \E l \in 1..(k - 1) : ordered[l] = j

\* In every set of rules there is one that waits for no other of the set.
Acyclic ==
    \A S \in SUBSET Rules :
      S # {} => \E i \in S : \A j \in S \ {i} : ~RulePrecedes(j, i)

\* What each phase has established.
PhaseFits ==
    /\ phase = "loading" => items = Rules
    /\ phase \in {"ready", "sorting", "decided"} =>
         CheckRuleOverlaps /\ CheckOverrides /\ Acyclic /\ at = 0
    /\ phase \in {"sorting", "decided"} => request \in Requests /\ items = Candidates(request)

Inv ==
    /\ TypeOK /\ OrderRespectsPrecedence /\ PhaseFits
    /\ AdmittedNeverStuck /\ OnlyRefutedAreSkipped /\ MatchIsUndisputed
=============================================================================
