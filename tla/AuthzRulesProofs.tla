--------------------------- MODULE AuthzRulesProofs ---------------------------
(***************************************************************************)
(* For every number of rules, every set of matches and every request: the  *)
(* comparison of matches is sound, an admitted configuration never gets    *)
(* stuck, and the rule that decides is the one that should.                *)
(***************************************************************************)
EXTENDS AuthzRules, TLAPS, WellFoundedInduction

-----------------------------------------------------------------------------
(* One match and one body. *)

\* A body that is said not to satisfy a condition really refutes it (evaluateBody never
\* answers "false" for want of an answer).
LEMMA FalseIsRefuted ==
    ASSUME NEW m \in Matches, NEW q \in Requests, EvaluateBody(m, q.body) = "false"
    PROVE  Refuted(m, q.body)
<1> DEFINE b == q.body
<1>1. /\ m.format \in {"any", "opaque", "json", "none"}
      /\ b.kind \in {"absent", "empty", "binary", "json"}
  BY RulesAssumption
<1> HIDE DEF b
<1>2. CASE m.format = "json" /\ b.kind = "json"
  <2> DEFINE found == {EvaluatePointer(b.value, p, m.pointers[p]) : p \in DOMAIN m.pointers}
  <2>1. EvaluateContent(m, b.value) = "false"
    BY <1>2 DEF EvaluateBody, b
  <2>2. "indeterminate" \notin found /\ "false" \in found
    BY <2>1 DEF EvaluateContent
  <2>3. \A p \in DOMAIN m.pointers : EvaluatePointer(b.value, p, m.pointers[p]) # "indeterminate"
    BY <2>2
  <2>4. PICK p \in DOMAIN m.pointers : EvaluatePointer(b.value, p, m.pointers[p]) = "false"
    BY <2>2
  <2>5. p \in DOMAIN b.value => b.value[p] \notin m.pointers[p]
    BY <2>4 DEF EvaluatePointer
  <2>6. \A x \in DOMAIN m.pointers \cap DOMAIN b.value : b.value[x] # "node"
    BY <2>3 DEF EvaluatePointer
  <2> QED
    BY <1>2, <2>5, <2>6 DEF Refuted, b
<1>3. CASE ~(m.format = "json" /\ b.kind = "json")
  BY <1>1, <1>3 DEF EvaluateBody, Refuted, b
<1> QED
  BY <1>2, <1>3

\* A match that accepts a body accepts its content, too.
LEMMA TrueContent ==
    ASSUME NEW m \in Matches, NEW q \in Requests, EvaluateBody(m, q.body) = "true",
           NEW p \in DOMAIN m.pointers
    PROVE  /\ m.format = "json" /\ q.body.kind = "json"
           /\ p \in DOMAIN q.body.value /\ q.body.value[p] \in m.pointers[p]
           /\ q.body.value[p] # "node"
<1> DEFINE b == q.body
           found == {EvaluatePointer(b.value, x, m.pointers[x]) : x \in DOMAIN m.pointers}
<1>1. m.format = "json" /\ b.kind \in {"absent", "empty", "binary", "json"}
  BY RulesAssumption
<1>2. b.kind = "json"
  BY <1>1 DEF EvaluateBody
<1>3. EvaluateContent(m, b.value) = "true"
  BY <1>1, <1>2 DEF EvaluateBody
<1>4. "indeterminate" \notin found /\ "false" \notin found
  BY <1>3 DEF EvaluateContent
<1>5. EvaluatePointer(b.value, p, m.pointers[p]) \in found
  OBVIOUS
<1>6. /\ EvaluatePointer(b.value, p, m.pointers[p]) # "indeterminate"
      /\ EvaluatePointer(b.value, p, m.pointers[p]) # "false"
  BY <1>4, <1>5
<1> QED
  BY <1>1, <1>2, <1>6 DEF EvaluatePointer

\* What the content check says when every pointer holds.
LEMMA ContentTrue ==
    ASSUME NEW m, NEW value,
           \A p \in DOMAIN m.pointers : /\ p \in DOMAIN value /\ value[p] \in m.pointers[p]
                                        /\ value[p] # "node"
    PROVE  EvaluateContent(m, value) = "true"
<1> DEFINE found == {EvaluatePointer(value, x, m.pointers[x]) : x \in DOMAIN m.pointers}
<1>1. \A x \in DOMAIN m.pointers : EvaluatePointer(value, x, m.pointers[x]) = "true"
  BY DEF EvaluatePointer
<1>2. "indeterminate" \notin found /\ "false" \notin found
  BY <1>1
<1> QED
  BY <1>2 DEF EvaluateContent

\* Inclusion is only claimed when it holds (matchSubsumes).
LEMMA SubsumesIsSound ==
    ASSUME NEW a \in Matches, NEW b \in Matches, NEW q \in Requests,
           MatchSubsumes(a, b), EvaluateMatch(a, q) = "true"
    PROVE  EvaluateMatch(b, q) = "true"
<1>1. IsCandidate(a, q) /\ EvaluateBody(a, q.body) = "true"
  BY DEF EvaluateMatch
<1>2. IsCandidate(b, q)
  BY <1>1 DEF IsCandidate, MatchSubsumes, PathsSubsume
<1>3. /\ a.format \in {"any", "opaque", "json", "none"}
      /\ b.format \in {"any", "opaque", "json", "none"}
      /\ q.body.kind \in {"absent", "empty", "binary", "json"}
  BY RulesAssumption
<1>4. b.format = "any" \/ a.format = b.format \/ (b.format = "opaque" /\ a.format # "any")
  BY DEF MatchSubsumes, FormatSubsumes
<1>5. EvaluateBody(b, q.body) = "true"
  <2>1. CASE b.format = "any"
    BY <2>1 DEF EvaluateBody
  <2>2. CASE b.format = "opaque"
    BY <1>1, <1>3, <1>4, <2>2 DEF EvaluateBody
  <2>3. CASE b.format = "none"
    BY <1>1, <1>3, <1>4, <2>3 DEF EvaluateBody
  <2>4. CASE b.format = "json"
    <3>1. a.format = "json"
      BY <1>4, <2>4
    <3>2. q.body.kind = "json"
      BY <1>1, <1>3, <3>1 DEF EvaluateBody
    <3>3. \A p \in DOMAIN b.pointers : p \in DOMAIN a.pointers /\ a.pointers[p] \subseteq b.pointers[p]
      BY DEF MatchSubsumes, PointersSubsume
    <3>4. \A p \in DOMAIN b.pointers :
            /\ p \in DOMAIN q.body.value /\ q.body.value[p] \in b.pointers[p]
            /\ q.body.value[p] # "node"
      BY <1>1, <3>3, TrueContent
    <3>5. EvaluateContent(b, q.body.value) = "true"
      BY <3>4, ContentTrue
    <3> QED
      BY <2>4, <3>2, <3>5 DEF EvaluateBody
  <2> QED
    BY <1>3, <2>1, <2>2, <2>3, <2>4
<1> QED
  BY <1>2, <1>5 DEF EvaluateMatch

\* Disjointness is only claimed when it holds (matchesIntersect).
LEMMA CommonRequestIntersects ==
    ASSUME NEW a \in Matches, NEW b \in Matches, NEW q \in Requests,
           EvaluateMatch(a, q) = "true", EvaluateMatch(b, q) = "true"
    PROVE  MatchesIntersect(a, b)
<1>1. /\ IsCandidate(a, q) /\ EvaluateBody(a, q.body) = "true"
      /\ IsCandidate(b, q) /\ EvaluateBody(b, q.body) = "true"
  BY DEF EvaluateMatch
<1>2. a.methods \cap b.methods # {} /\ PathsIntersect(a.paths, b.paths)
  BY <1>1 DEF IsCandidate, PathsIntersect
<1>3. /\ a.format \in {"any", "opaque", "json", "none"}
      /\ b.format \in {"any", "opaque", "json", "none"}
      /\ q.body.kind \in {"absent", "empty", "binary", "json"}
  BY RulesAssumption
<1>4. FormatIntersects(a.format, b.format)
  <2>1. CASE a.format = "none" /\ b.format = "json"
    BY <1>1, <1>3, <2>1 DEF EvaluateBody
  <2>2. CASE a.format = "json" /\ b.format = "none"
    BY <1>1, <1>3, <2>2 DEF EvaluateBody
  <2>3. CASE a.format = b.format \/ a.format \in {"any", "opaque"} \/ b.format \in {"any", "opaque"}
    BY <2>3 DEF FormatIntersects
  <2> QED
    BY <1>3, <2>1, <2>2, <2>3
<1>5. PointersIntersect(a.pointers, b.pointers)
  <2>1. SUFFICES ASSUME NEW p \in DOMAIN a.pointers \cap DOMAIN b.pointers
                 PROVE  a.pointers[p] \cap b.pointers[p] # {}
    BY DEF PointersIntersect
  <2>2. q.body.value[p] \in a.pointers[p] /\ q.body.value[p] \in b.pointers[p]
    BY <1>1, TrueContent
  <2> QED
    BY <2>2
<1> QED
  BY <1>2, <1>4, <1>5 DEF MatchesIntersect

-----------------------------------------------------------------------------
(* The state machine. *)

\* A non-empty set of naturals has a least element.
LEMMA LeastNatural ==
    ASSUME NEW T \in SUBSET Nat, T # {}
    PROVE  \E k \in T : \A l \in T : k <= l
<1>1. PICK k \in T : \A l \in T : ~(<<l, k>> \in OpToRel(<, Nat))
  BY NatLessThanWellFounded, WFMin
<1>2. \A l \in T : ~(l < k)
  BY <1>1 DEF OpToRel
<1> QED
  BY <1>2

\* The whole scope has been sorted: there is no cycle in its precedence.
LEMMA SortedIsAcyclic ==
    ASSUME TypeOK, OrderRespectsPrecedence, items = Rules, emitted = items
    PROVE  Acyclic
<1>1. SUFFICES ASSUME NEW S \in SUBSET Rules, S # {}
               PROVE  \E i \in S : \A j \in S \ {i} : ~RulePrecedes(j, i)
  BY DEF Acyclic
<1> DEFINE T == {k \in 1..Len(ordered) : ordered[k] \in S}
<1>2. Len(ordered) \in Nat
  BY DEF TypeOK
<1>3. T \in SUBSET Nat /\ T # {}
  BY <1>1, <1>2 DEF OrderRespectsPrecedence
<1>4. PICK k \in T : \A l \in T : k <= l
  BY <1>3, LeastNatural
<1>5. ASSUME NEW j \in S \ {ordered[k]}, RulePrecedes(j, ordered[k])
      PROVE  FALSE
  <2>1. j \in Predecessors(ordered[k])
    BY <1>5 DEF Predecessors
  <2>2. PICK l \in 1..(k - 1) : ordered[l] = j
    BY <1>4, <2>1 DEF OrderRespectsPrecedence
  <2>3. l \in T /\ l < k
    BY <1>2, <1>4, <2>2
  <2> QED
    BY <1>2, <1>4, <2>3
<1> QED
  BY <1>4, <1>5

\* Some candidate is ready as long as one is left.
LEMMA SomeoneIsReady ==
    ASSUME TypeOK, Acyclic, items \ emitted # {}
    PROVE  Ready # {}
<1>1. PICK i \in items \ emitted : \A j \in (items \ emitted) \ {i} : ~RulePrecedes(j, i)
  BY DEF Acyclic, TypeOK
<1>2. Predecessors(i) \subseteq emitted
  BY <1>1 DEF Predecessors
<1> QED
  BY <1>1, <1>2 DEF Ready

\* The rule at position k is the first that does not decline; then whatever is tried
\* before it is refuted.
LEMMA FirstHit ==
    ASSUME Inv, phase = "sorting", emitted = items,
           NEW k \in Hits, \A l \in Hits : k <= l,
           NEW i \in Candidates(request), i # ordered[k], RulePrecedes(i, ordered[k])
    PROVE  EvaluateBody(match[i], request.body) = "false" /\ Refuted(match[i], request.body)
<1>1. /\ request \in Requests /\ items = Candidates(request) /\ i \in Rules
      /\ match[i] \in Matches /\ Len(ordered) \in Nat /\ k \in 1..Len(ordered)
  BY DEF Inv, PhaseFits, TypeOK, Candidates, Hits
<1>2. i \in Predecessors(ordered[k])
  BY <1>1 DEF Predecessors
<1>3. PICK l \in 1..(k - 1) : ordered[l] = i
  BY <1>1, <1>2 DEF Inv, OrderRespectsPrecedence
<1>4. l \in 1..Len(ordered) /\ l < k
  BY <1>1, <1>3
<1>5. l \notin Hits
  BY <1>1, <1>4
<1>6. Truth(i) = "false"
  BY <1>3, <1>4, <1>5 DEF Hits
<1> QED
  BY <1>1, <1>6, FalseIsRefuted DEF Truth

\* Only the sort and the phase change in most steps: what depends on the configuration
\* stays.
LEMMA SameDocument ==
    ASSUME UNCHANGED document
    PROVE  /\ \A i, j \in Rules : RulePrecedes(i, j)' <=> RulePrecedes(i, j)
           /\ CheckRuleOverlaps' <=> CheckRuleOverlaps
           /\ CheckOverrides' <=> CheckOverrides
           /\ Acyclic' <=> Acyclic
<1>1. match' = match /\ overrides' = overrides
  BY DEF document
<1>2. \A i, j : RulePrecedes(i, j)' <=> RulePrecedes(i, j)
  BY <1>1 DEF RulePrecedes
<1>3. CheckRuleOverlaps' <=> CheckRuleOverlaps
  BY <1>1 DEF CheckRuleOverlaps
<1>4. CheckOverrides' <=> CheckOverrides
  BY <1>1 DEF CheckOverrides
<1>5. Acyclic' <=> Acyclic
  BY <1>2 DEF Acyclic
<1> QED
  BY <1>2, <1>3, <1>4, <1>5

\* The same for the sort: what is in order stays in order.
LEMMA SameOrder ==
    ASSUME OrderRespectsPrecedence, match' = match, overrides' = overrides, items' = items,
           ordered' = ordered, emitted' = emitted
    PROVE  OrderRespectsPrecedence'
<1>1. \A i : Predecessors(i)' = Predecessors(i)
  BY DEF Predecessors, RulePrecedes
<1>2. (\A i \in emitted : \E k \in 1..Len(ordered) : ordered[k] = i)'
  BY DEF OrderRespectsPrecedence
<1>3. ASSUME NEW k \in 1..Len(ordered)
      PROVE  /\ ordered[k] \in emitted
             /\ \A j \in Predecessors(ordered[k])' : \E l \in 1..(k - 1) : ordered[l] = j
  BY <1>1 DEF OrderRespectsPrecedence
<1> QED
  BY <1>2, <1>3 DEF OrderRespectsPrecedence

-----------------------------------------------------------------------------
(* The invariant. *)

LEMMA InitInv == Init => Inv
<1> SUFFICES ASSUME Init PROVE Inv
  OBVIOUS
<1>1. TypeOK
  BY DEF Init, TypeOK, NoDecision, NoRequest
<1>2. OrderRespectsPrecedence
  BY DEF Init, OrderRespectsPrecedence
<1>3. PhaseFits /\ AdmittedNeverStuck /\ OnlyRefutedAreSkipped /\ MatchIsUndisputed
  BY DEF Init, PhaseFits, AdmittedNeverStuck, OnlyRefutedAreSkipped, MatchIsUndisputed
<1> QED
  BY <1>1, <1>2, <1>3 DEF Inv

\* A step that leaves the configuration, the sort and the phase alone keeps the invariant
\* but for the types of what it does change.
LEMMA SearchInv ==
    ASSUME Inv, TypeOK', UNCHANGED <<document, phase, sorting, request, decision>>,
           phase \in {"loading", "rejected"}
    PROVE  Inv'
<1>1. /\ match' = match /\ overrides' = overrides /\ items' = items /\ ordered' = ordered
      /\ emitted' = emitted /\ phase' = phase
  BY DEF document, sorting
<1>2. OrderRespectsPrecedence'
  BY <1>1, SameOrder DEF Inv
<1>3. PhaseFits'
  BY <1>1 DEF Inv, PhaseFits
<1>4. AdmittedNeverStuck' /\ OnlyRefutedAreSkipped' /\ MatchIsUndisputed'
  BY <1>1 DEF AdmittedNeverStuck, OnlyRefutedAreSkipped, MatchIsUndisputed
<1> QED
  BY <1>2, <1>3, <1>4 DEF Inv

LEMMA EmitInv ==
    ASSUME Inv, NEW i \in Rules, Emit(i)
    PROVE  Inv'
<1>1. /\ i \in items \ emitted /\ Predecessors(i) \subseteq emitted
      /\ phase \in {"loading", "sorting"} /\ at = 0
      /\ ordered' = Append(ordered, i) /\ emitted' = emitted \cup {i}
      /\ match' = match /\ overrides' = overrides /\ items' = items /\ phase' = phase
      /\ walk' = walk /\ at' = at /\ ring' = ring /\ request' = request /\ decision' = decision
  BY DEF Emit, IsLeast, Ready, Sorting, document, searching
<1>2. TypeOK'
  BY <1>1 DEF Inv, TypeOK
<1>3. OrderRespectsPrecedence'
  <2> DEFINE n == Len(ordered)
  <2>1. /\ n \in Nat /\ Len(ordered') = n + 1 /\ ordered'[n + 1] = i
        /\ \A k \in 1..n : ordered'[k] = ordered[k]
    BY <1>1 DEF Inv, TypeOK
  <2> HIDE DEF n
  <2>2. \A x : Predecessors(x)' = Predecessors(x)
    BY <1>1 DEF Predecessors, RulePrecedes
  <2>3. /\ \A x \in emitted : \E k \in 1..n : ordered[k] = x
        /\ \A k \in 1..n :
             /\ ordered[k] \in emitted
             /\ \A j \in Predecessors(ordered[k]) : \E l \in 1..(k - 1) : ordered[l] = j
    BY DEF Inv, OrderRespectsPrecedence, n
  <2>4. ASSUME NEW x \in emitted' PROVE \E k \in 1..(n + 1) : ordered'[k] = x
    BY <1>1, <2>1, <2>3
  <2>5. ASSUME NEW k \in 1..(n + 1)
        PROVE  /\ ordered'[k] \in emitted'
               /\ \A j \in Predecessors(ordered'[k]) : \E l \in 1..(k - 1) : ordered'[l] = j
    <3>1. CASE k \in 1..n
      <4>1. ordered'[k] = ordered[k] /\ ordered[k] \in emitted
        BY <2>1, <2>3, <3>1
      <4>2. ASSUME NEW j \in Predecessors(ordered[k]) PROVE \E l \in 1..(k - 1) : ordered'[l] = j
        <5>1. PICK l \in 1..(k - 1) : ordered[l] = j
          BY <2>3, <3>1, <4>2
        <5>2. l \in 1..n
          BY <2>1, <3>1
        <5> QED
          BY <2>1, <5>1, <5>2
      <4> QED
        BY <1>1, <4>1, <4>2
    <3>2. CASE k = n + 1
      <4>1. ordered'[k] = i
        BY <2>1, <3>2
      <4>2. ASSUME NEW j \in Predecessors(i) PROVE \E l \in 1..n : ordered'[l] = j
        BY <1>1, <2>1, <2>3, <4>2
      <4>3. k - 1 = n
        BY <2>1, <3>2
      <4> QED
        BY <1>1, <4>1, <4>2, <4>3
    <3> QED
      BY <2>1, <3>1, <3>2
  <2> QED
    BY <2>1, <2>2, <2>4, <2>5 DEF OrderRespectsPrecedence
<1>4. PhaseFits'
  <2>1. UNCHANGED document
    BY DEF Emit
  <2> QED
    BY <1>1, <2>1, SameDocument DEF Inv, PhaseFits, Candidates
<1>5. AdmittedNeverStuck' /\ OnlyRefutedAreSkipped' /\ MatchIsUndisputed'
  BY <1>1 DEF AdmittedNeverStuck, OnlyRefutedAreSkipped, MatchIsUndisputed
<1> QED
  BY <1>2, <1>3, <1>4, <1>5 DEF Inv

\* The sort gets stuck only while the configuration is loaded.
LEMMA StuckInv ==
    ASSUME Inv, NEW i \in Rules, Stuck(i)
    PROVE  Inv'
<1>1. phase = "loading"
  <2>1. phase \in {"loading", "sorting"} /\ Ready = {} /\ items \ emitted # {}
    BY DEF Stuck, Sorting, IsLeast
  <2>2. phase = "sorting" => Acyclic
    BY DEF Inv, PhaseFits
  <2> QED
    BY <2>1, <2>2, SomeoneIsReady DEF Inv
<1>2. TypeOK'
  BY DEF Inv, TypeOK, Stuck, document, sorting
<1> QED
  BY <1>1, <1>2, SearchInv DEF Stuck

LEMMA WalkInv ==
    ASSUME Inv, NEW i \in Rules, Walk(i)
    PROVE  Inv'
<1>1. phase = "loading"
  BY DEF Walk, Searching, Inv, PhaseFits
<1>2. TypeOK'
  BY DEF Inv, TypeOK, Walk, Searching, document, sorting
<1> QED
  BY <1>1, <1>2, SearchInv DEF Walk

\* A step to "rejected" that leaves the sort alone asks for nothing more.
LEMMA RejectInv ==
    ASSUME Inv, TypeOK', UNCHANGED <<document, sorting>>, phase' = "rejected"
    PROVE  Inv'
<1>1. /\ match' = match /\ overrides' = overrides /\ items' = items /\ ordered' = ordered
      /\ emitted' = emitted
  BY DEF document, sorting
<1>2. OrderRespectsPrecedence'
  BY <1>1, SameOrder DEF Inv
<1>3. PhaseFits' /\ AdmittedNeverStuck' /\ OnlyRefutedAreSkipped' /\ MatchIsUndisputed'
  BY DEF PhaseFits, AdmittedNeverStuck, OnlyRefutedAreSkipped, MatchIsUndisputed
<1> QED
  BY <1>2, <1>3 DEF Inv

LEMMA CycleInv ==
    ASSUME Inv, Cycle
    PROVE  Inv'
<1>1. phase = "loading" /\ phase' = "rejected"
  BY DEF Cycle, Searching, Inv, PhaseFits
<1>2. ring' \in Seq(Rules)
  <2> DEFINE from == CHOOSE k \in 1..Len(walk) : walk[k] = at
             part == SubSeq(walk, from, Len(walk))
  <2>1. walk \in Seq(Rules) /\ \E k \in 1..Len(walk) : walk[k] = at
    BY DEF Inv, TypeOK, Cycle, Range
  <2>2. from \in 1..Len(walk)
    BY <2>1
  <2>3. part \in Seq(Rules)
    BY <2>1, <2>2
  <2> HIDE DEF part
  <2>4. Reverse(part) \in Seq(Rules)
    <3>1. Len(part) \in Nat /\ \A k \in 1..Len(part) : part[k] \in Rules
      BY <2>3
    <3>2. \A k \in 1..Len(part) : (Len(part) - k) + 1 \in 1..Len(part)
      BY <3>1
    <3>3. Reverse(part) \in [1..Len(part) -> Rules]
      BY <3>1, <3>2 DEF Reverse
    <3> QED
      BY <3>1, <3>3
  <2> QED
    BY <2>4 DEF Cycle, part
<1>3. TypeOK'
  BY <1>1, <1>2 DEF Inv, TypeOK, Cycle, document, sorting
<1> QED
  BY <1>1, <1>3, RejectInv DEF Cycle

LEMMA LoadInv ==
    ASSUME Inv, Load
    PROVE  Inv'
<1>1. TypeOK'
  BY DEF Inv, TypeOK, Load, document, sorting, searching
<1>2. CASE phase' = "rejected"
  BY <1>1, <1>2, RejectInv DEF Load
<1>3. CASE phase' = "ready"
  <2>1. /\ match' = match /\ overrides' = overrides /\ items' = items /\ ordered' = ordered
        /\ emitted' = emitted /\ at' = at
    BY DEF Load, document, sorting, searching
  <2>2. OrderRespectsPrecedence'
    BY <2>1, SameOrder DEF Inv
  <2>3. CheckRuleOverlaps /\ CheckOverrides
    BY <1>3 DEF Load
  <2>4. Acyclic
    BY SortedIsAcyclic DEF Inv, PhaseFits, Load
  <2>5. PhaseFits'
    <3>1. at' = 0
      BY <2>1 DEF Load, Sorting
    <3> QED
      BY <1>3, <2>3, <2>4, <3>1, SameDocument DEF PhaseFits, Load
  <2>6. AdmittedNeverStuck' /\ OnlyRefutedAreSkipped' /\ MatchIsUndisputed'
    BY <1>3 DEF AdmittedNeverStuck, OnlyRefutedAreSkipped, MatchIsUndisputed
  <2> QED
    BY <1>1, <2>2, <2>5, <2>6 DEF Inv
<1> QED
  BY <1>2, <1>3 DEF Load

LEMMA AskInv ==
    ASSUME Inv, NEW q \in Requests, Ask(q)
    PROVE  Inv'
<1>1. /\ match' = match /\ overrides' = overrides /\ items' = Candidates(q)
      /\ ordered' = <<>> /\ emitted' = {} /\ phase = "ready" /\ phase' = "sorting"
      /\ walk' = walk /\ at' = at /\ ring' = ring /\ request' = q /\ decision' = decision
  BY DEF Ask, document, searching
<1>2. TypeOK'
  BY <1>1 DEF Inv, TypeOK, Candidates
<1>3. OrderRespectsPrecedence'
  BY <1>1 DEF OrderRespectsPrecedence
<1>4. PhaseFits'
  <2>1. UNCHANGED document
    BY DEF Ask
  <2>2. Candidates(request)' = Candidates(q)
    BY <1>1 DEF Candidates
  <2> QED
    BY <1>1, <2>1, <2>2, SameDocument DEF Inv, PhaseFits
<1>5. AdmittedNeverStuck' /\ OnlyRefutedAreSkipped' /\ MatchIsUndisputed'
  BY <1>1 DEF AdmittedNeverStuck, OnlyRefutedAreSkipped, MatchIsUndisputed
<1> QED
  BY <1>2, <1>3, <1>4, <1>5 DEF Inv

\* Of two rules that both match, neither is skipped silently: the one that was not found
\* first comes after it by precedence or accepts the same.
LEMMA BothMatch ==
    ASSUME Inv, phase = "sorting", NEW d \in Rules, NEW i \in Rules, i # d,
           EvaluateMatch(match[d], request) = "true",
           EvaluateMatch(match[i], request) = "true", ~RulePrecedes(i, d)
    PROVE  \/ RulePrecedes(d, i)
           \/ CompareSpecificity(match[i], match[d]) = "equivalent"
<1>1. /\ request \in Requests /\ match[d] \in Matches /\ match[i] \in Matches
      /\ CheckRuleOverlaps
  BY DEF Inv, PhaseFits, TypeOK
<1>2. MatchesIntersect(match[i], match[d]) /\ MatchesIntersect(match[d], match[i])
  BY <1>1, CommonRequestIntersects
<1>3. i < d \/ d < i
  BY RulesAssumption DEF Rules
<1>4. \/ CompareSpecificity(match[i], match[d]) # "incomparable"
      \/ CompareSpecificity(match[d], match[i]) # "incomparable"
      \/ <<i, d>> \in overrides \/ <<d, i>> \in overrides
  BY <1>1, <1>2, <1>3 DEF CheckRuleOverlaps
<1>5. <<i, d>> \notin overrides
  BY DEF RulePrecedes
<1>6. CASE <<d, i>> \in overrides
  BY <1>6 DEF RulePrecedes
<1>7. CASE <<d, i>> \notin overrides
  <2>1. \/ MatchSubsumes(match[i], match[d])
        \/ MatchSubsumes(match[d], match[i])
    BY <1>4, <1>5, <1>7 DEF CompareSpecificity
  <2>2. ~(MatchSubsumes(match[i], match[d]) /\ ~MatchSubsumes(match[d], match[i]))
    BY <1>7 DEF RulePrecedes, CompareSpecificity
  <2>3. CASE MatchSubsumes(match[i], match[d])
    BY <2>2, <2>3 DEF CompareSpecificity
  <2>4. CASE ~MatchSubsumes(match[i], match[d])
    <3>1. CompareSpecificity(match[d], match[i]) = "narrower"
      BY <2>1, <2>4 DEF CompareSpecificity
    <3> QED
      BY <1>5, <3>1 DEF RulePrecedes
  <2> QED
    BY <2>3, <2>4
<1> QED
  BY <1>6, <1>7

\* The request falls through to the scope's fallback: every candidate was refuted.
LEMMA FallbackInv ==
    ASSUME Inv, phase = "sorting", emitted = items, Hits = {},
           NEW i \in Candidates(request)
    PROVE  Refuted(match[i], request.body)
<1>1. /\ request \in Requests /\ items = Candidates(request) /\ i \in Rules
      /\ match[i] \in Matches
  BY DEF Inv, PhaseFits, TypeOK, Candidates
<1>2. PICK k \in 1..Len(ordered) : ordered[k] = i
  BY <1>1 DEF Inv, OrderRespectsPrecedence
<1>3. Truth(i) = "false"
  BY <1>2 DEF Hits
<1> QED
  BY <1>1, <1>3, FalseIsRefuted DEF Truth

LEMMA DecideInv ==
    ASSUME Inv, Decide
    PROVE  Inv'
<1>1. /\ match' = match /\ overrides' = overrides /\ items' = items /\ ordered' = ordered
      /\ emitted' = emitted /\ phase = "sorting" /\ phase' = "decided" /\ emitted = items
      /\ walk' = walk /\ at' = at /\ ring' = ring /\ request' = request
  BY DEF Decide, document, sorting, searching
<1>2. OrderRespectsPrecedence'
  BY <1>1, SameOrder DEF Inv
<1>3. PhaseFits'
  <2>1. UNCHANGED document
    BY DEF Decide
  <2>2. Candidates(request)' = Candidates(request)
    BY <1>1 DEF Candidates
  <2> QED
    BY <1>1, <2>1, <2>2, SameDocument DEF Inv, PhaseFits
<1>4. AdmittedNeverStuck'
  BY <1>1 DEF AdmittedNeverStuck
<1>5. CASE Hits = {} /\ decision' = [rule |-> 0, reason |-> "scope-fallback"]
  <2>1. TypeOK'
    BY <1>1, <1>5 DEF Inv, TypeOK
  <2>2. OnlyRefutedAreSkipped'
    BY <1>1, <1>5, FallbackInv DEF OnlyRefutedAreSkipped, Candidates
  <2>3. MatchIsUndisputed'
    BY <1>5 DEF MatchIsUndisputed
  <2> QED
    BY <1>2, <1>3, <1>4, <2>1, <2>2, <2>3 DEF Inv
<1>6. ASSUME NEW k \in Hits, \A l \in Hits : k <= l,
             decision' = [rule |-> ordered[k],
                          reason |-> IF Truth(ordered[k]) = "true" THEN "rule" ELSE "indeterminate"]
      PROVE  Inv'
  <2> DEFINE d == ordered[k]
  <2>1. /\ d \in items /\ d \in Rules /\ d # 0 /\ decision'.rule = d
        /\ items = Candidates(request)
    BY <1>1, <1>6, RulesAssumption DEF Inv, TypeOK, PhaseFits, Hits, Rules
  <2>2. TypeOK'
    BY <1>1, <1>6, <2>1 DEF Inv, TypeOK
  <2>3. \A i, j : RulePrecedes(i, j)' <=> RulePrecedes(i, j)
    BY <1>1 DEF RulePrecedes
  <2>4. OnlyRefutedAreSkipped'
    <3>1. ASSUME NEW i \in Candidates(request), i # d, RulePrecedes(i, d)
          PROVE  Refuted(match[i], request.body)
      BY <1>1, <1>6, <3>1, FirstHit
    <3>2. Candidates(request)' = Candidates(request)
      BY <1>1 DEF Candidates
    <3> QED
      BY <1>1, <2>1, <3>1, <3>2 DEF OnlyRefutedAreSkipped, RulePrecedes
  <2>5. MatchIsUndisputed'
    <3>1. SUFFICES ASSUME decision'.reason = "rule", NEW i \in Rules \ {d},
                          EvaluateMatch(match[i], request) = "true"
                   PROVE  \/ RulePrecedes(d, i)
                          \/ CompareSpecificity(match[i], match[d]) = "equivalent"
      BY <1>1, <2>1 DEF MatchIsUndisputed, RulePrecedes
    <3>2. Truth(d) = "true"
      BY <1>6, <3>1
    <3>3. EvaluateMatch(match[d], request) = "true"
      BY <2>1, <3>2 DEF EvaluateMatch, Truth, Candidates
    <3>4. i \in Candidates(request) /\ EvaluateBody(match[i], request.body) = "true"
      BY <3>1 DEF EvaluateMatch, Candidates
    <3>5. ~RulePrecedes(i, d)
      BY <1>1, <1>6, <3>1, <3>4, FirstHit
    <3> QED
      BY <1>1, <2>1, <3>1, <3>3, <3>5, BothMatch
  <2> QED
    BY <1>2, <1>3, <1>4, <2>2, <2>4, <2>5 DEF Inv
<1> QED
  BY <1>5, <1>6 DEF Decide

LEMMA StutterInv ==
    ASSUME Inv, UNCHANGED vars
    PROVE  Inv'
<1>1. /\ match' = match /\ overrides' = overrides /\ items' = items /\ ordered' = ordered
      /\ emitted' = emitted /\ phase' = phase /\ walk' = walk /\ at' = at /\ ring' = ring
      /\ request' = request /\ decision' = decision /\ UNCHANGED document
  BY DEF vars, document, sorting, searching
<1>2. TypeOK' /\ AdmittedNeverStuck'
  BY <1>1 DEF Inv, TypeOK, AdmittedNeverStuck
<1>3. OrderRespectsPrecedence'
  BY <1>1, SameOrder DEF Inv
<1>4. PhaseFits'
  BY <1>1, SameDocument DEF Inv, PhaseFits, Candidates
<1>5. OnlyRefutedAreSkipped' /\ MatchIsUndisputed'
  BY <1>1 DEF Inv, OnlyRefutedAreSkipped, MatchIsUndisputed, Candidates, RulePrecedes
<1> QED
  BY <1>2, <1>3, <1>4, <1>5 DEF Inv

\* Inv is inductive: every step of loading a configuration, of sorting its rules and of
\* deciding a request keeps it.
THEOREM InvHolds == Spec => []Inv
<1>1. Inv /\ [Next]_vars => Inv'
  <2> SUFFICES ASSUME Inv, [Next]_vars PROVE Inv'
    OBVIOUS
  <2>1. ASSUME NEW i \in Rules, Emit(i) \/ Stuck(i) \/ Walk(i) PROVE Inv'
    BY <2>1, EmitInv, StuckInv, WalkInv
  <2>2. ASSUME NEW q \in Requests, Ask(q) PROVE Inv'
    BY <2>2, AskInv
  <2>3. CASE Cycle \/ Load \/ Decide
    BY <2>3, CycleInv, LoadInv, DecideInv
  <2>4. CASE UNCHANGED vars
    BY <2>4, StutterInv
  <2> QED
    BY <2>1, <2>2, <2>3, <2>4 DEF Next
<1> QED
  BY <1>1, InitInv, PTL DEF Spec

\* Every variable keeps its type, whatever the configuration and the request.
THEOREM TypeCorrect == Spec => []TypeOK
<1>1. Inv => TypeOK
  BY DEF Inv
<1> QED
  BY <1>1, InvHolds, PTL

\* The sort of a request's candidates never throws: precedenceOrder got through the whole
\* scope when the configuration was admitted, so the precedence has no cycle in any subset.
THEOREM NeverStuck == Spec => []AdmittedNeverStuck
<1>1. Inv => AdmittedNeverStuck
  BY DEF Inv
<1> QED
  BY <1>1, InvHolds, PTL

\* decide() gets past a candidate that is tried before the deciding rule only when the
\* request's body refutes the candidate's condition.
THEOREM SkipsOnlyRefuted == Spec => []OnlyRefutedAreSkipped
<1>1. Inv => OnlyRefutedAreSkipped
  BY DEF Inv
<1> QED
  BY <1>1, InvHolds, PTL

\* The rule that decides by matching is undisputed: checkRuleOverlaps has ordered it
\* against every other rule that matches, or the two accept the same.
THEOREM Undisputed == Spec => []MatchIsUndisputed
<1>1. Inv => MatchIsUndisputed
  BY DEF Inv
<1> QED
  BY <1>1, InvHolds, PTL

\* matchSubsumes and matchesIntersect are sound for every set of matches and requests.
THEOREM RelationSound == Spec => []RelationIsSound
<1>1. TypeOK => RelationIsSound
  BY SubsumesIsSound, CommonRequestIntersects DEF TypeOK, RelationIsSound
<1> QED
  BY <1>1, TypeCorrect, PTL

-----------------------------------------------------------------------------
(* The ring that a rejected configuration is told. *)

\* The walk of findCycle starts when no rule is ready, stays among the rules that are not
\* out, and each of its steps goes to a predecessor.
WalkFits ==
    /\ at # 0 => at \in items \ emitted /\ Ready = {}
    /\ at = 0 => walk = <<>>
    /\ \A k \in 1..Len(walk) : RulePrecedes(IF k = Len(walk) THEN at ELSE walk[k + 1], walk[k])

RingFits ==
    ring # <<>> =>
      \A k \in 1..Len(ring) :
        RulePrecedes(ring[k], IF k = Len(ring) THEN ring[1] ELSE ring[k + 1])

\* Among rules of which none is ready, each has a predecessor that is not out either.
LEMMA WalkGoesOn ==
    ASSUME WalkFits, at # 0
    PROVE  Left # {}
  BY DEF WalkFits, Ready, Left

\* A step that leaves the rules, the sort and the search alone keeps both.
LEMMA SameSearch ==
    ASSUME WalkFits, RingFits, UNCHANGED <<document, searching>>,
           at # 0 => UNCHANGED <<items, emitted>>
    PROVE  WalkFits' /\ RingFits'
<1>1. match' = match /\ overrides' = overrides /\ walk' = walk /\ at' = at /\ ring' = ring
  BY DEF document, searching
<1>2. RingFits'
  BY <1>1 DEF RingFits, RulePrecedes
<1>3. at # 0 => at' \in items' \ emitted' /\ Ready' = {}
  BY <1>1 DEF WalkFits, Ready, Predecessors, RulePrecedes
<1>4. \A k \in 1..Len(walk') :
        RulePrecedes(IF k = Len(walk) THEN at ELSE walk[k + 1], walk[k])'
  BY <1>1 DEF WalkFits, RulePrecedes
<1> QED
  BY <1>1, <1>2, <1>3, <1>4 DEF WalkFits

\* The walk starts.
LEMMA StuckWalks ==
    ASSUME TypeOK, WalkFits, RingFits, NEW i \in Rules, Stuck(i)
    PROVE  WalkFits' /\ RingFits'
<1>1. /\ at = 0 /\ walk = <<>> /\ at' = i /\ walk' = walk /\ ring' = ring /\ items' = items
      /\ emitted' = emitted /\ match' = match /\ overrides' = overrides
      /\ Ready = {} /\ i \in items \ emitted
  BY DEF Stuck, Sorting, IsLeast, document, sorting, WalkFits
<1>2. RingFits'
  BY <1>1 DEF RingFits, RulePrecedes
<1>3. Ready' = {}
  BY <1>1 DEF Ready, Predecessors, RulePrecedes
<1>4. 1..Len(walk') = {} /\ i # 0
  BY <1>1, RulesAssumption DEF Rules
<1> QED
  BY <1>1, <1>2, <1>3, <1>4 DEF WalkFits

\* The walk goes on to a predecessor.
LEMMA WalkWalks ==
    ASSUME TypeOK, WalkFits, RingFits, NEW i \in Rules, Walk(i)
    PROVE  WalkFits' /\ RingFits'
<1>1. /\ at # 0 /\ at' = i /\ walk' = Append(walk, at) /\ ring' = ring /\ items' = items
      /\ emitted' = emitted /\ match' = match /\ overrides' = overrides
      /\ i \in Predecessors(at) \ emitted
  BY DEF Walk, Searching, IsLeast, Left, document, sorting
<1>2. RingFits'
  BY <1>1 DEF RingFits, RulePrecedes
<1>3. Ready' = {} /\ i \in items' \ emitted'
  BY <1>1 DEF Ready, Predecessors, RulePrecedes, WalkFits
<1>4. walk \in Seq(Rules) /\ Len(walk) \in Nat /\ Len(walk') = Len(walk) + 1
  BY <1>1 DEF TypeOK
<1>5. /\ \A k \in 1..Len(walk) : walk'[k] = walk[k]
      /\ walk'[Len(walk) + 1] = at
  BY <1>1, <1>4
<1>6. \A k \in 1..Len(walk') :
        RulePrecedes(IF k = Len(walk') THEN i ELSE walk'[k + 1], walk'[k])
  <2> SUFFICES ASSUME NEW k \in 1..Len(walk')
               PROVE  RulePrecedes(IF k = Len(walk') THEN i ELSE walk'[k + 1], walk'[k])
    OBVIOUS
  <2>1. CASE k = Len(walk) + 1
    <3>1. RulePrecedes(i, at)
      BY <1>1 DEF Predecessors
    <3> QED
      BY <1>4, <1>5, <2>1, <3>1
  <2>2. CASE k = Len(walk) /\ k \in 1..Len(walk)
    <3>1. RulePrecedes(at, walk[k])
      BY <2>2 DEF WalkFits
    <3> QED
      BY <1>4, <1>5, <2>2, <3>1
  <2>3. CASE k # Len(walk) /\ k \in 1..Len(walk)
    <3>1. RulePrecedes(walk[k + 1], walk[k]) /\ k + 1 \in 1..Len(walk) /\ k # Len(walk')
      BY <1>4, <2>3 DEF WalkFits
    <3> QED
      BY <1>5, <2>3, <3>1
  <2> QED
    BY <1>4, <2>1, <2>2, <2>3
<1>7. \A a, b : RulePrecedes(a, b)' <=> RulePrecedes(a, b)
  BY <1>1 DEF RulePrecedes
<1>8. i # 0
  BY RulesAssumption DEF Rules
<1> QED
  BY <1>1, <1>2, <1>3, <1>6, <1>7, <1>8 DEF WalkFits

\* The walk has come back: what lies between, read backwards, is a cycle.
LEMMA CycleIsOne ==
    ASSUME TypeOK, WalkFits, RingFits, Cycle
    PROVE  WalkFits' /\ RingFits'
<1>0. /\ at # 0 /\ at' = at /\ walk' = walk /\ items' = items
      /\ emitted' = emitted /\ match' = match /\ overrides' = overrides /\ at \in Range(walk)
      /\ ring' = Reverse(SubSeq(walk, CHOOSE k \in 1..Len(walk) : walk[k] = at, Len(walk)))
  BY DEF Cycle, Searching, document, sorting
<1>1. \A a, b : RulePrecedes(a, b)' <=> RulePrecedes(a, b)
  BY <1>0 DEF RulePrecedes
<1>2. WalkFits'
  <2>1. Ready' = Ready
    BY <1>0 DEF Ready, Predecessors, RulePrecedes
  <2> QED
    BY <1>0, <1>1, <2>1 DEF WalkFits
<1>3. PICK from : from = CHOOSE k \in 1..Len(walk) : walk[k] = at
  OBVIOUS
<1>4. walk \in Seq(Rules) /\ Len(walk) \in Nat /\ from \in 1..Len(walk) /\ walk[from] = at
  BY <1>0, <1>3 DEF TypeOK, Range
<1>5. PICK part : part = SubSeq(walk, from, Len(walk))
  OBVIOUS
<1>6. PICK n \in Nat : n = Len(walk) - from + 1 /\ from + n - 1 = Len(walk) /\ n > 0 /\ n <= Len(walk)
  BY <1>4
<1>7. /\ n \in Nat /\ n > 0 /\ part \in Seq(Rules) /\ Len(part) = n
      /\ \A k \in 1..n : part[k] = walk[from + k - 1]
  BY <1>4, <1>5, <1>6
<1>8. /\ Len(ring') = n
      /\ \A k \in 1..n : ring'[k] = walk[Len(walk) + 1 - k]
  <2>1. ring' = [k \in 1..n |-> part[(n - k) + 1]]
    <3>1. ring' = Reverse(part)
      BY <1>0, <1>3, <1>5
    <3> QED
      BY <1>7, <3>1 DEF Reverse
  <2>2. \A k \in 1..n : (n - k) + 1 \in 1..n /\ from + ((n - k) + 1) - 1 = Len(walk) + 1 - k
    BY <1>4, <1>6, <1>7
  <2>3. \A k \in 1..n : ring'[k] = walk[Len(walk) + 1 - k]
    BY <1>7, <2>1, <2>2
  <2>4. \A k \in 1..n : part[(n - k) + 1] \in Rules
    BY <1>7, <2>2
  <2>5. ring' \in [1..n -> Rules]
    BY <2>1, <2>4
  <2>6. ring' \in Seq(Rules) /\ Len(ring') = n
    BY <1>7, <2>5
  <2> QED
    BY <2>3, <2>6
<1>9. ASSUME NEW k \in 1..n
      PROVE  RulePrecedes(ring'[k], IF k = n THEN ring'[1] ELSE ring'[k + 1])
  <2>1. CASE k = n
    <3>1. /\ Len(walk) \in 1..Len(walk) /\ 1 \in 1..n
          /\ Len(walk) + 1 - n = from /\ Len(walk) + 1 - 1 = Len(walk)
      BY <1>4, <1>6
    <3>3. ring'[k] = at /\ ring'[1] = walk[Len(walk)]
      BY <1>4, <1>8, <2>1, <3>1
    <3>2. RulePrecedes(at, walk[Len(walk)])
      BY <3>1 DEF WalkFits
    <3> QED
      BY <2>1, <3>2, <3>3
  <2>2. CASE k # n
    <3>0. PICK m \in Nat : m = Len(walk) /\ n <= m
      BY <1>4, <1>6
    <3>1. PICK l \in Nat : l = m - k
      <4>1. m - k \in Nat
        BY <3>0
      <4> QED
        BY <4>1
    <3>2. /\ l \in 1..Len(walk) /\ l # Len(walk) /\ k + 1 \in 1..n
          /\ Len(walk) + 1 - k = l + 1 /\ Len(walk) + 1 - (k + 1) = l
      <4>1. l \in 1..m /\ l # m /\ k + 1 \in 1..n /\ m + 1 - k = l + 1 /\ m + 1 - (k + 1) = l
        BY <2>2, <3>0, <3>1
      <4> QED
        BY <3>0, <4>1
    <3>3. RulePrecedes(walk[l + 1], walk[l])
      BY <3>2 DEF WalkFits
    <3>4. ring'[k] = walk[l + 1] /\ ring'[k + 1] = walk[l]
      BY <1>8, <3>2
    <3> QED
      BY <2>2, <3>3, <3>4
  <2> QED
    BY <2>1, <2>2
<1>10. RingFits'
  BY <1>1, <1>8, <1>9 DEF RingFits
<1> QED
  BY <1>2, <1>10

\* A configuration rejected for a cycle is told a real one: each rule of the ring is tried
\* before the next and the last before the first, and findCycle never loses its way.
THEOREM RingIsReal == Spec => []RingIsACycle
<1>1. Init => WalkFits /\ RingFits
  BY DEF Init, WalkFits, RingFits
<1>2. Inv /\ WalkFits /\ RingFits /\ [Next]_vars => WalkFits' /\ RingFits'
  <2> SUFFICES ASSUME Inv, WalkFits, RingFits, [Next]_vars PROVE WalkFits' /\ RingFits'
    OBVIOUS
  <2>0. TypeOK /\ (phase = "ready" => at = 0)
    BY DEF Inv, PhaseFits
  <2>1. ASSUME NEW i \in Rules, Emit(i) \/ Stuck(i) \/ Walk(i) PROVE WalkFits' /\ RingFits'
    <3>1. ASSUME Emit(i) PROVE at = 0 /\ UNCHANGED <<document, searching>>
      BY <3>1 DEF Emit, Sorting
    <3> QED
      BY <2>0, <2>1, <3>1, SameSearch, StuckWalks, WalkWalks
  <2>2. ASSUME NEW q \in Requests, Ask(q) PROVE WalkFits' /\ RingFits'
    <3>1. at = 0 /\ UNCHANGED <<document, searching>>
      BY <2>0, <2>2 DEF Ask
    <3> QED
      BY <3>1, SameSearch
  <2>3. CASE Load \/ Decide \/ UNCHANGED vars
    <3>1. UNCHANGED <<document, searching, items, emitted>>
      BY <2>3 DEF Load, Decide, vars, sorting, document, searching
    <3> QED
      BY <3>1, SameSearch
  <2>4. CASE Cycle
    BY <2>0, <2>4, CycleIsOne
  <2> QED
    BY <2>1, <2>2, <2>3, <2>4 DEF Next
<1>3. WalkFits /\ RingFits => RingIsACycle
  BY WalkGoesOn DEF RingFits, RingIsACycle
<1> QED
  BY <1>1, <1>2, <1>3, InvHolds, PTL DEF Spec
=============================================================================
