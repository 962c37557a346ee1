--------------------------- MODULE MCNetworkBroker ---------------------------
(* Instances of NetworkBroker for TLC. *)
EXTENDS NetworkBroker, TLC

Auth(action, rule, reason, host, port) ==
    [kind |-> "authorize", principal |-> "agent", blocked |-> FALSE, injects |-> FALSE,
     action |-> action, rule |-> rule, reason |-> reason, host |-> host, port |-> port]

Finding(e, v) == [expect |-> e, value |-> v, approvable |-> TRUE]

Viol(rule, findings) ==
    [kind |-> "violation", principal |-> "agent", rule |-> rule, findings |-> findings]

\* One rule that asks for two reasons and at two ports of one host, one that is pinned
\* to its target, and what the broker settles without asking: by policy, because the
\* target is blocked, because docker-in-docker may not ask.
AuthorizeMessages ==
    {Auth("review", "wild", "rule", "h", 1),
     Auth("review", "wild", "rule", "h", 2),
     Auth("review", "wild", "indeterminate", "h", 1),
     Auth("review", "pinned", "rule", "h", 1),
     Auth("allow", "open", "rule", "h", 1),
     Auth("deny", "shut", "rule", "h", 1),
     [Auth("allow", "open", "rule", "h", 1) EXCEPT !.blocked = TRUE],
     [Auth("allow", "open", "rule", "h", 1) EXCEPT !.injects = TRUE],
     [Auth("review", "wild", "rule", "h", 1) EXCEPT !.principal = "dind"]}

\* Violations of two expectations of one rule, alone and together, next to one that is
\* only recorded, one whose value is a per-request UUID and one that cannot be
\* approved; and a question about the rule itself.
ViolationMessages ==
    {Viol("wild", {Finding(1, "v")}),
     Viol("wild", {Finding(1, "v"), Finding(2, "v"), Finding(0, "v")}),
     Viol("wild", {Finding(1, "uuid")}),
     Viol("wild", {Finding(0, "v")}),
     Viol("wild", {[Finding(1, "w") EXCEPT !.approvable = FALSE]}),
     [Viol("wild", {Finding(1, "v")}) EXCEPT !.principal = "dind"],
     Auth("review", "wild", "rule", "h", 1)}

Recorded == {<<"wild", 0>>}

\* Both kinds next to each other.
AllMessages == AuthorizeMessages \cup ViolationMessages

\* One question that several requests share.
OneQuestion == {Auth("review", "wild", "rule", "h", 1)}

\* One question whose target carries the host's credential.
CredentialQuestion == {[Auth("review", "wild", "rule", "h", 1) EXCEPT !.injects = TRUE]}

Symmetry == Permutations(Requests) \cup Permutations(Presses)
=============================================================================
