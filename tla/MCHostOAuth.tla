---------------------------- MODULE MCHostOAuth ----------------------------
(***************************************************************************)
(* HostOAuth for TLC: two sessions that share one login.                   *)
(***************************************************************************)
EXTENDS HostOAuth, TLC

CONSTANTS p1, p2

TwoProcs == {p1, p2}

\* The sessions are interchangeable; no liveness property is checked.
SwapProcs == Permutations(TwoProcs)

\* The login of Codex is refreshed twice, so that a token can be overwritten
\* by the retry of an older write; Claude's once.  The login that replaces it
\* is not refreshed.
GenBounds == [f \in Flavors |-> <<IF f = "codex" THEN 3 ELSE 2, 1>>]

\* Both of Claude's locks can be taken from a live holder only with two
\* incidents.
IncidentBounds == [f \in Flavors |-> IF f = "claude" THEN 2 ELSE 1]
=============================================================================
