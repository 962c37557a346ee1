--------------------------- MODULE MCHostExecBroker ---------------------------
(* Instances of HostExecBroker for TLC. *)
EXTENDS HostExecBroker

Command(k, a) == [key |-> k, approval |-> a]

\* One capability behind a rule that asks, one behind a rule that allows, one that a
\* rule denies and one that no rule matches.
EveryRule == {Command("ask", "prompt"), Command("open", "allow"), Command("shut", "deny"),
              Command("other", "none")}

\* One capability that several requests share.
OneCapability == {Command("ask", "prompt")}

\* Bound of the liveness run: close() begins before a peer leaves or after the cleanup
\* that follows is over.  Only peers and close() are held back, which no fairness obliges.
CleanupBeforeClose ==
    closing # "open" =>
      deferred = {} /\ \A r \in Requests : cleanup[r] \in {"none", "done", "failed"}
=============================================================================
