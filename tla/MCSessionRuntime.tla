-------------------------- MODULE MCSessionRuntime --------------------------
(* Instances of SessionRuntime for TLC.                                    *)
EXTENDS SessionRuntime

CONSTANTS p1, p2, s1

\* Two processes that are given the same session id.
TwoProcs == {p1, p2}
SameId == [p \in TwoProcs |-> s1]

\* One process.
OneProc == {p1}
ItsId == [p \in OneProc |-> s1]
=============================================================================
