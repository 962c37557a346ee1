-------------------------- MODULE PortPermissions --------------------------
(***************************************************************************)
(* What the port forwarding of a session promises about the host's ports:  *)
(* a container port reaches the host port it was last mapped to, only      *)
(* while that mapping stands, and taking the mapping back cuts the         *)
(* connections made through it in the same step.                           *)
(***************************************************************************)
CONSTANTS
    Ports,      \* ports of the container
    HostPorts,  \* ports of the host
    NoPort      \* no mapping

VARIABLES
    wanted,     \* the host port each container port may reach, or NoPort
    streams     \* the connections that are open, as pairs of ports

vars == <<wanted, streams>>

Stream == [port : Ports, host : HostPorts]

TypeOK ==
    /\ wanted \in [Ports -> HostPorts \cup {NoPort}]
    /\ streams \subseteq Stream

Init ==
    /\ wanted = [c \in Ports |-> NoPort]
    /\ streams = {}

\* Mappings are made for ports that have none.
Map(C) ==
    /\ \A c \in C : wanted[c] = NoPort
    /\ \E f \in [C -> HostPorts] :
        wanted' = [c \in Ports |-> IF c \in C THEN f[c] ELSE wanted[c]]
    /\ UNCHANGED streams

\* Mappings are taken back, together with what was opened through them.
Revoke(C) ==
    /\ wanted' = [c \in Ports |-> IF c \in C THEN NoPort ELSE wanted[c]]
    /\ streams' \subseteq {s \in streams : s.port \notin C}

\* A connection is made along a mapping.
Open(c) ==
    /\ wanted[c] # NoPort
    /\ streams' = streams \cup {[port |-> c, host |-> wanted[c]]}
    /\ UNCHANGED wanted

Next ==
    \/ \E C \in SUBSET Ports : Map(C) \/ Revoke(C)
    \/ \E c \in Ports : Open(c)

Spec == Init /\ [][Next]_vars
=============================================================================
