--------------------------- MODULE MCPortForwards ---------------------------
(* Instances of PortForwards for TLC.                                      *)
EXTENDS PortForwards

Own(h, o) == [host |-> h, owners |-> o]

\* No forward; one of each direction, the local one shared with nas itself;
\* and a pair that forms a loop.
FewInitial ==
    { [k \in {} |-> Own(1, {"config"})],
      [k \in Keys |-> IF k = Remote(1) THEN Own(1, {"config"})
                                       ELSE Own(2, {"config", "internal"})],
      [k \in Keys |-> Own(1, {"config"})] }
=============================================================================
