---------------------------- MODULE MCPullWakes ----------------------------
(* PullWakes for TLC: two pulls beside a push on one instance, or a pull   *)
(* on one and two pushes on the other.                                     *)
EXTENDS PullWakes, TLC

CONSTANTS i1, i2, w1, w2, p1, p2

MCInstances == {i1, i2}
MCPushes == {w1, w2}
MCPulls == {p1, p2}
MCRoutes ==
    {w1 :> i1 @@ p1 :> i1 @@ p2 :> i1,
     w1 :> i2 @@ w2 :> i2 @@ p1 :> i1}

=============================================================================
