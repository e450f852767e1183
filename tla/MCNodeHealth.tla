---------------------------- MODULE MCNodeHealth ----------------------------
(***************************************************************************)
(* Small instances of NodeHealth: the Node objects the environment may     *)
(* produce.                                                                *)
(***************************************************************************)
EXTENDS NodeHealth

CONSTANTS east, west

Fact(ready, pressure, heartbeat, address, percent, region) ==
    [ready |-> ready, pressure |-> pressure, heartbeat |-> heartbeat,
     address |-> address, free |-> [r \in Resources |-> percent],
     region |-> region]

MCRegions == {east, west}

\* An interval, and a negative one.
MCIntervals == {2, -1}
MCShortIntervals == {1, -1}

\* A node in order and a NotReady one.
Good == Fact("True", FALSE, "recent", TRUE, 100, east)
NotReady == Fact("False", FALSE, "stale", TRUE, 100, west)

MCFewFacts == {Good, NotReady}

\* One node for each answer a checker can give, at the thresholds: 14% free is
\* critical and 15% is not, 40% is pressure, no capacity counts as healthy;
\* one is degraded to one checker and unknown to another.
MCManyFacts ==
    {NotReady,
     Fact("Missing", FALSE, "recent", FALSE, 100, None),
     Fact("True", TRUE, "recent", TRUE, 100, west),
     [Good EXCEPT !.heartbeat = "stale", !.address = FALSE],
     [Good EXCEPT !.free["memory"] = 14, !.free["cpu"] = 40],
     [Good EXCEPT !.free["memory"] = 15],
     [Good EXCEPT !.free["storage"] = None, !.region = None]}

=============================================================================
