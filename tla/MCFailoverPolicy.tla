--------------------------- MODULE MCFailoverPolicy ---------------------------
(***************************************************************************)
(* Small instances of FailoverPolicy: the specs of the policies.           *)
(***************************************************************************)
EXTENDS FailoverPolicy, TLC

CONSTANTS w1, w2, east

MCRegions == {east}

Policy(strategy, node, workload, outage) ==
    [enabled |-> TRUE, node |-> node, workload |-> workload, outage |-> outage,
     strategy |-> strategy, notify |-> {"start", "complete"},
     severity |-> 2, targets |-> {}]

Immediate == Policy("immediate", 1, 0, FALSE)
Graceful == Policy("graceful", 0, 0, TRUE)
Manual == Policy("manual", 1, 0, FALSE)

MCStrategies == {Graceful, [Immediate EXCEPT !.targets = Workloads]}
MCLasting == {Immediate, Manual, [Immediate EXCEPT !.enabled = FALSE]}
MCGraceful == {[Graceful EXCEPT !.node = 1, !.outage = FALSE]}
MCByWorkload == {Policy("immediate", 0, 1, FALSE)}

\* A workload with nothing but its reference, and one with everything, two switches off.
Bare == [on |-> {"notification"}, durations |-> "absent", address |-> "absent",
         rest |-> "as created"]
Full == [on |-> {"endpoint", "notification"}, durations |-> "set", address |-> "set",
         rest |-> "edited"]
MCWorkloadSpecs == {Bare, Full}

\* Users write the other specs, and workloads that are not placed yet, later; every
\* node is in a region.
BareInit ==
    /\ Init
    /\ \A w \in Workloads : stored[w].spec = Bare /\ stored[w].node \in Nodes
    /\ region \in [Nodes -> Regions]
BareSpec == BareInit /\ [][Next]_vars

AnyOrder == Permutations({w1, w2})

=============================================================================
