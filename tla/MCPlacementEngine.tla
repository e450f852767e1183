-------------------------- MODULE MCPlacementEngine --------------------------
(***************************************************************************)
(* A pool of nodes that differ from a first one in one thing each, or, for *)
(* n4, in what makes up for a missing label, and constraints that bring    *)
(* each branch of the strategies into play, one of them with more regions  *)
(* than there are different scores.                                        *)
(***************************************************************************)
EXTENDS PlacementEngine

CONSTANTS n1, n2, n3, n4, n5, east, west, ssd

Base == [name |-> n1, region |-> east, tier |-> "secondary", power |-> "medium",
         labels |-> {ssd}, cpu |-> 4000, memory |-> 200]

MCNodeSet ==
    {Base,
     [Base EXCEPT !.name = n2, !.region = west],
     [Base EXCEPT !.name = n3, !.tier = None],
     [Base EXCEPT !.name = n4, !.labels = {}, !.region = west, !.cpu = 64000,
                  !.power = "high"],
     [Base EXCEPT !.name = n5, !.region = None, !.tier = "primary", !.power = "low"]}

Free == [regions |-> << >>, tiers |-> << >>, avoid |-> {}, require |-> {}]

MCConstraints ==
    {Free,
     [Free EXCEPT !.regions = <<west, east>>],
     [Free EXCEPT !.regions = <<"r1", "r2", "r3", "r4", west, east>>],
     [Free EXCEPT !.regions = <<east>>, !.tiers = <<"secondary", "primary", "tertiary">>],
     [Free EXCEPT !.tiers = <<"tertiary", "primary">>, !.avoid = {n1, n5}],
     [Free EXCEPT !.require = {ssd}, !.regions = <<west>>]}

MCWeights == {-1, 0, 25, 35, 40}

=============================================================================
