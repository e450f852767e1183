------------------------- MODULE MCRegionalWorkload -------------------------
(***************************************************************************)
(* Small instances of RegionalWorkload: two nodes of which one is          *)
(* preferred, and specs that bring each branch of the handler into play.   *)
(***************************************************************************)
EXTENDS RegionalWorkload

CONSTANTS near, far, east, west, t1, w1

Node(name, region) ==
    [name |-> name, region |-> region, tier |-> "secondary", power |-> "medium",
     labels |-> {}, cpu |-> 4000, memory |-> 200]
Near == Node(near, east)
Far == Node(far, west)
MCNodes == {Near, Far}
MCOneNode == {Near}

PreferEast == [regions |-> <<east>>, tiers |-> << >>, avoid |-> {}, require |-> {}]

MCNames == {"primary", "PRIMARY!", "us"}
MCSanitized == [n \in MCNames |-> IF n = "PRIMARY!" THEN "primary" ELSE n]
MCDefaults == [enabled |-> TRUE, mode |-> "kube-vip", ip |-> "ip1", autoFailback |-> TRUE]

Silent == [enabled |-> FALSE, mode |-> "unset", ip |-> "unset",
           endpoints |-> << >>, autoFailback |-> FALSE]
Disabled == [Silent EXCEPT !.mode = "kube-vip", !.ip = "ip1"]
At(endpoints) == [Disabled EXCEPT !.enabled = TRUE, !.endpoints = endpoints,
                                  !.autoFailback = TRUE]

SpecWith(endpoint) == [ref |-> t1, constraint |-> PreferEast, endpoint |-> endpoint]

\* One Service from the manager's defaults, or at another address; two under other
\* names; the same name twice, which is invalid; no endpoint; a kind of target that is
\* not supported.
One == SpecWith(Silent)
Moved == SpecWith(At(<<[name |-> "us", ip |-> "ip2"]>>))
Two == SpecWith(At(<<[name |-> "primary", ip |-> "ip1"], [name |-> "us", ip |-> "ip2"]>>))
Twice == SpecWith(At(<<[name |-> "primary", ip |-> "ip1"], [name |-> "PRIMARY!", ip |-> "ip2"]>>))
Nowhere == SpecWith(Disabled)
Unsupported == [Nowhere EXCEPT !.ref = "unsupported"]

MCSpecs == {One, Two, Moved, Twice, Nowhere, Unsupported}
MCFew == {Two, Nowhere}

\* The ports of two containers: the second has the first one's, which is dropped; or it
\* has another number under the name the first gets by default, which no Service may
\* have; one has nothing but a port without a number.
Port(name, number) == [name |-> name, protocol |-> "unset", number |-> number]
Shared == <<Port(<<"http">>, 80), Port(<<"http">>, 80), Port(<< >>, 443)>>
Clashing == <<Port(<< >>, 80), Port(<<"TCP", 80>>, 8080)>>
NoPorts == <<Port(<<"http">>, 0)>>

Target(optOut, pin, ready, ports) ==
    [optOut |-> optOut, pin |-> pin, ready |-> ready, desired |-> 1, ports |-> ports]
MCTargets == {Target(FALSE, None, 1, Shared), Target(TRUE, None, 0, Clashing)}
MCPortTargets == {Target(FALSE, None, 1, ports) : ports \in {Shared, NoPorts, Clashing}}

\* A Service of somebody else, and one that carries the label but was made or changed
\* by hand.
ByHand(owned) ==
    [owned |-> owned, ip |-> "other",
     ports |-> {[name |-> <<"http">>, protocol |-> "TCP", number |-> 80]}]
MCForeign == {ByHand(FALSE)}
MCRelabelled == {ByHand(TRUE)}

\* All nodes and targets are there at first; they leave by NodeChanges and TargetChanges.
LiveInit == Init /\ nodes = NodeSet /\ \A t \in Targets : stored[t] # None
LiveSpec == LiveInit /\ [][Next]_vars /\ Fairness

=============================================================================
