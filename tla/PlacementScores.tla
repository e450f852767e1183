--------------------------- MODULE PlacementScores ---------------------------
(***************************************************************************)
(* The scoring strategies of pkg/placement/strategy and the weighted       *)
(* choice of pkg/placement/engine.go, as pure operators.                   *)
(*                                                                         *)
(* A node is a record [name, region, tier, power, labels, cpu, memory]:    *)
(* region, tier and power are the values of its labels or None, labels is  *)
(* the set of the other <<key, value>> labels, cpu is the allocatable CPU  *)
(* in millicores, memory the allocatable memory in bytes.  A constraint is *)
(* a record [regions, tiers, avoid, require]: two sequences in priority    *)
(* order, a set of node names, a set of <<key, value>> labels.             *)
(*                                                                         *)
(* The code scores with floats between 0 and 100.  Every score here is the *)
(* same number times a fixed factor, so that it is an integer: 1 for the   *)
(* geographic, 2000 for the resource, 10 for the tier strategy.            *)
(***************************************************************************)
EXTENDS Integers, FiniteSets, Sequences

CONSTANT None   \* a label the node does not carry

AtLeast(a, b) == IF a > b THEN a ELSE b
AtMost(a, b) == IF a < b THEN a ELSE b

\* The places at which v stands in the preference list.
Places(v, list) == {i \in DOMAIN list : list[i] = v}
First(places) == CHOOSE i \in places : \A j \in places : i <= j

\* Mutant: the order of the preferred regions does not matter.
GeographicFlat(n, c) ==
    IF c.regions = << >> THEN 50
    ELSE IF n.region = None THEN 10
    ELSE IF Places(n.region, c.regions) = {} THEN 15 ELSE 100

Geographic(n, c) ==
    IF c.regions = << >> THEN 50
    ELSE IF n.region = None THEN 10
    ELSE IF Places(n.region, c.regions) = {} THEN 15
    ELSE AtLeast(120 - 20 * First(Places(n.region, c.regions)), 20)

\* The controllers pass no resource requirements, so a resource scores by what
\* is available: CPU counts cores and memory counts bytes, each up to 100.
Resource(n) == AtMost(n.cpu, 100000) + 1000 * AtMost(n.memory, 100)

\* 0 for a node to avoid or without a required label.
TierBase(n, c) ==
    IF c.tiers # << >>
      THEN IF Places(n.tier, c.tiers) = {} THEN 50
           ELSE AtLeast(125 - 25 * First(Places(n.tier, c.tiers)), 25)
      ELSE CASE n.tier = "primary" -> 90
             [] n.tier = "secondary" -> 70
             [] OTHER -> 50
Power(n) == CASE n.power = "high" -> 11 [] n.power = "low" -> 8 [] OTHER -> 10
Tier(n, c) ==
    IF n.name \in c.avoid \/ ~(c.require \subseteq n.labels) THEN 0
    ELSE AtMost(TierBase(n, c) * Power(n), 1000)

\* The weighted sum, times 2000.  weights[s] is 0 for a strategy that is not
\* registered; the division by the sum of the weights changes no comparison.
Score(weights, n, c) ==
      2000 * weights["geographic"] * Geographic(n, c)
    + weights["resource"] * Resource(n)
    + 200 * weights["tier"] * Tier(n, c)

\* What main.go registers.
MainWeights == [geographic |-> 40, resource |-> 35, tier |-> 25]

\* Mutant: the nodes are not sorted.
Unsorted(weights, nodes, c) == {n \in nodes : Score(weights, n, c) > 0}

\* The nodes SelectNode keeps, and those it may put first: sort.Slice is not
\* stable and the list order of the cache is arbitrary.
Suitable(weights, nodes, c) == {n \in nodes : Score(weights, n, c) > 0}
Best(weights, nodes, c) ==
    {n \in Suitable(weights, nodes, c) :
        \A m \in nodes : Score(weights, m, c) <= Score(weights, n, c)}

=============================================================================
