--------------------------- MODULE PlacementEngine ---------------------------
(***************************************************************************)
(* The placement engine (pkg/placement/engine.go): strategies are          *)
(* registered under a lock, SelectNode ranks candidate nodes with the      *)
(* strategies registered so far, ValidatePlacement re-checks a node.  Each *)
(* call works on a snapshot taken under the lock, so a call is one step.   *)
(***************************************************************************)
EXTENDS PlacementScores

CONSTANTS
    NodeSet,      \* node records that may be candidates
    Constraints,  \* constraints that may be passed
    Weights       \* weights RegisterStrategy may be called with

\* Records of the fields PlacementScores reads; preferences are lists, and list no
\* missing label.
Fields == {"name", "region", "tier", "power", "labels", "cpu", "memory"}
Listed(list) == {list[i] : i \in DOMAIN list}

ASSUME PlacementAssumption ==
    /\ \A n \in NodeSet : DOMAIN n = Fields /\ n.cpu \in Nat /\ n.memory \in Nat
    /\ \A c \in Constraints :
          /\ c.regions \in Seq(Listed(c.regions)) /\ None \notin Listed(c.regions)
          /\ c.tiers \in Seq(Listed(c.tiers)) /\ None \notin Listed(c.tiers)
    /\ Weights \subseteq Int

Names == {"geographic", "resource", "tier"}
NoCall == [op |-> "none"]

VARIABLES
    strategies,  \* the registered names and their weights
    call         \* the call being answered and its result

vars == <<strategies, call>>

\* An unregistered strategy contributes as one of weight 0 does.
WeightOf == [s \in Names |-> IF s \in DOMAIN strategies THEN strategies[s] ELSE 0]

Init == strategies = << >> /\ call = NoCall

\* Mutant: the weight is not checked.
RegisterUnchecked(s, weight) ==
    LET ok == s \notin DOMAIN strategies
    IN  /\ call = NoCall
        /\ strategies' = IF ~ok THEN strategies
                         ELSE [t \in DOMAIN strategies \cup {s} |->
                                 IF t = s THEN weight ELSE strategies[t]]
        /\ call' = [op |-> "register", ok |-> ok]

\* A negative weight or a name already registered is an error.
RegisterStrategy(s, weight) ==
    LET ok == weight >= 0 /\ s \notin DOMAIN strategies
    IN  /\ call = NoCall
        /\ strategies' = IF ~ok THEN strategies
                         ELSE [t \in DOMAIN strategies \cup {s} |->
                                 IF t = s THEN weight ELSE strategies[t]]
        /\ call' = [op |-> "register", ok |-> ok]

\* SelectNode ranks the suitable nodes; the first is the target, up to three
\* more are the alternates.  Nodes of equal score come in any order.
SelectNode(nodes, c) ==
    LET suitable == Suitable(WeightOf, nodes, c)
        score(n) == Score(WeightOf, n, c)
    IN  /\ call = NoCall
        /\ \/ /\ suitable = {}
              /\ call' = [op |-> "error", nodes |-> nodes, constraint |-> c]
           \/ \E target \in Best(WeightOf, nodes, c) :
              \E alternates \in SUBSET (suitable \ {target}) :
                 /\ Cardinality(alternates) = AtMost(Cardinality(suitable) - 1, 3)
                 /\ \A n \in alternates, m \in suitable \ alternates :
                       m # target => score(m) <= score(n)
                 /\ call' = [op |-> "select", nodes |-> nodes, constraint |-> c,
                             target |-> target, alternates |-> alternates]
        /\ UNCHANGED strategies

\* ValidatePlacement scores a node of which it knows only the name: no labels
\* and no resources.
Bare(n) == [name |-> n.name, region |-> None, tier |-> None, power |-> None,
            labels |-> {}, cpu |-> 0, memory |-> 0]
StrategyScore(s, n, c) ==
    CASE s = "geographic" -> Geographic(n, c)
      [] s = "resource" -> Resource(n)
      [] s = "tier" -> Tier(n, c)

\* The node a call placed on is validated against the same constraint.
ValidatePlacement ==
    /\ call.op = "select"
    /\ call' = [op |-> "validate", node |-> call.target, constraint |-> call.constraint,
                ok |-> \A s \in DOMAIN strategies :
                          StrategyScore(s, Bare(call.target), call.constraint) > 0]
    /\ UNCHANGED strategies

\* The caller takes the result and goes on.
Return == call # NoCall /\ call' = NoCall /\ UNCHANGED strategies

Next ==
    \/ Return
    \/ \E s \in Names, weight \in Weights : RegisterStrategy(s, weight)
    \/ \E nodes \in SUBSET NodeSet, c \in Constraints : SelectNode(nodes, c)
    \/ ValidatePlacement

Spec == Init /\ [][Next]_vars

----------------------------------------------------------------------------
TypeOK ==
    /\ DOMAIN strategies \subseteq Names
    /\ \A s \in DOMAIN strategies : strategies[s] \in Weights /\ strategies[s] >= 0
    /\ call.op \in {"none", "register", "error", "select", "validate"}

\* No candidate left out beats the target: whatever the weights, a node that is
\* at least as good for every registered strategy and better for one of them
\* with a positive weight would have been chosen.
Dominates(m, n, c) ==
    /\ \A s \in DOMAIN strategies : StrategyScore(s, m, c) >= StrategyScore(s, n, c)
    /\ \E s \in DOMAIN strategies :
          strategies[s] > 0 /\ StrategyScore(s, m, c) > StrategyScore(s, n, c)
TargetUndominated ==
    call.op = "select" =>
       ~ \E m \in call.nodes : Dominates(m, call.target, call.constraint)

\* Preferences decide between nodes that differ in nothing else.  With the geographic
\* strategy weighted, a listed region beats one that is not listed or missing, and one
\* of the first four beats all that come later; the score stops falling at the fifth.
\* With the tier strategy weighted, a listed tier beats a later one if it is one of the
\* first three, and one that is not listed only if it is the first or second.
Prefers(list, v, u, alone, before) ==
    LET places(w) == Places(w, list)
    IN  /\ places(v) # {}
        /\ IF places(u) = {} THEN First(places(v)) <= alone
           ELSE First(places(v)) < First(places(u)) /\ First(places(v)) <= before
Same(m, n, field) == \A f \in DOMAIN m \ {field, "name"} : m[f] = n[f]
PreferenceDecides ==
    call.op = "select" =>
      LET c == call.constraint
          t == call.target
      IN  \A m \in call.nodes :
            (m.name \in c.avoid <=> t.name \in c.avoid) =>
              /\ Same(m, t, "region") /\ WeightOf["geographic"] > 0 =>
                    ~Prefers(c.regions, m.region, t.region, Len(c.regions), 4)
              /\ /\ Same(m, t, "tier") /\ WeightOf["tier"] > 0
                 /\ t.name \notin c.avoid /\ c.require \subseteq t.labels
                 => ~Prefers(c.tiers, m.tier, t.tier, 2, 3)

----------------------------------------------------------------------------
\* api/v1alpha1/regionalworkload_types.go:32: "RequireLabels specifies labels that
\* target nodes must have"; pkg/placement/interfaces.go:59: "Returns 0 if node is
\* unsuitable".  With the weights of main.go, a candidate that lacks a required label is
\* at least not chosen while another candidate has them all.  Only the tier strategy
\* looks at the labels, and its 0 is one term of a sum that the others outweigh.
RequiredLabelsHold ==
    call.op = "select" /\ strategies = MainWeights =>
       LET require == call.constraint.require
       IN  \/ require \subseteq call.target.labels
           \/ \A m \in call.nodes : ~(require \subseteq m.labels)

=============================================================================
