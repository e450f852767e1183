------------------------ MODULE PlacementEngine_proofs ------------------------
(***************************************************************************)
(* What the placement engine promises, for every set of nodes, every list  *)
(* of preferences and all weights: its types (TypeOK), that no candidate   *)
(* left out beats the target (TargetUndominated), and that preferences     *)
(* decide between nodes that differ in nothing else (PreferenceDecides).   *)
(*                                                                         *)
(* The invariant keeps what the answer of a call was computed from; the    *)
(* rest is that the weighted sum grows with each of its terms, and that    *)
(* each score falls along a list of preferences down to a floor.           *)
(***************************************************************************)
EXTENDS PlacementEngine, LeastElement, TLAPS

----------------------------------------------------------------------------
(* Products and the weighted sum. *)

\* A weight that is not negative keeps the order of two scores, a positive one also
\* keeps them apart.
LEMMA Weighted ==
    ASSUME NEW w \in Nat, NEW a \in Nat, NEW b \in Nat
    PROVE  /\ w * a \in Nat
           /\ a >= b => w * a >= w * b
           /\ w > 0 /\ a > b => w * a > w * b
           /\ w * a = 0 => w = 0 \/ a = 0
<1>1. w * a \in Nat /\ w * b \in Nat  OBVIOUS
<1>2. ASSUME a >= b PROVE w * a >= w * b
  <2>1. PICK d \in Nat : a = b + d
    <3>1. a - b \in Nat /\ a = b + (a - b)  BY <1>2
    <3> QED  BY <3>1
  <2>2. w * (b + d) = w * b + w * d /\ w * d \in Nat  BY <2>1
  <2> QED  BY <1>1, <2>1, <2>2
<1>3. ASSUME w > 0, a > b PROVE w * a > w * b
  <2>1. PICK d \in Nat : a = b + d + 1
    <3>1. a - b - 1 \in Nat /\ a = b + (a - b - 1) + 1  BY <1>3
    <3> QED  BY <3>1
  <2>2. w * (b + d + 1) = w * b + w * d + w /\ w * d \in Nat  BY <2>1
  <2> QED  BY <1>1, <1>3, <2>1, <2>2
<1>4. ASSUME w * a = 0, w # 0, a # 0 PROVE FALSE
  <2>1. PICK v \in Nat : w = v + 1
    <3>1. w - 1 \in Nat /\ w = (w - 1) + 1  BY <1>4
    <3> QED  BY <3>1
  <2>2. (v + 1) * a = v * a + a /\ v * a \in Nat  BY <2>1
  <2> QED  BY <1>4, <2>1, <2>2
<1> QED  BY <1>1, <1>2, <1>3, <1>4

\* A value that is listed has a first place.
LEMMA FirstPlace ==
    ASSUME NEW list, list \in Seq(Listed(list)), NEW v, Places(v, list) # {}
    PROVE  /\ First(Places(v, list)) \in 1 .. Len(list)
           /\ list[First(Places(v, list))] = v
<1>1. DOMAIN list = 1 .. Len(list) /\ Len(list) \in Nat  OBVIOUS
<1>2. Places(v, list) \subseteq Nat  BY <1>1 DEF Places
<1>3. \E i \in Places(v, list) : \A j \in Places(v, list) : i <= j
  BY <1>2, LeastElementExists
<1>4. First(Places(v, list)) \in Places(v, list)  BY <1>3 DEF First
<1> QED  BY <1>1, <1>4 DEF Places

\* Every score is a natural number.
LEMMA ScoreTypes ==
    ASSUME NEW n \in NodeSet, NEW c \in Constraints
    PROVE  Geographic(n, c) \in Nat /\ Resource(n) \in Nat /\ Tier(n, c) \in Nat
<1>0. /\ n.cpu \in Nat /\ n.memory \in Nat
      /\ c.regions \in Seq(Listed(c.regions)) /\ c.tiers \in Seq(Listed(c.tiers))
  BY PlacementAssumption
<1>1. Geographic(n, c) \in Nat
  <2>1. CASE Places(n.region, c.regions) # {}
    <3>1. PICK i : i = First(Places(n.region, c.regions))  OBVIOUS
    <3>2. i \in 1 .. Len(c.regions)  BY <1>0, <2>1, <3>1, FirstPlace
    <3>3. i \in Nat  BY <1>0, <3>2
    <3>4. AtLeast(120 - 20 * i, 20) \in Nat  BY <3>3 DEF AtLeast
    <3> QED  BY <2>1, <3>1, <3>4 DEF Geographic
  <2>2. CASE Places(n.region, c.regions) = {}
    BY <2>2 DEF Geographic
  <2> QED  BY <2>1, <2>2
<1>2. Resource(n) \in Nat  BY <1>0, SMTT(30) DEF Resource, AtMost
<1>3. Tier(n, c) \in Nat
  <2>1. Power(n) \in {11, 8, 10}  BY DEF Power
  <2>2. TierBase(n, c) \in Nat
    <3>1. CASE c.tiers # << >> /\ Places(n.tier, c.tiers) # {}
      <4>1. PICK i : i = First(Places(n.tier, c.tiers))  OBVIOUS
      <4>2. i \in 1 .. Len(c.tiers)  BY <1>0, <3>1, <4>1, FirstPlace
      <4>3. i \in Nat  BY <1>0, <4>2
      <4>4. AtLeast(125 - 25 * i, 25) \in Nat  BY <4>3 DEF AtLeast
      <4> QED  BY <3>1, <4>1, <4>4 DEF TierBase
    <3>2. CASE c.tiers # << >> /\ Places(n.tier, c.tiers) = {}
      BY <3>2 DEF TierBase
    <3>3. CASE c.tiers = << >>
      BY <3>3 DEF TierBase
    <3> QED  BY <3>1, <3>2, <3>3
  <2>3. AtMost(TierBase(n, c) * Power(n), 1000) \in Nat  BY <2>1, <2>2 DEF AtMost
  <2> QED  BY <2>3 DEF Tier
<1> QED  BY <1>1, <1>2, <1>3

\* What a strategy scores, by its name.
LEMMA StrategyScores ==
    ASSUME NEW n \in NodeSet, NEW c \in Constraints
    PROVE  /\ StrategyScore("geographic", n, c) = Geographic(n, c)
           /\ StrategyScore("resource", n, c) = Resource(n)
           /\ StrategyScore("tier", n, c) = Tier(n, c)
           /\ \A s \in Names : StrategyScore(s, n, c) \in Nat
<1>1. /\ StrategyScore("geographic", n, c) = Geographic(n, c)
      /\ StrategyScore("resource", n, c) = Resource(n)
      /\ StrategyScore("tier", n, c) = Tier(n, c)
  BY DEF StrategyScore
<1> QED  BY <1>1, ScoreTypes DEF Names

\* The terms of the weighted sum.
Term(weights, s, n, c) == weights[s] * StrategyScore(s, n, c)

\* The sum, written with its terms.
LEMMA ScoreTerms ==
    ASSUME NEW w \in [Names -> Nat], NEW n \in NodeSet, NEW c \in Constraints
    PROVE  /\ \A s \in Names : Term(w, s, n, c) \in Nat
           /\ Score(w, n, c) = 2000 * Term(w, "geographic", n, c)
                             + Term(w, "resource", n, c) + 200 * Term(w, "tier", n, c)
<1>1. PICK g, r, t \in Nat :
         /\ g = Geographic(n, c) /\ r = Resource(n) /\ t = Tier(n, c)
  BY ScoreTypes
<1>2. /\ w["geographic"] \in Nat /\ w["resource"] \in Nat /\ w["tier"] \in Nat
  BY DEF Names
<1>3. PICK wg, wr, wt \in Nat :
         /\ wg = w["geographic"] /\ wr = w["resource"] /\ wt = w["tier"]
  BY <1>2
<1>4. Score(w, n, c) = 2000 * wg * g + wr * r + 200 * wt * t
  BY <1>1, <1>3 DEF Score
<1>5. 2000 * wg * g + wr * r + 200 * wt * t = 2000 * (wg * g) + wr * r + 200 * (wt * t)
  OBVIOUS
<1>6. /\ Term(w, "geographic", n, c) = wg * g /\ Term(w, "resource", n, c) = wr * r
      /\ Term(w, "tier", n, c) = wt * t
  BY <1>1, <1>3, StrategyScores DEF Term
<1>7. wg * g \in Nat /\ wr * r \in Nat /\ wt * t \in Nat  OBVIOUS
<1>8. \A s \in Names : Term(w, s, n, c) \in Nat  BY <1>6, <1>7 DEF Names
<1> QED  BY <1>4, <1>5, <1>6, <1>8

\* A node that is as good for every weighted strategy, and better for one of them, has
\* a higher score.
LEMMA HigherScore ==
    ASSUME NEW w \in [Names -> Nat], NEW m \in NodeSet, NEW n \in NodeSet,
           NEW c \in Constraints,
           \A s \in Names : w[s] = 0 \/ StrategyScore(s, m, c) >= StrategyScore(s, n, c),
           NEW best \in Names, w[best] > 0,
           StrategyScore(best, m, c) > StrategyScore(best, n, c)
    PROVE  Score(w, m, c) > Score(w, n, c)
<1>1. ASSUME NEW s \in Names
      PROVE  Term(w, s, m, c) >= Term(w, s, n, c)
  <2>1. /\ w[s] \in Nat /\ StrategyScore(s, m, c) \in Nat /\ StrategyScore(s, n, c) \in Nat
    BY StrategyScores
  <2>2. CASE w[s] = 0
    <3>1. 0 * StrategyScore(s, m, c) = 0 /\ 0 * StrategyScore(s, n, c) = 0  BY <2>1
    <3> QED  BY <2>2, <3>1 DEF Term
  <2>3. CASE StrategyScore(s, m, c) >= StrategyScore(s, n, c)
    BY <2>1, <2>3, Weighted DEF Term
  <2> QED  BY <2>2, <2>3
<1>2. Term(w, best, m, c) > Term(w, best, n, c)
  <2>1. /\ w[best] \in Nat /\ StrategyScore(best, m, c) \in Nat
        /\ StrategyScore(best, n, c) \in Nat
    BY StrategyScores
  <2> QED  BY <2>1, Weighted DEF Term
<1>3. /\ \A s \in Names : Term(w, s, m, c) \in Nat /\ Term(w, s, n, c) \in Nat
      /\ Score(w, m, c) = 2000 * Term(w, "geographic", m, c)
                        + Term(w, "resource", m, c) + 200 * Term(w, "tier", m, c)
      /\ Score(w, n, c) = 2000 * Term(w, "geographic", n, c)
                        + Term(w, "resource", n, c) + 200 * Term(w, "tier", n, c)
  BY ScoreTerms
<1>4. "geographic" \in Names /\ "resource" \in Names /\ "tier" \in Names
      /\ best \in {"geographic", "resource", "tier"}
  BY DEF Names
<1>5. PICK g1, r1, t1 \in Nat :
         /\ g1 = Term(w, "geographic", m, c) /\ r1 = Term(w, "resource", m, c)
         /\ t1 = Term(w, "tier", m, c)
  BY <1>3, <1>4
<1>n. PICK g2, r2, t2 \in Nat :
         /\ g2 = Term(w, "geographic", n, c) /\ r2 = Term(w, "resource", n, c)
         /\ t2 = Term(w, "tier", n, c)
  BY <1>3, <1>4
<1>6. /\ g1 >= g2 /\ r1 >= r2 /\ t1 >= t2
      /\ g1 > g2 \/ r1 > r2 \/ t1 > t2
  BY <1>1, <1>2, <1>4, <1>5, <1>n
<1>7. 2000 * g1 + r1 + 200 * t1 > 2000 * g2 + r2 + 200 * t2  BY <1>6
<1> QED  BY <1>3, <1>5, <1>n, <1>7

----------------------------------------------------------------------------
(* The invariant. *)

Strategies ==
    /\ DOMAIN strategies \subseteq Names
    /\ \A s \in DOMAIN strategies : strategies[s] \in Weights /\ strategies[s] >= 0

\* What the answer was computed from, and with which weights: they are still those in
\* force, as each call is answered before the next one.
Answer ==
    /\ call.op \in {"none", "register", "error", "select", "validate"}
    /\ call.op \in {"select", "error"} =>
          call.nodes \subseteq NodeSet /\ call.constraint \in Constraints
    /\ call.op = "select" => call.target \in Best(WeightOf, call.nodes, call.constraint)

IInv == Strategies /\ Answer

\* An answer that is no choice needs no support.
LEMMA NoChoice ==
    ASSUME call'.op \in {"none", "register", "validate"}
    PROVE  Answer'
BY DEF Answer

\* The invariant holds in every state.
LEMMA AlwaysIInv == Spec => []IInv
<1>1. Init => IInv
  <2> SUFFICES ASSUME Init PROVE IInv
    OBVIOUS
  <2>1. strategies = << >> /\ call.op = "none"  BY DEF Init, NoCall
  <2>2. DOMAIN strategies = {}  BY <2>1
  <2>3. Strategies  BY <2>2 DEF Strategies
  <2>4. Answer  BY <2>1 DEF Answer
  <2> QED  BY <2>3, <2>4 DEF IInv
<1>2. IInv /\ [Next]_vars => IInv'
  <2> SUFFICES ASSUME IInv, [Next]_vars PROVE IInv'
    OBVIOUS
  <2>0. Strategies /\ Answer  BY DEF IInv
  <2>1. CASE UNCHANGED vars
    <3>1. UNCHANGED strategies /\ UNCHANGED call  BY <2>1 DEF vars
    <3>2. Strategies'  BY <2>0, <3>1 DEF Strategies
    <3>3. WeightOf' = WeightOf  BY <3>1 DEF WeightOf
    <3>4. Answer'  BY <2>0, <3>1, <3>3 DEF Answer
    <3> QED  BY <3>2, <3>4 DEF IInv
  <2>2. CASE Return
    <3>1. call'.op = "none" /\ UNCHANGED strategies  BY <2>2 DEF Return, NoCall
    <3>2. Strategies'  BY <2>0, <3>1 DEF Strategies
    <3> QED  BY <3>1, <3>2, NoChoice DEF IInv
  <2>3. ASSUME NEW s \in Names, NEW weight \in Weights, RegisterStrategy(s, weight)
        PROVE  IInv'
    <3>1. call'.op = "register"  BY <2>3 DEF RegisterStrategy
    <3>2. CASE weight >= 0 /\ s \notin DOMAIN strategies
      <4>1. strategies' = [t \in DOMAIN strategies \cup {s} |->
                             IF t = s THEN weight ELSE strategies[t]]
        BY <2>3, <3>2 DEF RegisterStrategy
      <4>2. Strategies'  BY <2>0, <3>2, <4>1 DEF Strategies
      <4> QED  BY <3>1, <4>2, NoChoice DEF IInv
    <3>3. CASE ~(weight >= 0 /\ s \notin DOMAIN strategies)
      <4>1. strategies' = strategies  BY <2>3, <3>3 DEF RegisterStrategy
      <4>2. Strategies'  BY <2>0, <4>1 DEF Strategies
      <4> QED  BY <3>1, <4>2, NoChoice DEF IInv
    <3> QED  BY <3>2, <3>3
  <2>4. ASSUME NEW nodes \in SUBSET NodeSet, NEW c \in Constraints, SelectNode(nodes, c)
        PROVE  IInv'
    <3>1. strategies' = strategies  BY <2>4 DEF SelectNode
    <3>2. Strategies'  BY <2>0, <3>1 DEF Strategies
    <3>3. WeightOf' = WeightOf  BY <3>1 DEF WeightOf
    <3>4. CASE /\ Suitable(WeightOf, nodes, c) = {}
               /\ call' = [op |-> "error", nodes |-> nodes, constraint |-> c]
      <4>1. call'.op = "error" /\ call'.nodes = nodes /\ call'.constraint = c
        BY <3>4
      <4>2. Answer'  BY <3>3, <3>4, <4>1 DEF Answer
      <4> QED  BY <3>2, <4>2 DEF IInv
    <3>5. ASSUME NEW target \in Best(WeightOf, nodes, c), NEW alternates,
                 call' = [op |-> "select", nodes |-> nodes, constraint |-> c,
                          target |-> target, alternates |-> alternates]
          PROVE  IInv'
      <4>1. /\ call'.op = "select" /\ call'.nodes = nodes /\ call'.constraint = c
            /\ call'.target = target
        BY <3>5
      <4>2. Answer'  BY <3>3, <4>1 DEF Answer
      <4> QED  BY <3>2, <4>2 DEF IInv
    <3> QED  BY <2>4, <3>4, <3>5 DEF SelectNode
  <2>5. CASE ValidatePlacement
    <3>1. call'.op = "validate" /\ strategies' = strategies
      BY <2>5 DEF ValidatePlacement
    <3>2. Strategies'  BY <2>0, <3>1 DEF Strategies
    <3> QED  BY <3>1, <3>2, NoChoice DEF IInv
  <2> QED  BY <2>1, <2>2, <2>3, <2>4, <2>5 DEF Next
<1> QED  BY <1>1, <1>2, PTL DEF Spec

\* The weights in force are natural numbers.
LEMMA WeightTypes ==
    ASSUME IInv
    PROVE  /\ WeightOf \in [Names -> Nat]
           /\ \A s \in Names : s \notin DOMAIN strategies => WeightOf[s] = 0
           /\ \A s \in DOMAIN strategies : s \in Names /\ WeightOf[s] = strategies[s]
<1>1. ASSUME NEW s \in Names
      PROVE  (IF s \in DOMAIN strategies THEN strategies[s] ELSE 0) \in Nat
  <2>1. CASE s \in DOMAIN strategies
    <3>1. strategies[s] \in Int /\ strategies[s] >= 0
      BY <2>1, PlacementAssumption DEF IInv, Strategies
    <3> QED  BY <2>1, <3>1
  <2> QED  BY <2>1
<1>2. WeightOf \in [Names -> Nat]  BY <1>1 DEF WeightOf
<1>3. DOMAIN strategies \subseteq Names  BY DEF IInv, Strategies
<1> QED  BY <1>2, <1>3 DEF WeightOf

\* The target of a choice is a candidate, and no candidate scores higher.
LEMMA NothingHigher ==
    ASSUME IInv, call.op = "select", NEW m \in call.nodes
    PROVE  /\ m \in NodeSet /\ call.target \in NodeSet /\ call.constraint \in Constraints
           /\ ~(Score(WeightOf, m, call.constraint)
                  > Score(WeightOf, call.target, call.constraint))
<1>1. /\ call.nodes \subseteq NodeSet /\ call.constraint \in Constraints
      /\ call.target \in Best(WeightOf, call.nodes, call.constraint)
  BY DEF IInv, Answer
<1>2. /\ call.target \in call.nodes
      /\ Score(WeightOf, m, call.constraint) <= Score(WeightOf, call.target, call.constraint)
  BY <1>1 DEF Best, Suitable
<1>3. m \in NodeSet /\ call.target \in NodeSet  BY <1>1, <1>2
<1>4. /\ Score(WeightOf, m, call.constraint) \in Int
      /\ Score(WeightOf, call.target, call.constraint) \in Int
  <2>1. ASSUME NEW n \in NodeSet PROVE Score(WeightOf, n, call.constraint) \in Int
    <3>1. WeightOf \in [Names -> Nat]  BY WeightTypes
    <3>2. /\ \A s \in Names : Term(WeightOf, s, n, call.constraint) \in Nat
          /\ Score(WeightOf, n, call.constraint)
               = 2000 * Term(WeightOf, "geographic", n, call.constraint)
               + Term(WeightOf, "resource", n, call.constraint)
               + 200 * Term(WeightOf, "tier", n, call.constraint)
      BY <1>1, <3>1, ScoreTerms
    <3>3. "geographic" \in Names /\ "resource" \in Names /\ "tier" \in Names  BY DEF Names
    <3> QED  BY <3>2, <3>3
  <2> QED  BY <1>3, <2>1
<1> QED  BY <1>1, <1>2, <1>3, <1>4

----------------------------------------------------------------------------
(* Preferences. *)

\* Along a list of regions the geographic score falls, by 20 for each place until it
\* stops at 20, and is less still for a region that is not listed.
LEMMA RegionsFall ==
    ASSUME NEW m \in NodeSet, NEW t \in NodeSet, NEW c \in Constraints,
           Prefers(c.regions, m.region, t.region, Len(c.regions), 4)
    PROVE  Geographic(m, c) > Geographic(t, c)
<1> DEFINE list == c.regions
<1>0. list \in Seq(Listed(list)) /\ None \notin Listed(list)
  BY PlacementAssumption
<1>1. Places(m.region, list) # {}  BY DEF Prefers
<1>2. PICK i : i = First(Places(m.region, list))  OBVIOUS
<1>3. i \in 1 .. Len(list) /\ list[i] = m.region  BY <1>0, <1>1, <1>2, FirstPlace
<1>4. i \in Nat /\ i >= 1 /\ list # << >> /\ m.region # None
  <2>1. DOMAIN list = 1 .. Len(list) /\ Len(list) \in Nat  BY <1>0
  <2>2. m.region \in Listed(list)  BY <1>3, <2>1 DEF Listed
  <2>3. list # << >>  BY <1>3, <2>1
  <2>4. i \in Nat /\ i >= 1  BY <1>3, <2>1
  <2> QED  BY <1>0, <2>2, <2>3, <2>4
<1>5. Geographic(m, c) = AtLeast(120 - 20 * i, 20)
  BY <1>1, <1>2, <1>4 DEF Geographic
<1>6. CASE Places(t.region, list) = {}
  <2>1. Geographic(t, c) \in {10, 15}  BY <1>4, <1>6 DEF Geographic
  <2>2. AtLeast(120 - 20 * i, 20) >= 20  BY <1>4 DEF AtLeast
  <2>3. AtLeast(120 - 20 * i, 20) \in Int  BY <1>4 DEF AtLeast
  <2> QED  BY <1>5, <2>1, <2>2, <2>3
<1>7. CASE Places(t.region, list) # {}
  <2>1. PICK j : j = First(Places(t.region, list))  OBVIOUS
  <2>2. j \in 1 .. Len(list) /\ list[j] = t.region  BY <1>0, <1>7, <2>1, FirstPlace
  <2>3. j \in Nat /\ t.region # None
    <3>1. DOMAIN list = 1 .. Len(list) /\ Len(list) \in Nat  BY <1>0
    <3>2. t.region \in Listed(list)  BY <2>2, <3>1 DEF Listed
    <3> QED  BY <1>0, <2>2, <3>1, <3>2
  <2>4. Geographic(t, c) = AtLeast(120 - 20 * j, 20)
    BY <1>4, <1>7, <2>1, <2>3 DEF Geographic
  <2>5. i < j /\ i <= 4  BY <1>2, <1>7, <2>1 DEF Prefers
  <2>6. AtLeast(120 - 20 * i, 20) > AtLeast(120 - 20 * j, 20)
    BY <1>4, <2>3, <2>5 DEF AtLeast
  <2> QED  BY <1>5, <2>4, <2>6
<1> QED  BY <1>6, <1>7

\* Along a list of tiers the tier score falls too, whatever the power; but a tier that
\* is not listed scores like the third.
LEMMA TiersFall ==
    ASSUME NEW m \in NodeSet, NEW t \in NodeSet, NEW c \in Constraints,
           m.power = t.power, m.labels = t.labels,
           m.name \notin c.avoid, t.name \notin c.avoid, c.require \subseteq t.labels,
           Prefers(c.tiers, m.tier, t.tier, 2, 3)
    PROVE  Tier(m, c) > Tier(t, c)
<1> DEFINE list == c.tiers
<1>0. list \in Seq(Listed(list))
  BY PlacementAssumption
<1>1. Places(m.tier, list) # {}  BY DEF Prefers
<1>2. PICK i : i = First(Places(m.tier, list))  OBVIOUS
<1>3. i \in 1 .. Len(list)  BY <1>0, <1>1, <1>2, FirstPlace
<1>4. i \in Nat /\ i >= 1 /\ list # << >>
  <2>1. DOMAIN list = 1 .. Len(list) /\ Len(list) \in Nat  BY <1>0
  <2> QED  BY <1>3, <2>1
<1>5. PICK a : a = TierBase(m, c)  OBVIOUS
<1>6. PICK b : b = TierBase(t, c)  OBVIOUS
<1>7. a = AtLeast(125 - 25 * i, 25)
  BY <1>1, <1>2, <1>4, <1>5 DEF TierBase
<1>8. a \in Nat /\ b \in Nat /\ a > b /\ b <= 75
  <2>1. CASE Places(t.tier, list) = {}
    <3>1. b = 50  BY <1>4, <1>6, <2>1 DEF TierBase
    <3>2. i <= 2  BY <1>2, <2>1 DEF Prefers
    <3> QED  BY <1>4, <1>7, <3>1, <3>2 DEF AtLeast
  <2>2. CASE Places(t.tier, list) # {}
    <3>1. PICK j : j = First(Places(t.tier, list))  OBVIOUS
    <3>2. j \in 1 .. Len(list)  BY <1>0, <2>2, <3>1, FirstPlace
    <3>3. j \in Nat  BY <3>2
    <3>4. b = AtLeast(125 - 25 * j, 25)  BY <1>4, <1>6, <2>2, <3>1 DEF TierBase
    <3>5. i < j /\ i <= 3  BY <1>2, <2>2, <3>1 DEF Prefers
    <3> QED  BY <1>4, <1>7, <3>3, <3>4, <3>5 DEF AtLeast
  <2> QED  BY <2>1, <2>2
<1>9. PICK p \in {8, 10, 11} : p = Power(m) /\ p = Power(t)
  <2>1. Power(m) \in {8, 10, 11} /\ Power(m) = Power(t)  BY DEF Power
  <2> QED  BY <2>1
<1>10. AtMost(a * p, 1000) > AtMost(b * p, 1000)
  <2>1. CASE p = 8  BY <1>8, <2>1 DEF AtMost
  <2>2. CASE p = 10  BY <1>8, <2>2 DEF AtMost
  <2>3. CASE p = 11  BY <1>8, <2>3 DEF AtMost
  <2> QED  BY <1>9, <2>1, <2>2, <2>3
<1>11. Tier(m, c) = AtMost(a * p, 1000) /\ Tier(t, c) = AtMost(b * p, 1000)
  BY <1>5, <1>6, <1>9 DEF Tier
<1> QED  BY <1>10, <1>11

\* Two nodes that are the same but for a field.
LEMMA SameFields ==
    ASSUME NEW m \in NodeSet, NEW t \in NodeSet, NEW field \in {"region", "tier"},
           Same(m, t, field)
    PROVE  /\ m.cpu = t.cpu /\ m.memory = t.memory
           /\ m.power = t.power /\ m.labels = t.labels
           /\ field = "region" => m.tier = t.tier
           /\ field = "tier" => m.region = t.region
<1>1. DOMAIN m = Fields  BY PlacementAssumption
<1>2. \A f \in Fields \ {field, "name"} : m[f] = t[f]  BY <1>1 DEF Same
<1> QED  BY <1>2 DEF Fields

----------------------------------------------------------------------------
(* What the engine promises. *)

\* Registered weights are not negative, strategies have one of the three names.
THEOREM TypeCorrect == Spec => []TypeOK
<1>1. IInv => TypeOK  BY DEF IInv, Strategies, Answer, TypeOK
<1> QED  BY <1>1, AlwaysIInv, PTL

\* Whatever the weights, no candidate that is as good as the target for each
\* registered strategy and better for a weighted one is left out.
THEOREM NoneBetter == Spec => []TargetUndominated
<1>1. IInv => TargetUndominated
  <2> SUFFICES ASSUME IInv, call.op = "select", NEW m \in call.nodes,
                      Dominates(m, call.target, call.constraint)
               PROVE  FALSE
    BY DEF TargetUndominated
  <2>1. /\ m \in NodeSet /\ call.target \in NodeSet /\ call.constraint \in Constraints
        /\ ~(Score(WeightOf, m, call.constraint)
               > Score(WeightOf, call.target, call.constraint))
    BY NothingHigher
  <2>2. /\ WeightOf \in [Names -> Nat]
        /\ \A s \in Names : s \notin DOMAIN strategies => WeightOf[s] = 0
        /\ \A s \in DOMAIN strategies : s \in Names /\ WeightOf[s] = strategies[s]
    BY WeightTypes
  <2>3. \A s \in Names : \/ WeightOf[s] = 0
                         \/ StrategyScore(s, m, call.constraint)
                               >= StrategyScore(s, call.target, call.constraint)
    BY <2>2 DEF Dominates
  <2>4. PICK best \in Names :
           /\ WeightOf[best] > 0
           /\ StrategyScore(best, m, call.constraint)
                 > StrategyScore(best, call.target, call.constraint)
    BY <2>2 DEF Dominates
  <2> QED  BY <2>1, <2>2, <2>3, <2>4, HigherScore
<1> QED  BY <1>1, AlwaysIInv, PTL

\* Between nodes that differ in nothing else the list of regions, or of tiers, decides,
\* as far down the list as its places have different scores.
THEOREM PreferencesDecide == Spec => []PreferenceDecides
<1>1. IInv => PreferenceDecides
  <2> SUFFICES ASSUME IInv, call.op = "select", NEW m \in call.nodes,
                      m.name \in call.constraint.avoid
                         <=> call.target.name \in call.constraint.avoid
               PROVE  /\ /\ Same(m, call.target, "region")
                         /\ WeightOf["geographic"] > 0
                         => ~Prefers(call.constraint.regions, m.region, call.target.region,
                                     Len(call.constraint.regions), 4)
                      /\ /\ Same(m, call.target, "tier") /\ WeightOf["tier"] > 0
                         /\ call.target.name \notin call.constraint.avoid
                         /\ call.constraint.require \subseteq call.target.labels
                         => ~Prefers(call.constraint.tiers, m.tier, call.target.tier, 2, 3)
    BY DEF PreferenceDecides
  <2>0. PICK t, c : t = call.target /\ c = call.constraint  OBVIOUS
  <2>1. /\ m \in NodeSet /\ t \in NodeSet /\ c \in Constraints
        /\ ~(Score(WeightOf, m, c) > Score(WeightOf, t, c))
    BY <2>0, NothingHigher
  <2>2. WeightOf \in [Names -> Nat]  BY WeightTypes
  <2>3. "geographic" \in Names /\ "tier" \in Names  BY DEF Names
  <2>4. ASSUME Same(m, t, "region"), WeightOf["geographic"] > 0,
               Prefers(c.regions, m.region, t.region, Len(c.regions), 4)
        PROVE  FALSE
    <3>1. Geographic(m, c) > Geographic(t, c)  BY <2>1, <2>4, RegionsFall
    <3>2. /\ m.cpu = t.cpu /\ m.memory = t.memory /\ m.power = t.power
          /\ m.labels = t.labels /\ m.tier = t.tier
      BY <2>1, <2>4, SameFields
    <3>3. Resource(m) = Resource(t)  BY <3>2 DEF Resource
    <3>4. Tier(m, c) = Tier(t, c)  BY <2>0, <3>2 DEF Tier, TierBase, Power
    <3>5. /\ StrategyScore("geographic", m, c) > StrategyScore("geographic", t, c)
          /\ StrategyScore("resource", m, c) = StrategyScore("resource", t, c)
          /\ StrategyScore("tier", m, c) = StrategyScore("tier", t, c)
      BY <2>1, <3>1, <3>3, <3>4, StrategyScores
    <3>6. \A s \in Names : StrategyScore(s, m, c) \in Nat /\ StrategyScore(s, t, c) \in Nat
      BY <2>1, StrategyScores
    <3>7. \A s \in Names : StrategyScore(s, m, c) >= StrategyScore(s, t, c)
      BY <3>5, <3>6 DEF Names
    <3> QED  BY <2>1, <2>2, <2>3, <2>4, <3>5, <3>7, HigherScore
  <2>5. ASSUME Same(m, t, "tier"), WeightOf["tier"] > 0,
               t.name \notin c.avoid, c.require \subseteq t.labels,
               Prefers(c.tiers, m.tier, t.tier, 2, 3)
        PROVE  FALSE
    <3>1. /\ m.cpu = t.cpu /\ m.memory = t.memory /\ m.power = t.power
          /\ m.labels = t.labels /\ m.region = t.region
      BY <2>1, <2>5, SameFields
    <3>2. m.name \notin c.avoid  BY <2>0, <2>5
    <3>3. Tier(m, c) > Tier(t, c)  BY <2>1, <2>5, <3>1, <3>2, TiersFall
    <3>4. Resource(m) = Resource(t)  BY <3>1 DEF Resource
    <3>5. Geographic(m, c) = Geographic(t, c)  BY <3>1 DEF Geographic
    <3>6. /\ StrategyScore("geographic", m, c) = StrategyScore("geographic", t, c)
          /\ StrategyScore("resource", m, c) = StrategyScore("resource", t, c)
          /\ StrategyScore("tier", m, c) > StrategyScore("tier", t, c)
      BY <2>1, <3>3, <3>4, <3>5, StrategyScores
    <3>7. \A s \in Names : StrategyScore(s, m, c) \in Nat /\ StrategyScore(s, t, c) \in Nat
      BY <2>1, StrategyScores
    <3>8. \A s \in Names : StrategyScore(s, m, c) >= StrategyScore(s, t, c)
      BY <3>6, <3>7 DEF Names
    <3> QED  BY <2>1, <2>2, <2>3, <2>5, <3>6, <3>8, HigherScore
  <2> QED  BY <2>0, <2>4, <2>5
<1> QED  BY <1>1, AlwaysIInv, PTL

===============================================================================
