------------------------- MODULE RegionalWorkload_proofs -------------------------
(***************************************************************************)
(* Theorems about RegionalWorkload and about the configurations of         *)
(* SharedEndpoints, for all workloads, targets, nodes, specs, names and    *)
(* ports.                                                                  *)
(***************************************************************************)
EXTENDS RegionalWorkload, LeastElement

----------------------------------------------------------------------------
(* Shared endpoint configurations. *)

\* The elements of a sequence of endpoints or ports are endpoints or ports.
LEMMA ElementType ==
    ASSUME NEW S, NEW s \in Seq(S), NEW i \in DOMAIN s
    PROVE  s[i] \in S /\ i \in Nat
  OBVIOUS
\* An explicit port name is a sequence.
LEMMA PairType ==
    ASSUME NEW S, NEW a \in S
    PROVE  <<a>> \in Seq(S)
  OBVIOUS

\* A configuration stays well formed when it is resolved.
LEMMA ResolveType ==
    ASSUME NEW cfg \in EndpointType
    PROVE  Resolve(cfg) \in EndpointType
  <1>1. Or(cfg.ip, Defaults.ip) \in STRING /\ Or(cfg.mode, Defaults.mode) \in STRING
    BY SharedEndpointsAssumption DEF Or, EndpointType
  <1>2. cfg.endpoints \in Seq([name : EndpointNames, ip : STRING])
    BY DEF EndpointType
  <1>3. ASSUME NEW ip \in STRING
        PROVE  <<[name |-> "primary", ip |-> ip]>> \in Seq([name : EndpointNames, ip : STRING])
    BY SharedEndpointsAssumption
  <1> QED
    BY <1>1, <1>2, <1>3, SharedEndpointsAssumption DEF Resolve, EndpointType

\* Each endpoint of a configuration has a slot, and only slots there are.
LEMMA SlotType ==
    ASSUME NEW cfg \in EndpointType, NEW i \in DOMAIN cfg.endpoints
    PROVE  Slot(cfg, i) \in Slots
  <1>1. cfg.endpoints[i] \in [name : EndpointNames, ip : STRING]
    BY ElementType DEF EndpointType
  <1> QED
    BY <1>1 DEF Slot, Slots

\* The endpoints of a configuration that passes normalizeSharedEndpointTargets are told
\* apart by their slots: no two of them share a Service.
LEMMA SlotsDiffer ==
    ASSUME NEW cfg \in EndpointType, Normalizable(cfg),
           NEW i \in DOMAIN cfg.endpoints, NEW j \in DOMAIN cfg.endpoints, i # j
    PROVE  Slot(cfg, i) # Slot(cfg, j)
  <1>1. cfg.endpoints \in Seq([name : EndpointNames, ip : STRING])
    BY DEF EndpointType
  <1>2. Len(cfg.endpoints) # 1
    BY <1>1
  <1> QED
    BY <1>2 DEF Slot, Normalizable

\* The address of each Service that is wanted is that of one endpoint, and is set.
LEMMA AddressesType ==
    ASSUME NEW w, NEW cfg \in EndpointType, Normalizable(cfg),
           NEW k \in DOMAIN Addresses(w, cfg)
    PROVE  /\ k \in {w} \X Slots
           /\ Addresses(w, cfg)[k] \in STRING
           /\ Addresses(w, cfg)[k] # "unset"
  <1>1. PICK i \in DOMAIN cfg.endpoints : k = <<w, Slot(cfg, i)>>
    BY DEF Addresses
  <1>2. \E j \in DOMAIN cfg.endpoints : Slot(cfg, j) = k[2]
    BY <1>1
  <1> DEFINE found == CHOOSE j \in DOMAIN cfg.endpoints : Slot(cfg, j) = k[2]
  <1>3. found \in DOMAIN cfg.endpoints
    BY <1>2
  <1>4. Addresses(w, cfg)[k] = cfg.endpoints[found].ip
    BY DEF Addresses
  <1>5. cfg.endpoints[found] \in [name : EndpointNames, ip : STRING]
    BY <1>3, ElementType DEF EndpointType
  <1>6. cfg.endpoints[found].ip # "unset"
    BY <1>3 DEF Normalizable
  <1> QED
    BY <1>1, <1>4, <1>5, <1>6, SlotType

\* Every valid endpoint gets a Service of its own, at its own address.
THEOREM EachEndpointServed ==
    ASSUME NEW w, NEW cfg \in EndpointType, Normalizable(cfg),
           NEW i \in DOMAIN cfg.endpoints
    PROVE  /\ <<w, Slot(cfg, i)>> \in DOMAIN Addresses(w, cfg)
           /\ Addresses(w, cfg)[<<w, Slot(cfg, i)>>] = cfg.endpoints[i].ip
           /\ \A j \in DOMAIN cfg.endpoints \ {i} :
                 Addresses(w, cfg)[<<w, Slot(cfg, j)>>] # cfg.endpoints[i].ip
  <1>1. ASSUME NEW j \in DOMAIN cfg.endpoints
        PROVE  /\ <<w, Slot(cfg, j)>> \in DOMAIN Addresses(w, cfg)
               /\ Addresses(w, cfg)[<<w, Slot(cfg, j)>>] = cfg.endpoints[j].ip
    <2>1. (CHOOSE l \in DOMAIN cfg.endpoints : Slot(cfg, l) = Slot(cfg, j)) = j
      BY SlotsDiffer
    <2> QED
      BY <2>1 DEF Addresses
  <1>2. \A j \in DOMAIN cfg.endpoints \ {i} : cfg.endpoints[j].ip # cfg.endpoints[i].ip
    BY DEF Normalizable
  <1> QED
    BY <1>1, <1>2

\* A Service is never left without a port, whatever the containers declare.
LEMMA PortsType ==
    ASSUME NEW ports \in Seq(PortType)
    PROVE  /\ ExtractServicePorts(ports) # {}
           /\ ExtractServicePorts(ports) \subseteq ServicePortType
  <1> DEFINE usable == {i \in DOMAIN ports : ports[i].number > 0}
             Same(i, j) == /\ Protocol(ports[i]) = Protocol(ports[j])
                           /\ ports[i].number = ports[j].number
             first == {i \in usable : \A j \in usable : j < i => ~Same(i, j)}
             port(i) == [name |-> PortName(ports[i]), protocol |-> Protocol(ports[i]),
                         number |-> ports[i].number]
             default == [name |-> <<"http">>, protocol |-> "TCP", number |-> 80]
  <1> HIDE DEF Same
  <1>1. ExtractServicePorts(ports) = IF usable = {} THEN {default} ELSE {port(i) : i \in first}
    BY DEF ExtractServicePorts, Same
  <1>2. ASSUME NEW i \in DOMAIN ports
        PROVE  port(i) \in ServicePortType
    <2>1. ports[i] \in PortType
      BY ElementType
    <2>2. /\ ports[i].name \in PortNames /\ ports[i].number \in Int
          /\ ports[i].protocol \in Protocols \cup {"unset"}
      BY <2>1 DEF PortType
    <2>3. Protocol(ports[i]) \in Protocols
      BY <2>2 DEF Protocol, Or, Protocols
    <2>4. <<Protocol(ports[i]), ports[i].number>> \in PortNames
      BY <2>2, <2>3 DEF PortNames
    <2>5. PortName(ports[i]) \in PortNames
      BY <2>2, <2>4 DEF PortName
    <2> QED
      BY <2>2, <2>3, <2>5 DEF ServicePortType
  <1>3. default \in ServicePortType
    <2>1. "http" \in STRING \cup {"http"}
      BY Zenon
    <2>2. <<"http">> \in Seq(STRING \cup {"http"})
      BY <2>1, PairType
    <2>3. "TCP" \in Protocols
      BY DEF Protocols
    <2> QED
      BY <2>2, <2>3 DEF ServicePortType, PortNames
  <1>4. ASSUME usable # {} PROVE first # {}
    <2>1. usable \subseteq Nat
      OBVIOUS
    <2>2. PICK i \in usable : \A j \in usable : i <= j
      BY <1>4, <2>1, LeastElementExists
    <2>3. i \in first
      BY <2>1, <2>2
    <2> QED
      BY <2>3
  <1>5. CASE usable = {}
    BY <1>1, <1>3, <1>5
  <1>6. CASE usable # {}
    <2>1. first # {} /\ first \subseteq DOMAIN ports
      BY <1>4, <1>6
    <2> HIDE DEF first, usable, port
    <2> QED
      BY <1>1, <1>2, <1>6, <2>1
  <1> QED
    BY <1>5, <1>6

----------------------------------------------------------------------------
(* The inductive invariant, by the parts of the state. *)

EnvironmentOK ==
    /\ nodes \subseteq NodeSet
    /\ verdicts \in [NodeNames -> SUBSET {"Healthy", "Unhealthy"}]
    /\ touches \in Nat
ServerOK == ObjectsOK(stored) /\ ObjectsOK(cache) /\ synced \subseteq Keys
ScheduleOK == queue \subseteq Workloads /\ delayed \subseteq Workloads
WorkerOK ==
    /\ pc \in {"idle", "list", "select", "apply", "update", "services", "sync",
               "reject", "unplaced", "failed", "write"}
    /\ IF pc = "idle" THEN obj = None
       ELSE /\ obj \in Workloads /\ copy \in WorkloadType
            /\ pc = "reject" <=> ~Valid(copy)
    /\ fresh \subseteq Keys /\ candidates \subseteq NodeSet
    /\ pc \in {"apply", "update", "services", "sync", "failed", "write"} =>
          copy.status.placement # None
    /\ pc \in {"update", "services", "sync", "failed", "write"} => copy.spec.ref \in Targets
    /\ pc = "update" => target \in TargetType

\* The addresses the worker's copy of the spec asks for.
Promised ==
    IF Enabled(copy) THEN Addresses(obj, Resolve(copy.spec.endpoint)) ELSE << >>

\* What is still to be done to Services: all under the workload's names, and none that
\* the copy asks for is about to be deleted or to move.
PlanOK ==
    /\ DOMAIN listed \cup DOMAIN wanted \subseteq {obj} \X Slots
    /\ pc \notin {"sync", "failed"} => listed = << >> /\ wanted = << >>
    /\ \A k \in DOMAIN wanted :
          /\ wanted[k] # None
          /\ wanted[k].owned /\ wanted[k].ip # "unset" /\ wanted[k].ports # {}
    /\ pc = "sync" =>
          /\ DOMAIN listed \cap DOMAIN Promised \subseteq DOMAIN wanted
          /\ \A k \in DOMAIN wanted : k \in DOMAIN Promised /\ wanted[k].ip = Promised[k]

TypeInv == EnvironmentOK /\ ServerOK /\ ScheduleOK /\ WorkerOK /\ PlanOK

\* What the cache and the worker hold as current is what the API server has.
CopiesCurrent ==
    /\ \A x \in synced : cache[x] = stored[x]
    /\ pc = "idle" => fresh = {}
    /\ pc \in {"list", "select", "apply", "reject", "unplaced"} => fresh \subseteq {obj}
    /\ pc = "update" /\ copy.spec.ref \in fresh => target = stored[copy.spec.ref]

\* The keys tell the kinds of objects apart.
LEMMA KeyKinds ==
    /\ \A w \in Workloads : w \in Keys /\ w \notin Targets /\ w \notin ServiceKeys
    /\ \A t \in Targets : t \in Keys /\ t \notin Workloads /\ t \notin ServiceKeys
    /\ \A k \in ServiceKeys : k \in Keys /\ k \notin Workloads /\ k \notin Targets
  BY RegionalWorkloadAssumption DEF Keys

\* A condition of the status is set: the spec and the placement stay.
LEMMA WithType ==
    ASSUME NEW w \in WorkloadType,
           NEW condition \in {"configuration", "placed", "endpoint"}, NEW answer \in Answers
    PROVE  /\ With(w, condition, answer) \in WorkloadType
           /\ With(w, condition, answer).spec = w.spec
           /\ With(w, condition, answer).status.placement = w.status.placement
           /\ With(w, condition, answer).status.health = w.status.health
  BY DEF With, WorkloadType, StatusType

\* What the spec alone decides.
LEMMA SpecDecides ==
    ASSUME NEW a, NEW b, a.spec = b.spec
    PROVE  (Valid(a) <=> Valid(b)) /\ (Enabled(a) <=> Enabled(b))
  BY DEF Valid, Enabled

\* The Services wanted for a valid configuration may be stored, unless their ports clash.
LEMMA ServicesType ==
    ASSUME NEW w, NEW cfg \in EndpointType, Normalizable(cfg), NEW ports \in Seq(PortType)
    PROVE  /\ DOMAIN Services(w, cfg, ports) = DOMAIN Addresses(w, cfg)
           /\ \A k \in DOMAIN Services(w, cfg, ports) :
                 /\ k \in {w} \X Slots
                 /\ Services(w, cfg, ports)[k] # None
                 /\ Services(w, cfg, ports)[k].owned
                 /\ Services(w, cfg, ports)[k].ip # "unset"
                 /\ Services(w, cfg, ports)[k].ports # {}
                 /\ Services(w, cfg, ports)[k].ip = Addresses(w, cfg)[k]
  <1> DEFINE services == Services(w, cfg, ports)
  <1>1. DOMAIN services = DOMAIN Addresses(w, cfg)
    BY DEF Services
  <1>2. ASSUME NEW k \in DOMAIN services
        PROVE  /\ k \in {w} \X Slots
               /\ services[k] # None
               /\ services[k].owned
               /\ services[k].ip # "unset"
               /\ services[k].ports # {}
               /\ services[k].ip = Addresses(w, cfg)[k]
    <2>1. services[k] = [owned |-> TRUE, ip |-> Addresses(w, cfg)[k],
                         ports |-> ExtractServicePorts(ports)]
      BY DEF Services
    <2>2. /\ k \in {w} \X Slots
          /\ Addresses(w, cfg)[k] \in STRING /\ Addresses(w, cfg)[k] # "unset"
      BY <1>1, AddressesType
    <2>3. /\ ExtractServicePorts(ports) # {}
          /\ ExtractServicePorts(ports) \subseteq ServicePortType
      BY PortsType
    <2>4. services[k] \in ServiceType
      BY <2>1, <2>2, <2>3 DEF ServiceType
    <2>5. services[k] # None
      BY <2>4, RegionalWorkloadAssumption
    <2> HIDE DEF services
    <2> QED
      BY <2>1, <2>2, <2>3, <2>5
  <1> QED
    BY <1>1, <1>2

\* A write of an object by its own type keeps the objects well formed.
LEMMA StoreType ==
    ASSUME ServerOK, NEW key \in Keys, NEW value, Store(key, value),
           key \in Workloads => value \in WorkloadType \cup {None},
           key \in Targets => value \in TargetType \cup {None},
           key \in ServiceKeys /\ value # None =>
              value.ip # "unset" /\ value.ports # {} /\ Admissible(value)
    PROVE  /\ ServerOK'
           /\ stored'[key] = value
           /\ \A x \in Keys \ {key} : stored'[x] = stored[x]
           /\ cache' = cache /\ synced' = synced \ {key}
  <1>1. DOMAIN stored = Keys /\ stored' = [stored EXCEPT ![key] = value]
    BY DEF ServerOK, ObjectsOK, Store
  <1>2. stored'[key] = value /\ \A x \in Keys \ {key} : stored'[x] = stored[x]
    BY <1>1
  <1>3. ObjectsOK(stored)'
    <2>1. DOMAIN stored' = Keys
      BY <1>1
    <2>2. \A w \in Workloads : stored'[w] \in WorkloadType \cup {None}
      BY <1>2, KeyKinds DEF ServerOK, ObjectsOK
    <2>3. \A t \in Targets : stored'[t] \in TargetType \cup {None}
      BY <1>2, KeyKinds DEF ServerOK, ObjectsOK
    <2>4. ASSUME NEW k \in ServiceKeys
          PROVE  stored'[k] # None =>
                    /\ stored'[k].ip # "unset" /\ stored'[k].ports # {}
                    /\ Admissible(stored'[k])
      <3>1. CASE k = key
        BY <1>2, <3>1
      <3>2. CASE k # key
        BY <1>2, <3>2, KeyKinds DEF ServerOK, ObjectsOK
      <3> QED
        BY <3>1, <3>2
    <2> QED
      BY <2>1, <2>2, <2>3, <2>4 DEF ObjectsOK
  <1> QED
    BY <1>2, <1>3 DEF ServerOK, Store

\* A part of the state that does not change keeps its type.
LEMMA UnchangedTypes ==
    /\ EnvironmentOK /\ UNCHANGED outside => EnvironmentOK'
    /\ ServerOK /\ UNCHANGED server => ServerOK'
    /\ ScheduleOK /\ UNCHANGED schedule => ScheduleOK'
    /\ WorkerOK /\ UNCHANGED <<pc, obj, copy, candidates, target>> /\ fresh' \subseteq fresh
          => WorkerOK'
    /\ PlanOK /\ UNCHANGED <<pc, obj, copy, listed, wanted>> => PlanOK'
  <1>1. EnvironmentOK /\ UNCHANGED outside => EnvironmentOK'
    BY DEF EnvironmentOK, outside
  <1>2. ServerOK /\ UNCHANGED server => ServerOK'
    BY DEF ServerOK, server, ObjectsOK
  <1>3. ScheduleOK /\ UNCHANGED schedule => ScheduleOK'
    BY DEF ScheduleOK, schedule
  <1>4. WorkerOK /\ UNCHANGED <<pc, obj, copy, candidates, target>> /\ fresh' \subseteq fresh
           => WorkerOK'
    BY DEF WorkerOK, Valid, Enabled
  <1>5. PlanOK /\ UNCHANGED <<pc, obj, copy, listed, wanted>> => PlanOK'
    BY DEF PlanOK, Promised, Enabled
  <1> QED
    BY <1>1, <1>2, <1>3, <1>4, <1>5

\* What a reconcile that ends leaves behind.
LEMMA ReleaseType ==
    ASSUME Release
    PROVE  WorkerOK' /\ PlanOK' /\ pc' = "idle" /\ obj' = None /\ fresh' = {}
  BY DEF Release, WorkerOK, PlanOK

\* The invariant of the proof is the type invariant of the model, by its parts.
LEMMA TypeInvImplies == TypeInv => TypeOK
  <1> SUFFICES ASSUME TypeInv PROVE TypeOK
    OBVIOUS
  <1>1. pc \in {"apply", "update", "services", "sync", "failed", "write"}
           => copy.spec.ref # "unset"
    BY DEF TypeInv, WorkerOK, Valid
  <1> QED
    BY <1>1 DEF TypeInv, TypeOK, EnvironmentOK, ServerOK, ScheduleOK, WorkerOK, PlanOK

\* All workloads are as created, all caches current, and there are no Services.
LEMMA InitType == Init => TypeInv /\ CopiesCurrent
  <1> SUFFICES ASSUME Init PROVE TypeInv /\ CopiesCurrent
    OBVIOUS
  <1>1. PICK workload \in [Workloads -> [spec : Specs, status : {NewStatus}]],
             other \in [Targets -> TargetStates \cup {None}] :
             stored = [x \in Keys |-> IF x \in Workloads THEN workload[x]
                                      ELSE IF x \in Targets THEN other[x] ELSE None]
    BY DEF Init
  <1>2. DOMAIN stored = Keys
    BY <1>1
  <1>3. NewStatus \in StatusType
    BY DEF NewStatus, StatusType, Answers
  <1>4. ASSUME NEW w \in Workloads PROVE stored[w] \in WorkloadType
    <2>1. stored[w] = workload[w]
      BY <1>1, KeyKinds
    <2> QED
      BY <1>3, <2>1 DEF WorkloadType
  <1>5. ASSUME NEW t \in Targets PROVE stored[t] \in TargetType \cup {None}
    <2>1. stored[t] = other[t]
      BY <1>1, KeyKinds
    <2> QED
      BY <2>1, RegionalWorkloadAssumption
  <1>6. ASSUME NEW k \in ServiceKeys
        PROVE  stored[k] = None
    BY <1>1, KeyKinds
  <1>7. ObjectsOK(stored)
    BY <1>2, <1>4, <1>5, <1>6 DEF ObjectsOK
  <1>8. ServerOK /\ ScheduleOK
    BY <1>7 DEF Init, ServerOK, ScheduleOK
  <1>9. WorkerOK /\ PlanOK /\ CopiesCurrent
    BY DEF Init, WorkerOK, PlanOK, CopiesCurrent
  <1>10. EnvironmentOK
    BY DEF Init, EnvironmentOK
  <1> QED
    BY <1>8, <1>9, <1>10 DEF TypeInv

\* The steps up to the choice of a node.
LEMMA FetchType ==
    ASSUME TypeInv, NEW w \in Workloads, Fetch(w)
    PROVE  TypeInv'
  <1>1. ScheduleOK'
    BY DEF Fetch, TypeInv, ScheduleOK
  <1>2. EnvironmentOK' /\ ServerOK'
    BY UnchangedTypes DEF Fetch, TypeInv
  <1>3. listed = << >> /\ wanted = << >> /\ pc = "idle" /\ UNCHANGED plan
    BY DEF Fetch, TypeInv, PlanOK
  <1>4. CASE UNCHANGED <<pc, obj, copy, fresh>>
    <2>1. WorkerOK' /\ PlanOK'
      BY <1>3, <1>4, UnchangedTypes DEF TypeInv, plan
    <2> QED
      BY <1>1, <1>2, <2>1 DEF TypeInv
  <1>5. CASE /\ cache[w] # None
             /\ obj' = w
             /\ fresh' = synced \cap {w}
             /\ \/ /\ Valid(cache[w])
                   /\ pc' = "list"
                   /\ copy' = With(cache[w], "configuration", "True")
                \/ /\ ~Valid(cache[w])
                   /\ pc' = "reject"
                   /\ copy' = With(With(cache[w], "configuration", "False"),
                                   "endpoint", "False")
    <2>1. cache[w] \in WorkloadType
      BY <1>5 DEF TypeInv, ServerOK, ObjectsOK
    <2>2. copy' \in WorkloadType /\ copy'.spec = cache[w].spec
      BY <1>5, <2>1, WithType DEF Answers
    <2>3. Valid(copy') <=> Valid(cache[w])
      BY <2>2, SpecDecides
    <2>4. WorkerOK'
      BY <1>3, <1>5, <2>2, <2>3 DEF TypeInv, ServerOK, WorkerOK, Valid, Enabled, plan
    <2>5. PlanOK'
      BY <1>3, <1>5 DEF PlanOK, plan
    <2> QED
      BY <1>1, <1>2, <2>4, <2>5 DEF TypeInv
  <1> QED
    BY <1>4, <1>5 DEF Fetch

\* It lists the nodes.
LEMMA ListNodesType ==
    ASSUME TypeInv, ListNodes
    PROVE  TypeInv'
  <1>1. EnvironmentOK' /\ ServerOK' /\ ScheduleOK'
    BY UnchangedTypes DEF ListNodes, TypeInv
  <1>2. WorkerOK'
    BY DEF ListNodes, TypeInv, EnvironmentOK, WorkerOK, Valid, Enabled
  <1>3. PlanOK'
    BY DEF ListNodes, TypeInv, PlanOK
  <1> QED
    BY <1>1, <1>2, <1>3 DEF TypeInv

\* It selects one of them, or none.
LEMMA SelectNodeType ==
    ASSUME TypeInv, SelectNode
    PROVE  TypeInv'
  <1>1. EnvironmentOK' /\ ServerOK' /\ ScheduleOK'
    BY UnchangedTypes DEF SelectNode, TypeInv
  <1>2. copy \in WorkloadType /\ obj \in Workloads /\ Valid(copy) /\ pc = "select"
    BY DEF SelectNode, TypeInv, WorkerOK
  <1>3. candidates' \subseteq NodeSet
    BY DEF SelectNode, Filters, TypeInv, WorkerOK
  <1>4. copy' \in WorkloadType /\ copy'.spec = copy.spec
        /\ \/ pc' = "apply" /\ copy'.status.placement # None
           \/ pc' = "unplaced"
    <2>1. CASE copy' = With(copy, "placed", "False") /\ pc' = "unplaced"
      BY <1>2, <2>1, WithType DEF Answers
    <2>2. ASSUME NEW n \in Best(MainWeights, candidates', copy.spec.constraint),
                 pc' = "apply", copy' = UpdatePlacementStatus(copy, n)
          PROVE  copy' \in WorkloadType /\ copy'.spec = copy.spec
                 /\ copy'.status.placement # None
      <3>1. n \in NodeSet
        BY <1>3 DEF Best, Suitable
      <3>2. n.name \in NodeNames /\ n.name # None
        BY <3>1, RegionalWorkloadAssumption DEF NodeNames
      <3>3. /\ With(copy, "placed", "True") \in WorkloadType
            /\ With(copy, "placed", "True").spec = copy.spec
        BY <1>2, WithType DEF Answers
      <3> QED
        BY <2>2, <3>2, <3>3 DEF UpdatePlacementStatus, WorkloadType, StatusType
    <2> QED
      BY <2>1, <2>2 DEF SelectNode
  <1>5. Valid(copy')
    BY <1>2, <1>4, SpecDecides
  <1>6. WorkerOK'
    BY <1>2, <1>3, <1>4, <1>5 DEF SelectNode, TypeInv, WorkerOK, Valid, Enabled
  <1>7. PlanOK'
    BY <1>2, <1>4 DEF SelectNode, TypeInv, PlanOK
  <1> QED
    BY <1>1, <1>6, <1>7 DEF TypeInv

\* A reconcile that ends with a requeue of either kind, or with none.
LEMMA EndType ==
    ASSUME TypeInv, pc # "idle", Retry \/ Later \/ Done
    PROVE  ScheduleOK' /\ WorkerOK' /\ PlanOK'
  <1>1. obj \in Workloads
    BY DEF TypeInv, WorkerOK
  <1> QED
    BY <1>1, ReleaseType DEF Retry, Later, Done, TypeInv, ScheduleOK, schedule

\* A valid copy names a kind of target that is supported, or the unsupported one.
LEMMA RefType ==
    ASSUME TypeInv, pc \notin {"idle", "reject"}
    PROVE  /\ copy \in WorkloadType /\ obj \in Workloads /\ Valid(copy)
           /\ copy.spec \in Specs
           /\ copy.spec.ref \in Targets \cup {"unsupported"}
  <1>1. copy \in WorkloadType /\ obj \in Workloads /\ Valid(copy)
    BY DEF TypeInv, WorkerOK
  <1>2. copy.spec \in Specs /\ copy.spec.ref # "unset"
    BY <1>1 DEF WorkloadType, Valid
  <1> QED
    BY <1>1, <1>2, RegionalWorkloadAssumption

\* It reads the target, and goes on if there is one.
LEMMA GetTargetType ==
    ASSUME TypeInv, GetTarget
    PROVE  TypeInv'
  <1>1. EnvironmentOK' /\ ServerOK'
    BY UnchangedTypes DEF GetTarget, TypeInv
  <1>2. pc = "apply"
    BY DEF GetTarget
  <1>3. CASE Retry
    BY <1>1, <1>2, <1>3, EndType DEF TypeInv
  <1>4. CASE /\ copy.spec.ref # "unsupported" /\ cache[copy.spec.ref] # None
             /\ target' = cache[copy.spec.ref]
             /\ fresh' = fresh \cup (synced \cap {copy.spec.ref})
             /\ pc' \in {"services", "update"}
             /\ UNCHANGED <<schedule, obj, copy, candidates, listed, wanted>>
    <2>1. copy.spec.ref \in Targets
      BY <1>2, <1>4, RefType
    <2>2. cache[copy.spec.ref] \in TargetType
      BY <1>4, <2>1 DEF TypeInv, ServerOK, ObjectsOK
    <2>3. WorkerOK'
      BY <1>2, <1>4, <2>1, <2>2 DEF TypeInv, ServerOK, WorkerOK, Valid, Enabled
    <2>4. PlanOK'
      BY <1>2, <1>4 DEF TypeInv, PlanOK
    <2>5. ScheduleOK'
      BY <1>4, UnchangedTypes DEF TypeInv
    <2> QED
      BY <1>1, <2>3, <2>4, <2>5 DEF TypeInv
  <1> QED
    BY <1>3, <1>4 DEF GetTarget

\* The worker's target with the pin it should have.
LEMMA PinnedType ==
    ASSUME TypeInv, pc = "update"
    PROVE  /\ [target EXCEPT !.pin = Pin(target)] \in TargetType
           /\ copy.spec.ref \in Targets
  <1>1. target \in TargetType /\ copy.spec.ref \in Targets /\ copy \in WorkloadType
    BY DEF TypeInv, WorkerOK
  <1>2. Pin(target) \in NodeNames \cup {None}
    BY <1>1 DEF Pin, WorkloadType, StatusType
  <1> QED
    BY <1>1, <1>2 DEF TargetType

\* The pin is written, or refused.
LEMMA UpdateTargetType ==
    ASSUME TypeInv, UpdateTarget
    PROVE  TypeInv'
  <1>1. EnvironmentOK'
    BY UnchangedTypes DEF UpdateTarget, TypeInv
  <1>2. pc = "update"
    BY DEF UpdateTarget
  <1>3. CASE Retry /\ UNCHANGED server
    BY <1>1, <1>2, <1>3, EndType, UnchangedTypes DEF TypeInv
  <1>4. CASE /\ Store(copy.spec.ref, [target EXCEPT !.pin = Pin(target)])
             /\ pc' = "services"
             /\ UNCHANGED <<schedule, obj, copy, fresh, plan>>
    <2>1. ServerOK'
      BY <1>2, <1>4, PinnedType, StoreType, KeyKinds DEF TypeInv
    <2>2. WorkerOK'
      BY <1>2, <1>4 DEF TypeInv, WorkerOK, plan, Valid, Enabled
    <2>3. PlanOK'
      BY <1>2, <1>4 DEF TypeInv, PlanOK, plan
    <2>4. ScheduleOK'
      BY <1>4, UnchangedTypes DEF TypeInv
    <2> QED
      BY <1>1, <2>1, <2>2, <2>3, <2>4 DEF TypeInv
  <1> QED
    BY <1>3, <1>4 DEF UpdateTarget

\* A failure is put into the copy.
LEMMA EndpointFailsType ==
    ASSUME TypeInv, pc \in {"services", "sync"}, EndpointFails
    PROVE  ScheduleOK' /\ WorkerOK' /\ PlanOK'
  <1>1. copy \in WorkloadType /\ Valid(copy)
    BY RefType
  <1>2. /\ copy' \in WorkloadType /\ copy'.spec = copy.spec
        /\ copy'.status.placement = copy.status.placement
    BY <1>1, WithType DEF EndpointFails, Answers
  <1>3. Valid(copy')
    BY <1>1, <1>2, SpecDecides
  <1>4. WorkerOK'
    BY <1>2, <1>3 DEF EndpointFails, TypeInv, WorkerOK, Valid, Enabled
  <1>5. PlanOK'
    BY DEF EndpointFails, TypeInv, PlanOK
  <1>6. ScheduleOK'
    BY UnchangedTypes DEF EndpointFails, TypeInv
  <1> QED
    BY <1>4, <1>5, <1>6

\* The Services that carry the workload's label are under its names.
LEMMA LabelledType ==
    ASSUME NEW w \in Workloads
    PROVE  Labelled(w) \subseteq {w} \X Slots /\ \A k \in Labelled(w) : cache[k].owned
  <1>1. \A k \in Labelled(w) : k \in ServiceKeys /\ k[1] = w /\ cache[k].owned
    BY DEF Labelled
  <1> QED
    BY <1>1 DEF ServiceKeys

\* The Services are listed and those wanted are worked out.
LEMMA ListServicesType ==
    ASSUME TypeInv, DisableEndpoint \/ BuildServices
    PROVE  TypeInv'
  <1>1. EnvironmentOK' /\ ServerOK'
    BY UnchangedTypes DEF DisableEndpoint, BuildServices, TypeInv
  <1>2. pc = "services" /\ obj \in Workloads /\ copy \in WorkloadType /\ Valid(copy)
        /\ copy.spec \in Specs /\ copy.spec.ref \in Targets
    BY RefType DEF DisableEndpoint, BuildServices, TypeInv, WorkerOK
  <1>3. CASE EndpointFails
    BY <1>1, <1>2, <1>3, EndpointFailsType DEF TypeInv
  <1>4. ASSUME ListServices,
               DOMAIN wanted' = DOMAIN Promised,
               \A k \in DOMAIN wanted' :
                  /\ k \in {obj} \X Slots
                  /\ wanted'[k] # None
                  /\ wanted'[k].owned /\ wanted'[k].ip # "unset" /\ wanted'[k].ports # {}
                  /\ wanted'[k].ip = Promised[k]
        PROVE  TypeInv'
    <2>1. ScheduleOK'
      BY <1>4, UnchangedTypes DEF ListServices, TypeInv
    <2>2. WorkerOK'
      <3>1. Labelled(obj) \subseteq Keys
        BY DEF Labelled, Keys
      <3> QED
        BY <1>2, <1>4, <3>1 DEF ListServices, TypeInv, WorkerOK, Valid, Enabled
    <2>3. PlanOK'
      <3>1. DOMAIN listed' = Labelled(obj)
        BY <1>4 DEF ListServices
      <3>2. Labelled(obj) \subseteq {obj} \X Slots
        BY <1>2, LabelledType
      <3>3. obj' = obj /\ pc' = "sync" /\ Promised' = Promised
        BY <1>4 DEF ListServices, Promised, Enabled
      <3> QED
        BY <1>4, <3>1, <3>2, <3>3 DEF PlanOK
    <2> QED
      BY <1>1, <2>1, <2>2, <2>3 DEF TypeInv
  <1>5. CASE ~Enabled(copy) /\ wanted' = << >> /\ ListServices
    BY <1>4, <1>5 DEF Promised
  <1>6. CASE /\ Enabled(copy) /\ ListServices
             /\ cache[copy.spec.ref] # None
             /\ wanted' = Services(obj, Resolve(copy.spec.endpoint),
                                   cache[copy.spec.ref].ports)
    <2>1. cache[copy.spec.ref].ports \in Seq(PortType)
      BY <1>2, <1>6 DEF TypeInv, ServerOK, ObjectsOK, TargetType
    <2>2. Resolve(copy.spec.endpoint) \in EndpointType
          /\ Normalizable(Resolve(copy.spec.endpoint))
      BY <1>2, <1>6, ResolveType, RegionalWorkloadAssumption DEF Valid
    <2>3. Promised = Addresses(obj, Resolve(copy.spec.endpoint))
      BY <1>6 DEF Promised
    <2> QED
      BY <1>4, <1>6, <2>1, <2>2, <2>3, ServicesType
  <1> QED
    BY <1>3, <1>5, <1>6 DEF DisableEndpoint, BuildServices

\* Less remains to be done.
LEMMA WithoutType ==
    ASSUME NEW f, NEW k
    PROVE  /\ DOMAIN Without(f, k) = DOMAIN f \ {k}
           /\ \A x \in DOMAIN f \ {k} : Without(f, k)[x] = f[x]
  BY DEF Without

\* One Service is done with: the rest of the plan stays as good as it was.
LEMMA SyncType ==
    ASSUME TypeInv, pc = "sync", NEW k \in ServiceKeys,
           \/ listed' = Without(listed, k) /\ wanted' = wanted /\ k \notin DOMAIN wanted
           \/ listed' = Without(listed, k) /\ wanted' = Without(wanted, k)
           \/ listed' = listed /\ wanted' = Without(wanted, k) /\ listed = << >>,
           UNCHANGED <<schedule, pc, obj, copy, fresh, candidates, target>>
    PROVE  ScheduleOK' /\ WorkerOK' /\ PlanOK'
  <1>1. ScheduleOK' /\ WorkerOK'
    BY UnchangedTypes DEF TypeInv
  <1>2. /\ DOMAIN listed' \subseteq DOMAIN listed /\ DOMAIN wanted' \subseteq DOMAIN wanted
        /\ \A x \in DOMAIN wanted' : wanted'[x] = wanted[x]
        /\ DOMAIN listed' \cap DOMAIN wanted \subseteq DOMAIN wanted'
    <2>1. CASE listed' = Without(listed, k) /\ wanted' = wanted
      BY <2>1, WithoutType, ZenonT(60)
    <2>2. CASE listed' = Without(listed, k) /\ wanted' = Without(wanted, k)
      BY <2>2, WithoutType, ZenonT(60)
    <2>3. CASE listed' = listed /\ wanted' = Without(wanted, k) /\ listed = << >>
      <3>1. DOMAIN listed' = {} /\ wanted' = Without(wanted, k)
        BY <2>3
      <3>2. /\ DOMAIN wanted' = DOMAIN wanted \ {k}
            /\ \A x \in DOMAIN wanted \ {k} : wanted'[x] = wanted[x]
        BY <3>1, WithoutType
      <3> QED
        BY <3>1, <3>2
    <2> QED
      BY <2>1, <2>2, <2>3
  <1>3. Promised' = Promised
    BY DEF Promised, Enabled
  <1> HIDE DEF Promised
  <1>4. PlanOK'
    BY <1>2, <1>3 DEF TypeInv, PlanOK
  <1> QED
    BY <1>1, <1>4

\* The Service k is deleted, updated or created.
LEMMA SyncServiceType ==
    ASSUME TypeInv, NEW k \in ServiceKeys, SyncService(k)
    PROVE  TypeInv'
  <1>1. EnvironmentOK'
    BY UnchangedTypes DEF SyncService, DeleteService, UpdateService, CreateService, TypeInv
  <1> DEFINE Failing == EndpointFails /\ UNCHANGED server
  <1>2. pc = "sync" /\ (pc' = pc \/ Failing)
    <2>1. DeleteService(k) => pc = "sync" /\ pc' = pc
      BY DEF DeleteService
    <2>2. UpdateService(k) => pc = "sync" /\ (pc' = pc \/ Failing)
      BY DEF UpdateService
    <2>3. CreateService(k) => pc = "sync" /\ (pc' = pc \/ Failing)
      BY DEF CreateService
    <2> QED
      BY <2>1, <2>2, <2>3 DEF SyncService
  <1>3. CASE Failing
    BY <1>1, <1>2, <1>3, EndpointFailsType, UnchangedTypes DEF TypeInv
  <1>4. CASE DeleteService(k)
    <2>1. ServerOK'
      BY <1>4, StoreType, KeyKinds, UnchangedTypes DEF DeleteService, TypeInv
    <2> QED
      BY <1>1, <1>2, <1>4, <2>1, SyncType DEF DeleteService, TypeInv, schedule
  <1>5. CASE UpdateService(k) /\ pc' = pc
    <2>1. k \in DOMAIN wanted
      BY <1>5 DEF UpdateService, TypeInv, PlanOK
    <2>2. wanted[k].ip # "unset" /\ wanted[k].ports # {}
      BY <2>1 DEF TypeInv, PlanOK
    <2>3. \/ Admissible(wanted[k]) /\ Store(k, wanted[k])
          \/ UNCHANGED server
      BY <1>5 DEF UpdateService, Update
    <2>4. ServerOK'
      BY <2>1, <2>2, <2>3, StoreType, KeyKinds, UnchangedTypes DEF TypeInv
    <2> QED
      BY <1>1, <1>2, <1>5, <2>4, SyncType DEF UpdateService, EndpointFails, TypeInv, schedule
  <1>6. CASE CreateService(k) /\ pc' = pc
    <2>1. wanted[k].ip # "unset" /\ wanted[k].ports # {}
      BY <1>6 DEF CreateService, TypeInv, PlanOK
    <2>2. \/ Admissible(wanted[k]) /\ stored[k] = None /\ Store(k, wanted[k])
          \/ UNCHANGED server
      BY <1>6 DEF CreateService
    <2>3. ServerOK'
      BY <2>1, <2>2, StoreType, KeyKinds, UnchangedTypes DEF TypeInv
    <2> QED
      BY <1>1, <1>2, <1>6, <2>3, SyncType DEF CreateService, EndpointFails, TypeInv, schedule
  <1> QED
    BY <1>2, <1>3, <1>4, <1>5, <1>6 DEF SyncService

\* The health of the target goes into the copy.
LEMMA HealthType ==
    ASSUME TypeInv, UpdateWorkloadHealth
    PROVE  TypeInv'
  <1>1. EnvironmentOK' /\ ServerOK' /\ ScheduleOK'
    BY UnchangedTypes DEF UpdateWorkloadHealth, TypeInv
  <1>2. pc = "sync" /\ copy \in WorkloadType /\ Valid(copy)
    BY RefType DEF UpdateWorkloadHealth
  <1>3. \A t : HealthOf(t) \in {"Healthy", "Degraded", "Unhealthy"}
    BY DEF HealthOf
  <1>4. copy' \in WorkloadType /\ copy'.spec = copy.spec
        /\ copy'.status.placement = copy.status.placement
    BY <1>2, <1>3, ZenonT(60) DEF UpdateWorkloadHealth, WorkloadType, StatusType, Answers
  <1>5. Valid(copy')
    BY <1>2, <1>4, SpecDecides
  <1>6. WorkerOK'
    BY <1>2, <1>4, <1>5 DEF UpdateWorkloadHealth, TypeInv, WorkerOK, plan, Valid, Enabled
  <1>7. PlanOK'
    BY <1>2 DEF UpdateWorkloadHealth, TypeInv, PlanOK, plan
  <1> QED
    BY <1>1, <1>6, <1>7 DEF TypeInv

\* The copy is a workload and may be stored.
LEMMA StoreCopyType ==
    ASSUME ServerOK, WorkerOK, pc # "idle", Store(obj, copy)
    PROVE  ServerOK'
  <1>1. obj \in Workloads /\ copy \in WorkloadType
    BY DEF WorkerOK
  <1> QED
    BY <1>1, StoreType, KeyKinds

\* The reconcile writes the status, or ends with an error.
LEMMA WriteType ==
    ASSUME TypeInv, WriteStatus \/ WriteRefused \/ WriteFails \/ ListFails
    PROVE  TypeInv'
  <1>1. pc # "idle"
    BY DEF WriteStatus, WriteRefused, WriteFails, ListFails, Writing
  <1>2. EnvironmentOK'
    BY DEF WriteStatus, WriteRefused, WriteFails, ListFails, Fault, outside, TypeInv,
           EnvironmentOK
  <1>3. ServerOK'
    <2>1. Store(obj, copy) \/ UNCHANGED server
      BY DEF WriteStatus, WriteRefused, WriteFails, ListFails
    <2> QED
      BY <1>1, <2>1, StoreCopyType, UnchangedTypes DEF TypeInv
  <1>4. Retry \/ Later \/ Done
    BY DEF WriteStatus, WriteRefused, WriteFails, ListFails, AfterError
  <1> QED
    BY <1>1, <1>2, <1>3, <1>4, EndType DEF TypeInv

\* A call of the later steps fails.
LEMMA FaultType ==
    ASSUME TypeInv, UpdateFails \/ SyncFails
    PROVE  TypeInv'
  <1>1. EnvironmentOK'
    BY DEF UpdateFails, SyncFails, Fault, TypeInv, EnvironmentOK
  <1>2. CASE UpdateFails
    <2>1. pc = "update" /\ Retry
      BY <1>2 DEF UpdateFails
    <2>2. \/ UNCHANGED server
          \/ Store(copy.spec.ref, [target EXCEPT !.pin = Pin(target)])
      BY <1>2 DEF UpdateFails
    <2>3. ServerOK'
      BY <2>1, <2>2, PinnedType, StoreType, KeyKinds, UnchangedTypes DEF TypeInv
    <2> QED
      BY <1>1, <2>1, <2>3, EndType DEF TypeInv
  <1>3. CASE SyncFails
    BY <1>1, <1>3, EndpointFailsType, UnchangedTypes DEF SyncFails, TypeInv
  <1> QED
    BY <1>2, <1>3

\* Events, timers and restarts.
LEMMA RuntimeType ==
    ASSUME TypeInv,
           \/ \E x \in Keys : Deliver(x)
           \/ \E w \in Workloads : TimerFires(w)
           \/ Restart
    PROVE  TypeInv'
  <1>1. ASSUME NEW x \in Keys, Deliver(x) PROVE TypeInv'
    <2>1. DOMAIN cache = Keys /\ cache' = [cache EXCEPT ![x] = stored[x]]
      BY <1>1 DEF Deliver, TypeInv, ServerOK, ObjectsOK
    <2>2. cache'[x] = stored[x] /\ \A y \in Keys \ {x} : cache'[y] = cache[y]
      BY <2>1
    <2>3. ObjectsOK(cache)'
      <3>1. \A y \in Keys : cache'[y] = stored[y] \/ cache'[y] = cache[y]
        BY <2>2
      <3>2. \A y \in Workloads \cup Targets \cup ServiceKeys :
               cache'[y] = stored[y] \/ cache'[y] = cache[y]
        BY <3>1 DEF Keys
      <3>3. \A w \in Workloads : cache'[w] \in WorkloadType \cup {None}
        BY <3>2 DEF TypeInv, ServerOK, ObjectsOK
      <3>4. \A t \in Targets : cache'[t] \in TargetType \cup {None}
        BY <3>2 DEF TypeInv, ServerOK, ObjectsOK
      <3>5. ASSUME NEW k \in ServiceKeys
            PROVE  cache'[k] # None =>
                      /\ cache'[k].ip # "unset" /\ cache'[k].ports # {}
                      /\ Admissible(cache'[k])
        <4>1. CASE cache'[k] = stored[k]
          BY <4>1 DEF TypeInv, ServerOK, ObjectsOK
        <4>2. CASE cache'[k] = cache[k]
          BY <4>2 DEF TypeInv, ServerOK, ObjectsOK
        <4> QED
          BY <3>2, <4>1, <4>2
      <3> QED
        BY <2>1, <3>3, <3>4, <3>5 DEF ObjectsOK
    <2>4. ServerOK'
      BY <1>1, <2>3 DEF Deliver, TypeInv, ServerOK, ObjectsOK
    <2>5. ScheduleOK'
      BY <1>1 DEF Deliver, TypeInv, ScheduleOK
    <2>6. EnvironmentOK' /\ WorkerOK' /\ PlanOK'
      BY <1>1, UnchangedTypes DEF Deliver, TypeInv, plan
    <2> QED
      BY <2>4, <2>5, <2>6 DEF TypeInv
  <1>2. ASSUME NEW w \in Workloads, TimerFires(w) PROVE TypeInv'
    <2>1. ScheduleOK'
      BY <1>2 DEF TimerFires, TypeInv, ScheduleOK
    <2>2. EnvironmentOK' /\ ServerOK' /\ WorkerOK' /\ PlanOK'
      BY <1>2, UnchangedTypes DEF TimerFires, TypeInv, plan
    <2> QED
      BY <2>1, <2>2 DEF TypeInv
  <1>3. CASE Restart
    <2>1. EnvironmentOK' /\ ScheduleOK'
      BY <1>3 DEF Restart, Fault, TypeInv, EnvironmentOK, ScheduleOK
    <2>2. ServerOK'
      BY <1>3 DEF Restart, TypeInv, ServerOK, ObjectsOK
    <2> QED
      BY <1>3, <2>1, <2>2, ReleaseType DEF Restart, TypeInv
  <1> QED
    BY <1>1, <1>2, <1>3

\* A write by someone else leaves the worker with a copy that is no longer current.
LEMMA OutsideStoreType ==
    ASSUME TypeInv, NEW key \in Keys, NEW value, Store(key, value),
           key \in Workloads => value \in WorkloadType \cup {None},
           key \in Targets => value \in TargetType \cup {None},
           key \in ServiceKeys => value \in Others \cup {None},
           fresh' = fresh \ {key}, touches' \in Nat,
           UNCHANGED <<nodes, verdicts, schedule, pc, obj, copy, plan>>
    PROVE  TypeInv'
  <1>1. ServerOK'
    BY StoreType, RegionalWorkloadAssumption DEF TypeInv
  <1>2. ScheduleOK' /\ WorkerOK' /\ PlanOK'
    BY UnchangedTypes DEF TypeInv, plan
  <1>3. EnvironmentOK'
    BY DEF TypeInv, EnvironmentOK
  <1> QED
    BY <1>1, <1>2, <1>3 DEF TypeInv

\* Users, the garbage collector, nodes and their verdicts.
LEMMA EnvironmentType ==
    ASSUME TypeInv,
           \/ \E w \in Workloads : EditSpec(w)
           \/ \E n \in NodeSet : NodeChanges(n)
           \/ \E n \in NodeNames : VerdictChanges(n)
           \/ \E t \in Targets : TargetChanges(t)
           \/ \E k \in ServiceKeys : ServiceChanges(k) \/ Collect(k)
    PROVE  TypeInv'
  <1>1. ASSUME NEW w \in Workloads, EditSpec(w) PROVE TypeInv'
    <2>1. stored[w] \in WorkloadType /\ w \in Keys /\ w \notin Targets \cup ServiceKeys
      BY <1>1, KeyKinds DEF EditSpec, TypeInv, ServerOK, ObjectsOK
    <2>2. PICK value \in WorkloadType \cup {None} : Store(w, value)
      BY <1>1, <2>1 DEF EditSpec, WorkloadType
    <2>3. /\ UNCHANGED <<nodes, verdicts, schedule, pc, obj, copy, plan>>
          /\ fresh' = fresh \ {w} /\ touches' \in Nat
      BY <1>1 DEF EditSpec, TypeInv, EnvironmentOK
    <2> QED
      BY <2>1, <2>2, <2>3, OutsideStoreType
  <1>2. ASSUME NEW t \in Targets, TargetChanges(t) PROVE TypeInv'
    <2>1. t \in Keys /\ t \notin Workloads \cup ServiceKeys
      BY KeyKinds
    <2>2. PICK value \in TargetStates \cup {None} : Touch(t, value)
      BY <1>2 DEF TargetChanges
    <2>3. value \in TargetType \cup {None}
      BY RegionalWorkloadAssumption
    <2> QED
      BY <2>1, <2>2, <2>3, OutsideStoreType DEF Touch, TypeInv, EnvironmentOK
  <1>3. ASSUME NEW k \in ServiceKeys, ServiceChanges(k) \/ Collect(k) PROVE TypeInv'
    <2>1. k \in Keys /\ k \notin Workloads \cup Targets
      BY KeyKinds
    <2>2. PICK value \in Others \cup {None} : Store(k, value)
      BY <1>3 DEF ServiceChanges, Touch, Collect
    <2>3. /\ fresh' = fresh \ {k} /\ touches' \in Nat
          /\ UNCHANGED <<nodes, verdicts, schedule, pc, obj, copy, plan>>
      BY <1>3 DEF ServiceChanges, Touch, Collect, outside, TypeInv, EnvironmentOK
    <2> QED
      BY <2>1, <2>2, <2>3, OutsideStoreType
  <1>4. ASSUME Change, nodes' \subseteq NodeSet,
               verdicts' \in [NodeNames -> SUBSET {"Healthy", "Unhealthy"}]
        PROVE  TypeInv'
    BY <1>4, UnchangedTypes DEF Change, TypeInv, EnvironmentOK, plan
  <1>5. ASSUME NEW n \in NodeSet, NodeChanges(n) PROVE TypeInv'
    BY <1>4, <1>5 DEF NodeChanges, TypeInv, EnvironmentOK
  <1>6. ASSUME NEW n \in NodeNames, VerdictChanges(n) PROVE TypeInv'
    BY <1>4, <1>6 DEF VerdictChanges, TypeInv, EnvironmentOK
  <1> QED
    BY <1>1, <1>2, <1>3, <1>5, <1>6

\* Every step keeps the state well formed.
LEMMA NextType ==
    ASSUME TypeInv, [Next]_vars
    PROVE  TypeInv'
  <1>1. CASE UNCHANGED vars
    BY <1>1, UnchangedTypes DEF vars, TypeInv, outside, server, schedule
  <1>2. CASE Reconcile
    BY <1>2, ListNodesType, SelectNodeType, GetTargetType, UpdateTargetType,
       ListServicesType, SyncServiceType, HealthType, WriteType, FaultType
       DEF Reconcile
  <1> QED
    BY <1>1, <1>2, FetchType, RuntimeType, EnvironmentType DEF Next

----------------------------------------------------------------------------
(* Copies. *)

\* A write by the worker: neither the cache nor a copy of anything else is affected.
LEMMA StoreCurrent ==
    ASSUME ServerOK, CopiesCurrent, NEW key \in Keys, NEW value, Store(key, value)
    PROVE  /\ \A x \in synced' : cache'[x] = stored'[x]
           /\ \A x \in Keys \ {key} : stored'[x] = stored[x]
  BY DEF ServerOK, ObjectsOK, CopiesCurrent, Store

\* The steps of the worker keep its copies as current as it takes them to be.
LEMMA ReconcileCurrent ==
    ASSUME TypeInv, CopiesCurrent, Reconcile
    PROVE  CopiesCurrent'
  <1>1. ASSUME UNCHANGED server, UNCHANGED <<obj, fresh>>,
               pc' \notin {"idle", "update"},
               pc' \in {"list", "select", "apply", "reject", "unplaced"}
                  => pc \in {"list", "select", "apply", "reject", "unplaced"}
        PROVE  CopiesCurrent'
    BY <1>1 DEF CopiesCurrent, server
  <1>2. ASSUME Release, \A x \in synced' : cache'[x] = stored'[x]
        PROVE  CopiesCurrent'
    BY <1>2 DEF CopiesCurrent, Release
  <1>3. ASSUME NEW key \in Keys, NEW value, Store(key, value) \/ UNCHANGED server
        PROVE  \A x \in synced' : cache'[x] = stored'[x]
    BY <1>3, StoreCurrent DEF TypeInv, CopiesCurrent, server
  <1>4. CASE ListNodes \/ SelectNode \/ UpdateWorkloadHealth \/ SyncFails
    <2>1. pc' \in {"select", "apply", "unplaced", "write", "failed"}
      BY <1>4 DEF ListNodes, SelectNode, UpdateWorkloadHealth, SyncFails, EndpointFails
    <2>2. UNCHANGED server /\ UNCHANGED <<obj, fresh>>
      BY <1>4 DEF ListNodes, SelectNode, UpdateWorkloadHealth, SyncFails, EndpointFails
    <2>3. pc' \in {"select", "apply", "unplaced"} => pc \in {"list", "select"}
      BY <1>4 DEF ListNodes, SelectNode, UpdateWorkloadHealth, SyncFails, EndpointFails
    <2> QED
      BY <1>1, <2>1, <2>2, <2>3
  <1>5. CASE GetTarget
    <2>1. CASE Retry
      BY <1>2, <1>3, <1>5, <2>1 DEF GetTarget, Retry, CopiesCurrent, server
    <2>2. CASE /\ copy.spec.ref # "unsupported" /\ cache[copy.spec.ref] # None
               /\ target' = cache[copy.spec.ref]
               /\ fresh' = fresh \cup (synced \cap {copy.spec.ref})
               /\ pc' \in {"services", "update"}
               /\ UNCHANGED copy
      <3>1. pc = "apply" /\ UNCHANGED server /\ fresh \subseteq {obj}
        BY <1>5 DEF GetTarget, CopiesCurrent
      <3>2. copy.spec.ref \in Targets /\ copy.spec.ref # obj
        BY <2>2, <3>1, RefType, RegionalWorkloadAssumption
      <3>3. copy.spec.ref \in fresh' => target' = stored[copy.spec.ref]
        BY <2>2, <3>1, <3>2 DEF CopiesCurrent
      <3> QED
        BY <2>2, <3>1, <3>3 DEF CopiesCurrent, server
    <2> QED
      BY <1>5, <2>1, <2>2 DEF GetTarget
  <1>6. CASE UpdateTarget \/ UpdateFails
    <2>1. pc = "update" /\ copy.spec.ref \in Keys
      BY <1>6, PinnedType, KeyKinds DEF UpdateTarget, UpdateFails
    <2>2. \/ UNCHANGED server
          \/ Store(copy.spec.ref, [target EXCEPT !.pin = Pin(target)])
      BY <1>6 DEF UpdateTarget, UpdateFails
    <2>3. \A x \in synced' : cache'[x] = stored'[x]
      BY <1>3, <2>1, <2>2
    <2>4. Release \/ pc' = "services"
      BY <1>6 DEF UpdateTarget, UpdateFails, Retry
    <2> QED
      BY <1>2, <2>3, <2>4 DEF CopiesCurrent
  <1>7. CASE DisableEndpoint \/ BuildServices
    <2>1. pc' \in {"sync", "failed"} /\ UNCHANGED server
      BY <1>7 DEF DisableEndpoint, BuildServices, ListServices, EndpointFails
    <2> QED
      BY <2>1 DEF CopiesCurrent, server
  <1>8. ASSUME NEW k \in ServiceKeys, SyncService(k)
        PROVE  CopiesCurrent'
    <2>1. \E value : Store(k, value) \/ UNCHANGED server
      BY <1>8 DEF SyncService, DeleteService, UpdateService, CreateService, Update
    <2>2. \A x \in synced' : cache'[x] = stored'[x]
      BY <1>3, <2>1, KeyKinds
    <2>3. pc' \in {"sync", "failed"}
      BY <1>8 DEF SyncService, DeleteService, UpdateService, CreateService, EndpointFails
    <2> QED
      BY <2>2, <2>3 DEF CopiesCurrent
  <1>9. CASE WriteStatus \/ WriteRefused \/ WriteFails \/ ListFails
    <2>1. Store(obj, copy) \/ UNCHANGED server
      BY <1>9 DEF WriteStatus, WriteRefused, WriteFails, ListFails
    <2>2. Release
      BY <1>9 DEF WriteStatus, WriteRefused, WriteFails, ListFails, AfterError, Retry,
                  Later, Done
    <2>3. obj \in Keys
      BY <1>9, KeyKinds
         DEF WriteStatus, WriteRefused, WriteFails, ListFails, Writing, TypeInv, WorkerOK
    <2> QED
      BY <1>2, <1>3, <2>1, <2>2, <2>3
  <1> QED
    BY <1>4, <1>5, <1>6, <1>7, <1>8, <1>9 DEF Reconcile

\* The events, the environment and restarts take away what is no longer current.
LEMMA OthersCurrent ==
    ASSUME TypeInv, CopiesCurrent,
           \/ \E x \in Keys : Deliver(x)
           \/ \E w \in Workloads : TimerFires(w) \/ Fetch(w) \/ EditSpec(w)
           \/ Restart
           \/ \E n \in NodeSet : NodeChanges(n)
           \/ \E n \in NodeNames : VerdictChanges(n)
           \/ \E t \in Targets : TargetChanges(t)
           \/ \E k \in ServiceKeys : ServiceChanges(k) \/ Collect(k)
    PROVE  CopiesCurrent'
  <1>1. ASSUME NEW x \in Keys, Deliver(x) PROVE CopiesCurrent'
    <2>1. /\ DOMAIN cache = Keys /\ synced \subseteq Keys
          /\ cache' = [cache EXCEPT ![x] = stored[x]]
          /\ synced' = synced \cup {x} /\ UNCHANGED <<stored, pc, obj, copy, fresh, target>>
      BY <1>1 DEF Deliver, TypeInv, ServerOK, ObjectsOK, plan
    <2>2. cache'[x] = stored[x] /\ \A y \in Keys \ {x} : cache'[y] = cache[y]
      BY <2>1
    <2> QED
      BY <2>1, <2>2 DEF CopiesCurrent
  <1>2. ASSUME NEW w \in Workloads, Fetch(w) PROVE CopiesCurrent'
    BY <1>2 DEF Fetch, CopiesCurrent, server
  <1>3. CASE Restart
    BY <1>3 DEF Restart, Release, CopiesCurrent
  <1>4. ASSUME NEW key \in Keys, NEW value, Store(key, value), fresh' = fresh \ {key},
               UNCHANGED <<pc, obj, copy, plan>>
        PROVE  CopiesCurrent'
    <2>1. /\ \A x \in synced' : cache'[x] = stored'[x]
          /\ \A x \in Keys \ {key} : stored'[x] = stored[x]
      BY <1>4, StoreCurrent DEF TypeInv
    <2>2. pc = "update" /\ copy.spec.ref \in fresh' => target = stored'[copy.spec.ref]
      BY <1>4, <2>1 DEF CopiesCurrent, TypeInv, WorkerOK
    <2> QED
      BY <1>4, <2>1, <2>2 DEF CopiesCurrent, plan
  <1>5. ASSUME UNCHANGED <<stored, cache, synced, pc, obj, copy, fresh, plan>>
        PROVE  CopiesCurrent'
    BY <1>5 DEF CopiesCurrent, plan
  <1>6. ASSUME NEW w \in Workloads, TimerFires(w) PROVE CopiesCurrent'
    BY <1>5, <1>6 DEF TimerFires, server
  <1>7. ASSUME Change PROVE CopiesCurrent'
    BY <1>5, <1>7 DEF Change, server
  <1>8. ASSUME NEW w \in Workloads, EditSpec(w) PROVE CopiesCurrent'
    BY <1>4, <1>8, KeyKinds DEF EditSpec
  <1>9. ASSUME NEW t \in Targets, TargetChanges(t) PROVE CopiesCurrent'
    BY <1>4, <1>9, KeyKinds DEF TargetChanges, Touch
  <1>10. ASSUME NEW k \in ServiceKeys, ServiceChanges(k) \/ Collect(k) PROVE CopiesCurrent'
    BY <1>4, <1>10, KeyKinds DEF ServiceChanges, Touch, Collect
  <1> QED
    BY <1>1, <1>2, <1>3, <1>6, <1>7, <1>8, <1>9, <1>10 DEF NodeChanges, VerdictChanges

\* TypeInv and CopiesCurrent are invariants of the controller.
LEMMA WellFormed == Spec => [](TypeInv /\ CopiesCurrent)
<1>1. TypeInv /\ CopiesCurrent /\ [Next]_vars => (TypeInv /\ CopiesCurrent)'
  <2> SUFFICES ASSUME TypeInv, CopiesCurrent, [Next]_vars PROVE CopiesCurrent'
    BY NextType
  <2>1. CASE UNCHANGED vars
    BY <2>1 DEF vars, CopiesCurrent
  <2> QED
    BY <2>1, ReconcileCurrent, OthersCurrent DEF Next
<1> QED
  BY <1>1, InitType, PTL DEF Spec

\* The worker's list holds Services that carried the workload's label, and the current
\* version of those it takes for current.
ListCurrent ==
    /\ pc \notin {"sync", "failed", "write"} => fresh \cap ServiceKeys = {}
    /\ pc = "sync" =>
          \A k \in DOMAIN listed : listed[k].owned /\ (k \in fresh => stored[k] = listed[k])

\* The steps of the worker keep its list as current as it takes it to be.
LEMMA ReconcileListCurrent ==
    ASSUME TypeInv, CopiesCurrent, ListCurrent, Reconcile
    PROVE  ListCurrent'
  <1>1. ASSUME Release PROVE ListCurrent'
    BY <1>1 DEF Release, ListCurrent
  <1>2. ASSUME pc' \in {"failed", "write"} PROVE ListCurrent'
    BY <1>2 DEF ListCurrent
  <1>3. ASSUME pc \notin {"sync", "failed", "write"}, pc' # "sync", UNCHANGED fresh
        PROVE  ListCurrent'
    BY <1>3 DEF ListCurrent
  <1>4. CASE ListNodes \/ SelectNode \/ UpdateTarget
    <2>1. \/ Release
          \/ /\ UNCHANGED fresh
             /\ pc' \in {"select", "apply", "unplaced", "services"}
      BY <1>4 DEF ListNodes, SelectNode, UpdateTarget, Retry
    <2>2. pc \notin {"sync", "failed", "write"}
      BY <1>4 DEF ListNodes, SelectNode, UpdateTarget
    <2> QED
      BY <1>1, <1>3, <2>1, <2>2
  <1>5. CASE GetTarget
    <2>1. CASE Retry
      BY <1>1, <2>1 DEF Retry
    <2>2. CASE /\ copy.spec.ref # "unsupported" /\ cache[copy.spec.ref] # None
               /\ fresh' = fresh \cup (synced \cap {copy.spec.ref})
               /\ pc' \in {"services", "update"}
      <3>1. pc = "apply"
        BY <1>5 DEF GetTarget
      <3>2. copy.spec.ref \notin ServiceKeys
        BY <2>2, <3>1, RefType, KeyKinds
      <3> QED
        BY <2>2, <3>1, <3>2 DEF ListCurrent
    <2> QED
      BY <1>5, <2>1, <2>2 DEF GetTarget
  <1>6. CASE DisableEndpoint \/ BuildServices
    <2>1. pc = "services" /\ obj \in Workloads /\ UNCHANGED server
      BY <1>6, RefType DEF DisableEndpoint, BuildServices
    <2>2. CASE EndpointFails
      BY <1>2, <2>2 DEF EndpointFails
    <2>3. CASE ListServices
      <3>1. /\ DOMAIN listed' = Labelled(obj) /\ pc' = "sync"
            /\ \A k \in Labelled(obj) : listed'[k] = cache[k]
            /\ fresh' = fresh \cup (synced \cap Labelled(obj))
        BY <2>3 DEF ListServices
      <3>2. Labelled(obj) \subseteq ServiceKeys
        BY DEF Labelled
      <3>3. \A k \in Labelled(obj) : k \in fresh' => k \in synced
        BY <2>1, <3>1, <3>2 DEF ListCurrent
      <3>4. \A k \in Labelled(obj) : cache[k].owned
        BY <2>1, LabelledType
      <3>5. \A k \in synced : cache[k] = stored'[k]
        BY <2>1 DEF CopiesCurrent, server
      <3>6. \A k \in DOMAIN listed' :
               listed'[k].owned /\ (k \in fresh' => stored'[k] = listed'[k])
        BY <3>1, <3>3, <3>4, <3>5
      <3> QED
        BY <3>1, <3>6 DEF ListCurrent
    <2> QED
      BY <1>6, <2>2, <2>3 DEF DisableEndpoint, BuildServices
  <1>7. ASSUME NEW k \in ServiceKeys, SyncService(k) PROVE ListCurrent'
    <2>1. CASE EndpointFails
      BY <1>2, <2>1 DEF EndpointFails
    <2>2. CASE UNCHANGED <<pc, fresh>>
      <3>1. \E value : Store(k, value) \/ UNCHANGED server
        BY <1>7 DEF SyncService, DeleteService, UpdateService, CreateService, Update
      <3>2. \A x \in DOMAIN stored \ {k} : stored'[x] = stored[x]
        BY <3>1 DEF Store, server
      <3>3. pc = "sync" /\ DOMAIN stored = Keys
        BY <1>7 DEF SyncService, DeleteService, UpdateService, CreateService, TypeInv,
                    ServerOK, ObjectsOK
      <3>4. \/ /\ DOMAIN listed' = DOMAIN listed \ {k}
               /\ \A x \in DOMAIN listed \ {k} : listed'[x] = listed[x]
            \/ DOMAIN listed' = {}
        <4>1. CASE DeleteService(k)
          BY <4>1, WithoutType DEF DeleteService
        <4>2. CASE UpdateService(k)
          <5>1. listed' = Without(listed, k)
            BY <2>2, <4>2 DEF UpdateService, EndpointFails
          <5> QED
            BY <5>1, WithoutType
        <4>3. CASE CreateService(k)
          <5>1. listed' = << >>
            BY <2>2, <4>3 DEF CreateService, EndpointFails
          <5> QED
            BY <5>1
        <4> QED
          BY <1>7, <4>1, <4>2, <4>3 DEF SyncService
      <3>5. DOMAIN listed \subseteq Keys
        <4>1. DOMAIN listed \subseteq ServiceKeys
          BY <3>3, RefType DEF TypeInv, PlanOK, ServiceKeys
        <4> QED
          BY <4>1 DEF Keys
      <3> QED
        BY <2>2, <3>2, <3>3, <3>4, <3>5 DEF ListCurrent
    <2> QED
      BY <1>7, <2>1, <2>2 DEF SyncService, DeleteService, UpdateService, CreateService
  <1>8. CASE UpdateWorkloadHealth \/ SyncFails
    BY <1>2, <1>8 DEF UpdateWorkloadHealth, SyncFails, EndpointFails
  <1>9. CASE WriteStatus \/ WriteRefused \/ WriteFails \/ ListFails \/ UpdateFails
    BY <1>1, <1>9 DEF WriteStatus, WriteRefused, WriteFails, ListFails, UpdateFails,
                      AfterError, Retry, Later, Done
  <1> QED
    BY <1>4, <1>5, <1>6, <1>7, <1>8, <1>9 DEF Reconcile

\* What others write is no longer taken for current.
LEMMA OthersListCurrent ==
    ASSUME TypeInv, ListCurrent, [Next]_vars, ~Reconcile
    PROVE  ListCurrent'
  <1>1. ASSUME UNCHANGED <<stored, pc, fresh, listed>> PROVE ListCurrent'
    BY <1>1 DEF ListCurrent
  <1>2. ASSUME NEW key, NEW value, Store(key, value), fresh' = fresh \ {key},
               UNCHANGED <<pc, listed>>
        PROVE  ListCurrent'
    <2>1. \A x \in DOMAIN stored \ {key} : stored'[x] = stored[x]
      BY <1>2 DEF Store
    <2>2. DOMAIN stored = Keys /\ fresh \subseteq Keys
      BY DEF TypeInv, ServerOK, ObjectsOK, WorkerOK
    <2>3. \A x \in fresh' : stored'[x] = stored[x] /\ x \in fresh
      BY <1>2, <2>1, <2>2
    <2> QED
      BY <1>2, <2>3 DEF ListCurrent
  <1>3. ASSUME NEW w \in Workloads, Fetch(w) PROVE ListCurrent'
    <2>1. pc = "idle" /\ pc' \in {"idle", "list", "reject"}
          /\ (UNCHANGED fresh \/ fresh' \subseteq {w})
      BY <1>3 DEF Fetch
    <2> QED
      BY <2>1, KeyKinds DEF ListCurrent
  <1>4. ASSUME NEW w \in Workloads, TimerFires(w) \/ EditSpec(w) PROVE ListCurrent'
    BY <1>1, <1>2, <1>4 DEF TimerFires, EditSpec, server, plan
  <1>5. CASE \E x \in Keys : Deliver(x)
    BY <1>1, <1>5 DEF Deliver, plan
  <1>6. CASE Restart
    BY <1>6 DEF Restart, Release, ListCurrent
  <1>7. CASE Change
    BY <1>1, <1>7 DEF Change, server, plan
  <1>8. CASE \E t \in Targets : TargetChanges(t)
    BY <1>2, <1>8 DEF TargetChanges, Touch, plan
  <1>9. CASE \E k \in ServiceKeys : ServiceChanges(k) \/ Collect(k)
    BY <1>2, <1>9 DEF ServiceChanges, Touch, Collect, plan
  <1>10. CASE UNCHANGED vars
    BY <1>1, <1>10 DEF vars
  <1> QED
    BY <1>3, <1>4, <1>5, <1>6, <1>7, <1>8, <1>9, <1>10 DEF Next, NodeChanges, VerdictChanges

\* ListCurrent is an invariant of the controller.
LEMMA ListKept == Spec => []ListCurrent
<1>1. Init => ListCurrent
  BY DEF Init, ListCurrent
<1>2. TypeInv /\ CopiesCurrent /\ ListCurrent /\ [Next]_vars => ListCurrent'
  BY ReconcileListCurrent, OthersListCurrent
<1> QED
  BY <1>1, <1>2, WellFormed, PTL DEF Spec

\* The controller's state stays well formed, for any workloads, targets, specs and nodes.
THEOREM TypeCorrect == Spec => []TypeOK
  BY WellFormed, TypeInvImplies, PTL

----------------------------------------------------------------------------
(* Scheduling. *)

\* The steps of a reconcile write nothing under a key that the cache then still holds
\* as current.
LEMMA WritesUnsync ==
    ASSUME TypeInv, Reconcile
    PROVE  \A w \in Workloads : w \in synced' => w \in synced /\ stored'[w] = stored[w]
  <1>1. ASSUME NEW key, NEW value, Store(key, value) \/ UNCHANGED server
        PROVE  \A w \in Workloads : w \in synced' => w \in synced /\ stored'[w] = stored[w]
    <2>1. CASE Store(key, value)
      <3>1. DOMAIN stored = Keys /\ stored' = [stored EXCEPT ![key] = value]
            /\ synced' = synced \ {key}
        BY <2>1 DEF Store, TypeInv, ServerOK, ObjectsOK
      <3> QED
        BY <3>1, KeyKinds
    <2> QED
      BY <1>1, <2>1 DEF server
  <1>2. \E key, value : Store(key, value) \/ UNCHANGED server
    <2>1. CASE \E k \in ServiceKeys : SyncService(k)
      BY <2>1 DEF SyncService, DeleteService, UpdateService, CreateService, Update
    <2>2. CASE ListNodes \/ SelectNode \/ GetTarget \/ DisableEndpoint \/ BuildServices
                  \/ UpdateWorkloadHealth
      BY <2>2 DEF ListNodes, SelectNode, GetTarget, DisableEndpoint, BuildServices,
                  UpdateWorkloadHealth
    <2>3. CASE UpdateTarget \/ WriteStatus \/ WriteRefused \/ WriteFails
                  \/ ListFails \/ UpdateFails \/ SyncFails
      BY <2>3 DEF UpdateTarget, WriteStatus, WriteRefused, WriteFails, ListFails, UpdateFails,
                  SyncFails
    <2> QED
      BY <2>1, <2>2, <2>3 DEF Reconcile
  <1> QED
    BY <1>1, <1>2

\* A reconcile ends with a requeue, unless it has stored the rejection of the spec.
LEMMA ReconcileSchedules ==
    ASSUME TypeInv, Reconcile
    PROVE  \/ Retry \/ Later \/ UNCHANGED <<schedule, obj>>
           \/ Done /\ (obj \notin synced' \/ ~Valid(stored'[obj]))
  <1>1. CASE \E k \in ServiceKeys : SyncService(k)
    BY <1>1 DEF SyncService, DeleteService, UpdateService, CreateService, EndpointFails,
                schedule
  <1>2. CASE WriteStatus
    <2>1. CASE pc = "reject"
      <3>1. ~Valid(copy)
        BY <2>1 DEF TypeInv, WorkerOK
      <3>2. obj \notin synced' \/ ~Valid(stored'[obj])
        BY <1>2, <3>1 DEF WriteStatus, Store, server
      <3> QED
        BY <1>2, <2>1, <3>2 DEF WriteStatus
    <2> QED
      BY <1>2, <2>1 DEF WriteStatus
  <1>3. CASE WriteRefused \/ WriteFails \/ ListFails \/ UpdateFails
    BY <1>3 DEF WriteRefused, WriteFails, ListFails, UpdateFails, AfterError
  <1>4. CASE ListNodes \/ SelectNode \/ UpdateWorkloadHealth \/ SyncFails
    BY <1>4 DEF ListNodes, SelectNode, UpdateWorkloadHealth, SyncFails, EndpointFails, schedule
  <1>5. CASE GetTarget \/ UpdateTarget
    BY <1>5 DEF GetTarget, UpdateTarget, schedule
  <1>6. CASE DisableEndpoint \/ BuildServices
    BY <1>6 DEF DisableEndpoint, BuildServices, ListServices, EndpointFails, schedule
  <1> QED
    BY <1>1, <1>2, <1>3, <1>4, <1>5, <1>6 DEF Reconcile

\* Nodes, verdicts and targets are not watched: a workload whose spec is valid is brought
\* back by its requeue alone, and no path through the handler loses it, whatever fails,
\* lags behind or is edited meanwhile.
THEOREM NeverForgotten == Spec => []AlwaysScheduled
<1>1. Init => AlwaysScheduled
  BY DEF Init, AlwaysScheduled
<1>2. TypeInv /\ CopiesCurrent /\ AlwaysScheduled /\ [Next]_vars => AlwaysScheduled'
  <2> SUFFICES ASSUME TypeInv, CopiesCurrent, AlwaysScheduled, [Next]_vars,
                      NEW w \in Workloads, stored'[w] # None, Valid(stored'[w]),
                      w \in synced'
               PROVE  w \in queue' \cup delayed' \/ obj' = w
    BY DEF AlwaysScheduled, Valid, Enabled
  <2>a. w # None /\ (pc = "idle" => obj = None)
    BY RegionalWorkloadAssumption DEF Keys, TypeInv, WorkerOK
  <2>b. ASSUME w \in synced, stored'[w] = stored[w]
        PROVE  w \in queue \cup delayed \/ obj = w
    BY <2>b DEF AlwaysScheduled
  <2>c. ASSUME NEW key \in Keys, NEW value, Store(key, value)
        PROVE  w \in synced /\ stored'[w] = stored[w]
    <3>1. DOMAIN stored = Keys /\ stored' = [stored EXCEPT ![key] = value]
          /\ synced' = synced \ {key}
      BY <2>c DEF Store, TypeInv, ServerOK, ObjectsOK
    <3> QED
      BY <3>1, KeyKinds
  <2>1. ASSUME NEW v \in Workloads, Fetch(v) PROVE w \in queue' \cup delayed' \/ obj' = w
    BY <2>1, <2>a, <2>b DEF Fetch, server, CopiesCurrent
  <2>2. ASSUME NEW v \in Workloads, TimerFires(v) PROVE w \in queue' \cup delayed' \/ obj' = w
    BY <2>2, <2>b DEF TimerFires, server
  <2>3. ASSUME NEW v \in Workloads, EditSpec(v) PROVE w \in queue' \cup delayed' \/ obj' = w
    BY <2>3, <2>b, <2>c, KeyKinds DEF EditSpec, schedule
  <2>4. CASE Reconcile
    <3>1. w \in synced /\ stored'[w] = stored[w]
      BY <2>4, WritesUnsync
    <3>2. CASE Retry \/ Later \/ UNCHANGED <<schedule, obj>>
      BY <2>b, <3>1, <3>2 DEF Retry, Later, schedule
    <3>3. CASE Done /\ (obj \notin synced' \/ ~Valid(stored'[obj]))
      BY <2>b, <3>1, <3>3 DEF Done, schedule
    <3> QED
      BY <2>4, <3>2, <3>3, ReconcileSchedules
  <2>5. ASSUME NEW x \in Keys, Deliver(x) PROVE w \in queue' \cup delayed' \/ obj' = w
    BY <2>5, <2>b DEF Deliver
  <2>6. CASE Restart
    BY <2>6 DEF Restart
  <2>7. CASE Change
    BY <2>7, <2>b DEF Change, server, schedule
  <2>8. ASSUME NEW t \in Targets, TargetChanges(t) PROVE w \in queue' \cup delayed' \/ obj' = w
    BY <2>8, <2>b, <2>c, KeyKinds DEF TargetChanges, Touch, schedule
  <2>9. ASSUME NEW k \in ServiceKeys, ServiceChanges(k) \/ Collect(k)
        PROVE  w \in queue' \cup delayed' \/ obj' = w
    BY <2>9, <2>b, <2>c, KeyKinds DEF ServiceChanges, Touch, Collect, schedule
  <2>10. CASE UNCHANGED vars
    BY <2>10, <2>b DEF vars
  <2> QED
    BY <2>1, <2>2, <2>3, <2>4, <2>5, <2>6, <2>7, <2>8, <2>9, <2>10
       DEF Next, NodeChanges, VerdictChanges
<1> QED
  BY <1>1, <1>2, WellFormed, PTL DEF Spec

----------------------------------------------------------------------------
(* What the controller writes. *)

\* A write changes the object under its key alone.
LEMMA StoreOnly ==
    ASSUME ServerOK, NEW key, NEW value, Store(key, value)
    PROVE  /\ \A x \in Keys \ {key} : stored'[x] = stored[x]
           /\ key \in Keys => stored'[key] = value
  BY DEF Store, ServerOK, ObjectsOK

\* Apart from what others do to targets and Services, a target changes only when it is
\* pinned, from a copy that is current, and a Service only when it is synced or
\* collected.
LEMMA WhoWrites ==
    ASSUME TypeInv, [Next]_vars, touches' = touches,
           NEW x \in Targets \cup ServiceKeys, stored'[x] # stored[x]
    PROVE  \/ /\ x \in Targets /\ pc = "update" /\ x = copy.spec.ref /\ x \in fresh
              /\ Store(x, [target EXCEPT !.pin = Pin(target)])
           \/ x \in ServiceKeys /\ (SyncService(x) \/ Collect(x))
  <1>0. x \in Keys /\ x \notin Workloads
    BY KeyKinds
  <1>1. ~UNCHANGED server /\ ~UNCHANGED stored
    BY DEF server
  <1>2. ASSUME NEW key, NEW value, Store(key, value) PROVE x = key
    BY <1>0, <1>2, StoreOnly DEF TypeInv
  <1>3. CASE \E w \in Workloads : Fetch(w) \/ TimerFires(w) \/ EditSpec(w)
    BY <1>0, <1>1, <1>2, <1>3 DEF Fetch, TimerFires, EditSpec
  <1>4. CASE Reconcile
    <2>1. CASE \E k \in ServiceKeys : SyncService(k)
      <3>1. PICK k \in ServiceKeys : SyncService(k)
        BY <2>1
      <3>2. \E value : Store(k, value)
        BY <1>1, <3>1 DEF SyncService, DeleteService, UpdateService, CreateService, Update
      <3> QED
        BY <1>2, <3>1, <3>2
    <2>2. CASE UpdateTarget \/ UpdateFails
      <3>1. /\ pc = "update" /\ copy.spec.ref \in fresh
            /\ Store(copy.spec.ref, [target EXCEPT !.pin = Pin(target)])
        BY <1>1, <2>2 DEF UpdateTarget, UpdateFails
      <3>2. copy.spec.ref \in Targets
        BY <3>1, PinnedType
      <3>3. x = copy.spec.ref
        BY <1>2, <3>1
      <3> QED
        BY <3>1, <3>2, <3>3
    <2>3. CASE WriteStatus \/ WriteFails
      <3>1. Store(obj, copy) /\ obj \in Workloads
        BY <1>1, <2>3 DEF WriteStatus, WriteFails, Writing, TypeInv, WorkerOK
      <3> QED
        BY <1>0, <1>2, <3>1
    <2>4. CASE ListNodes \/ SelectNode \/ GetTarget \/ DisableEndpoint \/ BuildServices
                  \/ UpdateWorkloadHealth \/ WriteRefused \/ ListFails \/ SyncFails
      BY <1>1, <2>4 DEF ListNodes, SelectNode, GetTarget, DisableEndpoint, BuildServices,
                        UpdateWorkloadHealth, WriteRefused, ListFails, SyncFails
    <2> QED
      BY <1>4, <2>1, <2>2, <2>3, <2>4 DEF Reconcile
  <1>5. CASE (\E y \in Keys : Deliver(y)) \/ Restart
    BY <1>1, <1>5 DEF Deliver, Restart
  <1>6. CASE \/ \E n \in NodeSet : NodeChanges(n)
             \/ \E n \in NodeNames : VerdictChanges(n)
    BY <1>1, <1>6 DEF NodeChanges, VerdictChanges, Change
  <1>7. touches + 1 # touches
    BY DEF TypeInv, EnvironmentOK
  <1>8. CASE \E t \in Targets : TargetChanges(t)
    BY <1>7, <1>8 DEF TargetChanges, Touch
  <1>9. CASE \E k \in ServiceKeys : ServiceChanges(k) \/ Collect(k)
    <2>1. PICK k \in ServiceKeys : ServiceChanges(k) \/ Collect(k)
      BY <1>9
    <2>2. Collect(k)
      BY <1>7, <2>1 DEF ServiceChanges, Touch
    <2>3. x = k
      BY <1>2, <2>2 DEF Collect
    <2> QED
      BY <2>1, <2>2, <2>3
  <1>10. CASE UNCHANGED vars
    BY <1>1, <1>10 DEF vars
  <1> QED
    BY <1>3, <1>4, <1>5, <1>6, <1>8, <1>9, <1>10 DEF Next

\* The pin written is the one the target should have as it is stored, not as it once was
\* read: a copy that no longer is what the API server has is never written.
THEOREM PinsOnly == Spec => OnlyPinsChange
<1> DEFINE PinChanges ==
             \A t \in Targets : stored'[t] # stored[t] /\ touches' = touches =>
                /\ stored[t] # None
                /\ stored'[t] = [stored[t] EXCEPT !.pin = stored'[t].pin]
                /\ stored[t].optOut => stored'[t].pin = None
<1>1. TypeInv /\ CopiesCurrent /\ [Next]_vars => PinChanges
  <2> SUFFICES ASSUME TypeInv, CopiesCurrent, [Next]_vars,
                      NEW t \in Targets, stored'[t] # stored[t], touches' = touches
               PROVE  /\ stored[t] # None
                      /\ stored'[t] = [stored[t] EXCEPT !.pin = stored'[t].pin]
                      /\ stored[t].optOut => stored'[t].pin = None
    OBVIOUS
  <2>1. t \in Keys /\ t \notin ServiceKeys
    BY KeyKinds
  <2>2. /\ pc = "update" /\ t = copy.spec.ref /\ t \in fresh
        /\ Store(t, [target EXCEPT !.pin = Pin(target)])
    BY <2>1, WhoWrites
  <2>3. target = stored[t] /\ target \in TargetType
    BY <2>2 DEF CopiesCurrent, TypeInv, WorkerOK
  <2>4. stored[t] # None
    BY <2>3, RegionalWorkloadAssumption
  <2>5. stored'[t] = [target EXCEPT !.pin = Pin(target)]
    BY <2>1, <2>2, StoreOnly DEF TypeInv
  <2>6. stored'[t].pin = Pin(target)
    BY <2>3, <2>5 DEF TargetType
  <2> QED
    BY <2>3, <2>4, <2>5, <2>6 DEF Pin
<1> QED
  BY <1>1, WellFormed, PTL DEF Spec, OnlyPinsChange

\* Whatever others do to the Services meanwhile and however old the worker's list of them
\* is, the controller disturbs a Service of an existing workload only as the spec asks
\* that the reconcile began from: one whose name that spec asks for is neither deleted nor
\* taken from somebody else, and does not lose the right address.
THEOREM EndpointsKept == Spec => EndpointKept
<1> DEFINE Kept(k) ==
             /\ obj = k[1]
             /\ IF k \in DOMAIN Asked(copy)
                  THEN /\ stored[k].owned /\ stored'[k] # None
                       /\ stored[k].ip = Asked(copy)[k] => stored'[k].ip = stored[k].ip
                  ELSE stored'[k] = None
           Disturbed(k) ==
             /\ stored[k] # None /\ stored'[k] # stored[k] /\ touches' = touches
             /\ stored[k[1]] # None
<1>1. TypeInv /\ ListCurrent /\ [Next]_vars =>
         \A k \in ServiceKeys : Disturbed(k) => Kept(k)
  <2> SUFFICES ASSUME TypeInv, ListCurrent, [Next]_vars,
                      NEW k \in ServiceKeys, Disturbed(k)
               PROVE  Kept(k)
    OBVIOUS
  <2>1. k \in Keys /\ k \notin Targets
    BY KeyKinds
  <2>2. SyncService(k)
    BY <2>1, WhoWrites DEF Collect
  <2>3. pc = "sync" /\ k \in DOMAIN listed \cup DOMAIN wanted
    BY <2>2 DEF SyncService, DeleteService, UpdateService, CreateService
  <2>4. k[1] = obj
    BY <2>3 DEF TypeInv, PlanOK
  <2>5. Asked(copy) = Promised
    BY <2>3, RefType DEF Asked, Promised
  <2>6. /\ DOMAIN listed \cap DOMAIN Promised \subseteq DOMAIN wanted
        /\ \A x \in DOMAIN wanted : /\ x \in DOMAIN Promised /\ wanted[x].ip = Promised[x]
                                    /\ wanted[x] # None
    BY <2>3 DEF TypeInv, PlanOK
  <2> HIDE DEF Promised
  <2>7. CASE DeleteService(k)
    <3>1. k \in DOMAIN listed /\ k \notin DOMAIN wanted /\ Store(k, None)
      BY <2>7 DEF DeleteService, server
    <3>2. stored'[k] = None
      BY <2>1, <3>1, StoreOnly DEF TypeInv
    <3> QED
      BY <2>4, <2>5, <2>6, <3>1, <3>2
  <2>8. CASE UpdateService(k)
    <3>1. k \in DOMAIN listed \cap DOMAIN wanted /\ k \in fresh /\ Store(k, wanted[k])
      BY <2>8 DEF UpdateService, Update, server
    <3>2. stored'[k] = wanted[k]
      BY <2>1, <3>1, StoreOnly DEF TypeInv
    <3>3. stored[k].owned
      BY <2>3, <3>1 DEF ListCurrent
    <3> QED
      BY <2>4, <2>5, <2>6, <3>1, <3>2, <3>3
  <2>9. CASE CreateService(k)
    BY <2>9 DEF CreateService, server
  <2> QED
    BY <2>2, <2>7, <2>8, <2>9 DEF SyncService
<1>2. (\A k \in ServiceKeys : Disturbed(k) => Kept(k)) =>
         \A k \in ServiceKeys :
            stored[k] # None /\ stored'[k] # stored[k] /\ touches' = touches
            /\ stored[k[1]] # None =>
               /\ obj = k[1]
               /\ IF k \in DOMAIN Asked(copy)
                    THEN /\ stored[k].owned /\ stored'[k] # None
                         /\ stored[k].ip = Asked(copy)[k] => stored'[k].ip = stored[k].ip
                    ELSE stored'[k] = None
  OBVIOUS
<1> HIDE DEF Kept, Disturbed
<1> QED
  BY <1>1, <1>2, WellFormed, ListKept, PTL DEF Spec, EndpointKept

==================================================================================
