-------------------------- MODULE FailoverPolicy_proofs --------------------------
(***************************************************************************)
(* Theorems about FailoverPolicy, for every set of policies, workloads,    *)
(* nodes and regions, all specs and bounds.                                *)
(***************************************************************************)
EXTENDS FailoverPolicy, TLAPS

----------------------------------------------------------------------------
(* The type invariant, inductive, by the parts of the state. *)

RecordsOK ==
    /\ records \in [Nodes -> [overall : {"unset", "Healthy", "Unhealthy"},
                              failures : 0 .. 1, age : 0 .. MaxAge]]
    /\ region \in [Nodes -> Regions \cup {None}]
ServerOK == ObjectsOK(stored) /\ ObjectsOK(cache) /\ synced \subseteq Keys
ScheduleOK == queue \subseteq Policies /\ delayed \subseteq Policies
WorkerOK ==
    /\ pc \in {"idle", "list", "check", "cordon", "annotate", "write"}
    /\ IF pc = "idle" THEN obj = None ELSE obj \in Policies /\ copy \in PolicyType
    /\ pc \in {"cordon", "annotate", "write"} <=> listed # None
    /\ listed # None =>
          DOMAIN listed \subseteq Workloads /\ listed \in [DOMAIN listed -> SpecType]
    /\ sick # None => sick \in [Nodes -> HealthType]
    /\ fresh \subseteq Keys
    /\ affected \subseteq Nodes
    /\ todo # {} => listed # None /\ todo \subseteq DOMAIN listed
    /\ affected # {} => pc = "cordon"
    /\ sent \subseteq {"start", "complete"}
TypeInv == RecordsOK /\ ServerOK /\ ScheduleOK /\ WorkerOK

\* What the worker holds, against what is stored: a cache that is current is what is
\* stored; a copy that is current, and so would be written, has the spec that is stored,
\* and is of a workload that exists.
CopiesCurrent ==
    /\ \A x \in synced : cache[x] = stored[x]
    /\ pc = "idle" => fresh = {} /\ todo = {}
    /\ pc \in {"list", "check"} => fresh \subseteq {obj} /\ todo = {}
    /\ \A w \in todo \cap fresh : stored[w] # None /\ listed[w] = stored[w].spec
    /\ obj \in fresh => copy.spec = stored[obj].spec

\* An object's key tells its kind; an object that exists has the type of its kind.
LEMMA KindOfKey ==
    ASSUME ServerOK
    PROVE  /\ \A w \in Workloads : /\ w \in Keys /\ w \notin Policies \cup Nodes
                                   /\ stored[w] \in WorkloadType \cup {None}
                                   /\ cache[w] \in WorkloadType \cup {None}
           /\ \A p \in Policies : /\ p \in Keys /\ p \notin Workloads \cup Nodes
                                  /\ stored[p] \in PolicyType \cup {None}
                                  /\ cache[p] \in PolicyType \cup {None}
           /\ \A n \in Nodes : n \in Keys /\ n \notin Workloads \cup Policies
  BY FailoverPolicyAssumption DEF ServerOK, ObjectsOK, Keys

\* The workloads still to be annotated are workloads, of which the worker has the specs.
LEMMA TodoType ==
    ASSUME WorkerOK
    PROVE  todo \subseteq Workloads /\ \A w \in todo : listed[w] \in SpecType
  BY DEF WorkerOK

\* A saturating counter keeps its range.
LEMMA UpToType ==
    ASSUME NEW bound \in Nat, NEW n \in 0 .. bound
    PROVE  UpTo(n, bound) \in 0 .. bound /\ HR!UpTo(n, bound) \in 0 .. bound
  BY DEF UpTo, HR!UpTo

\* What the workers read of well-formed records is well formed.
LEMMA HealthListType ==
    ASSUME RecordsOK
    PROVE  HealthList \in [Nodes -> HealthType]
  BY DEF RecordsOK, HealthList, HealthType

\* A write of an object by its own type keeps the objects well formed: the key of an
\* object tells its kind.
LEMMA StoreType ==
    ASSUME ServerOK, NEW key \in Keys, NEW value, Store(key, value),
           key \in Policies => value \in PolicyType \cup {None},
           key \in Workloads => value \in WorkloadType \cup {None},
           key \in Nodes => value \in {None} \cup [cordoned : BOOLEAN]
    PROVE  /\ ServerOK'
           /\ stored'[key] = value
           /\ \A x \in Keys \ {key} : stored'[x] = stored[x]
           /\ cache' = cache /\ synced' = synced \ {key}
  <1>1. DOMAIN stored = Keys /\ stored' = [stored EXCEPT ![key] = value]
    BY DEF ServerOK, ObjectsOK, Store
  <1>2. stored'[key] = value /\ \A x \in Keys \ {key} : stored'[x] = stored[x]
    BY <1>1
  <1>3. ObjectsOK(stored)'
    <2>1. DOMAIN stored' = Keys
      BY <1>1
    <2>2. \A p \in Policies : stored'[p] \in PolicyType \cup {None}
      BY <1>2 DEF ServerOK, ObjectsOK, Keys
    <2>3. \A w \in Workloads : stored'[w] \in WorkloadType \cup {None}
      BY <1>2 DEF ServerOK, ObjectsOK, Keys
    <2>4. \A n \in Nodes : stored'[n] \in {None} \cup [cordoned : BOOLEAN]
      BY <1>2 DEF ServerOK, ObjectsOK, Keys
    <2> QED
      BY <2>1, <2>2, <2>3, <2>4 DEF ObjectsOK
  <1> QED
    BY <1>2, <1>3 DEF ServerOK, Store

\* The annotation of a workload, written from a current copy.
LEMMA AnnotateType ==
    ASSUME TypeInv, CopiesCurrent, NEW w \in todo \cap fresh
    PROVE  /\ Annotated(w) \in WorkloadType
           /\ Annotated(w) = [stored[w] EXCEPT !.mark = "now", !.spec = Defaulted(@)]
           /\ Annotated(w).mark = "now"
           /\ w \in Workloads /\ stored[w] # None
  <1>1. w \in Workloads /\ listed[w] \in SpecType
    BY TodoType DEF TypeInv
  <1>2. Defaulted(listed[w]) \in SpecType
    BY <1>1 DEF Defaulted, SpecType
  <1>3. stored[w] \in WorkloadType /\ stored[w] # None /\ listed[w] = stored[w].spec
    BY <1>1, KindOfKey DEF TypeInv, CopiesCurrent
  <1>4. /\ Annotated(w) \in WorkloadType /\ Annotated(w).mark = "now"
        /\ Annotated(w) = [stored[w] EXCEPT !.mark = "now", !.spec = Defaulted(@)]
    BY <1>2, <1>3 DEF Annotated, WorkloadType
  <1> QED
    BY <1>1, <1>3, <1>4

\* What a reconcile that ends leaves behind.
LEMMA ReleaseType ==
    ASSUME Release
    PROVE  WorkerOK' /\ obj' = None /\ pc' = "idle" /\ fresh' = {} /\ todo' = {}
  BY DEF Release, WorkerOK

\* A part of the state that does not change keeps its type.
LEMMA UnchangedTypes ==
    /\ RecordsOK /\ UNCHANGED health => RecordsOK'
    /\ ServerOK /\ UNCHANGED server => ServerOK'
    /\ ScheduleOK /\ UNCHANGED schedule => ScheduleOK'
    /\ WorkerOK /\ UNCHANGED worker => WorkerOK'
  BY DEF RecordsOK, health, ServerOK, ObjectsOK, server, ScheduleOK, schedule,
         WorkerOK, worker, plan

\* Objects age as they are held, and stay well formed.
LEMMA AgedType ==
    ASSUME NEW f, ObjectsOK(f)
    PROVE  /\ ObjectsOK(AgedWorkloads(f))
           /\ \A w \in Workloads :
                 /\ f[w] = None => AgedWorkloads(f)[w] = None
                 /\ f[w] # None => /\ AgedWorkloads(f)[w] # None
                                  /\ AgedWorkloads(f)[w].spec = f[w].spec
                                  /\ AgedWorkloads(f)[w].mark = f[w].mark
           /\ \A x \in Policies \cup Nodes : AgedWorkloads(f)[x] = f[x]
  <1>1. ASSUME NEW w \in Workloads, f[w] # None
        PROVE  /\ AgedWorkloads(f)[w] \in WorkloadType
               /\ AgedWorkloads(f)[w].spec = f[w].spec
               /\ AgedWorkloads(f)[w].mark = f[w].mark
    <2>1. f[w] \in WorkloadType /\ w \in DOMAIN f
      BY <1>1 DEF ObjectsOK, Keys
    <2>2. UpTo(f[w].age, MaxAge) \in 0 .. MaxAge
      BY <2>1, UpToType, FailoverPolicyAssumption DEF WorkloadType
    <2>3. AgedWorkloads(f)[w] = Aged(f[w])
      BY <1>1, <2>1 DEF AgedWorkloads
    <2> QED
      BY <2>1, <2>2, <2>3 DEF Aged, WorkloadType
  <1>2. \A x \in Policies \cup Nodes : AgedWorkloads(f)[x] = f[x]
    BY FailoverPolicyAssumption DEF AgedWorkloads, ObjectsOK, Keys
  <1>3. DOMAIN AgedWorkloads(f) = Keys
    BY DEF AgedWorkloads, ObjectsOK
  <1>4. \A w \in Workloads : f[w] = None => AgedWorkloads(f)[w] = None
    BY DEF AgedWorkloads, ObjectsOK, Keys
  <1>5. ObjectsOK(AgedWorkloads(f))
    BY <1>1, <1>2, <1>3, <1>4 DEF ObjectsOK
  <1> QED
    BY <1>1, <1>2, <1>4, <1>5, NoWorkloadIsNone

\* As a failover begins only the marks change.
LEMMA PastType ==
    ASSUME NEW f, ObjectsOK(f)
    PROVE  /\ ObjectsOK(Past(f))
           /\ \A w \in Workloads :
                 /\ f[w] = None => Past(f)[w] = None
                 /\ f[w] # None => Past(f)[w] # None /\ Past(f)[w].spec = f[w].spec
           /\ \A x \in Policies \cup Nodes : Past(f)[x] = f[x]
  <1>1. ASSUME NEW w \in Workloads, f[w] # None
        PROVE  Past(f)[w] \in WorkloadType /\ Past(f)[w].spec = f[w].spec
    <2>1. f[w] \in WorkloadType /\ w \in DOMAIN f
      BY <1>1 DEF ObjectsOK, Keys
    <2>2. Past(f)[w] = [f[w] EXCEPT !.mark = "old"]
      BY <1>1, <2>1 DEF Past
    <2> QED
      BY <2>1, <2>2 DEF WorkloadType
  <1>2. \A x \in Policies \cup Nodes : Past(f)[x] = f[x]
    BY FailoverPolicyAssumption DEF Past, ObjectsOK, Keys
  <1>3. DOMAIN Past(f) = Keys
    BY DEF Past, ObjectsOK
  <1>4. \A w \in Workloads : f[w] = None => Past(f)[w] = None
    BY DEF Past, ObjectsOK, Keys
  <1>5. ObjectsOK(Past(f))
    BY <1>1, <1>2, <1>3, <1>4 DEF ObjectsOK
  <1> QED
    BY <1>1, <1>2, <1>4, <1>5, NoWorkloadIsNone

\* The invariant of the proof is the type invariant of the model, by its parts.
LEMMA TypeInvImplies == TypeInv => TypeOK
  BY HealthListType DEF TypeInv, TypeOK, ServerOK, ScheduleOK, WorkerOK

\* A workload that is created is well formed.
LEMMA NewWorkloadType ==
    ASSUME NEW s \in WorkloadSpecs, NEW n \in Nodes \cup {None}, NEW mark \in {"old", "new"}
    PROVE  NewWorkload(s, mark, n) \in WorkloadType
  <1>1. s \in SpecType /\ 0 \in 0 .. MaxAge
    BY FailoverPolicyAssumption
  <1> QED
    BY <1>1 DEF NewWorkload, WorkloadType

\* All policies and workloads are as created, no node is cordoned, and no record has
\* been made.
LEMMA InitType == Init => TypeInv
  <1> SUFFICES ASSUME Init PROVE TypeInv
    OBVIOUS
  <1>0. 0 \in 0 .. KeptEvents /\ 0 \in 0 .. MaxAge /\ MaxAge \in 0 .. MaxAge
    BY FailoverPolicyAssumption
  <1>1. RecordsOK
    <2>1. /\ records = [o \in Nodes |-> [overall |-> "unset", failures |-> 0, age |-> MaxAge]]
          /\ region \in [Nodes -> Regions \cup {None}]
      BY DEF Init, HR!Init
    <2> QED
      BY <1>0, <2>1 DEF RecordsOK
  <1>2. PICK policy \in [Policies -> [spec : PolicySpecs, events : {0}]],
             workload \in [Workloads -> {NewWorkload(s, "old", n) : s \in WorkloadSpecs,
                                                                   n \in Nodes \cup {None}}] :
             stored = [x \in Keys |-> IF x \in Policies THEN policy[x]
                                      ELSE IF x \in Workloads THEN workload[x]
                                      ELSE [cordoned |-> FALSE]]
    BY DEF Init
  <1>3. ASSUME NEW p \in Policies PROVE stored[p] \in PolicyType
    <2>1. stored[p] = policy[p] /\ policy[p] \in [spec : PolicySpecs, events : {0}]
      BY <1>2 DEF Keys
    <2>2. policy[p] \in [spec : PolicySpecs, events : 0 .. KeptEvents]
      BY <1>0, <2>1
    <2> QED
      BY <2>1, <2>2 DEF PolicyType
  <1>4. ASSUME NEW w \in Workloads PROVE stored[w] \in WorkloadType
    <2>1. stored[w] = workload[w]
      BY <1>2, FailoverPolicyAssumption DEF Keys
    <2>2. PICK s \in WorkloadSpecs, n \in Nodes \cup {None} :
             workload[w] = NewWorkload(s, "old", n)
      OBVIOUS
    <2> QED
      BY <2>1, <2>2, NewWorkloadType
  <1>5. ASSUME NEW n \in Nodes PROVE stored[n] \in {None} \cup [cordoned : BOOLEAN]
    <2>1. stored[n] = [cordoned |-> FALSE]
      BY <1>2, FailoverPolicyAssumption DEF Keys
    <2>2. [cordoned |-> FALSE] \in [cordoned : BOOLEAN]
      OBVIOUS
    <2> QED
      BY <2>1, <2>2
  <1>6. DOMAIN stored = Keys
    BY <1>2
  <1>7. ServerOK
    BY <1>3, <1>4, <1>5, <1>6 DEF Init, ServerOK, ObjectsOK
  <1>8. ScheduleOK /\ WorkerOK
    BY DEF Init, ScheduleOK, WorkerOK
  <1> QED
    BY <1>1, <1>7, <1>8 DEF TypeInv

\* The steps of the worker up to the failover.
LEMMA FetchType ==
    ASSUME TypeInv, NEW p \in Policies, Fetch(p) \/ GetFails(p)
    PROVE  TypeInv'
  <1>1. ScheduleOK'
    BY DEF Fetch, GetFails, TypeInv, ScheduleOK, schedule
  <1>2. WorkerOK'
    <2>1. CASE UNCHANGED worker
      BY <2>1, UnchangedTypes DEF TypeInv
    <2>2. CASE pc = "idle" /\ cache[p] # None /\ pc' = "list" /\ obj' = p /\ copy' = cache[p]
               /\ fresh' = synced \cap {p} /\ UNCHANGED <<plan, sent>>
      <3>1. cache[p] \in PolicyType /\ p \in Keys
        BY <2>2, KindOfKey DEF TypeInv
      <3> QED
        BY <2>2, <3>1 DEF TypeInv, WorkerOK, plan
    <2> QED
      BY <2>1, <2>2 DEF Fetch, GetFails
  <1> QED
    BY <1>1, <1>2, UnchangedTypes DEF Fetch, GetFails, TypeInv

\* It takes the list of the records.
LEMMA ListHealthType ==
    ASSUME TypeInv, ListHealth
    PROVE  TypeInv'
  <1>1. WorkerOK'
    BY HealthListType DEF ListHealth, TypeInv, WorkerOK
  <1> QED
    BY <1>1, UnchangedTypes DEF ListHealth, TypeInv

\* It waits for the next requeue, or the failover begins with the list of the specs.
LEMMA CheckType ==
    ASSUME TypeInv, CheckFailoverTriggers
    PROVE  TypeInv'
  <1> DEFINE ws == [w \in {v \in Workloads : cache[v] # None} |-> cache[w]]
             used == {ws[w].node : w \in DOMAIN ws} \ {None}
  <1>0. \A w \in DOMAIN ws : w \in Workloads /\ ws[w] \in WorkloadType
    BY KindOfKey DEF TypeInv
  <1>1. CASE Later /\ UNCHANGED server
    BY <1>1, ReleaseType, UnchangedTypes
       DEF CheckFailoverTriggers, Later, TypeInv, ScheduleOK, WorkerOK
  <1>2. CASE /\ stored' = Past(stored) /\ cache' = Past(cache) /\ UNCHANGED synced
             /\ listed' = [w \in DOMAIN ws |-> ws[w].spec]
             /\ sick' = None
             /\ fresh' = fresh \cup (synced \cap DOMAIN ws)
             /\ sent' = Notices(copy.spec, "start")
             /\ ExecuteFailover(copy.spec.strategy, DOMAIN ws, used)
             /\ UNCHANGED <<schedule, obj, copy>>
    <2>1. used \subseteq Nodes
      BY <1>0 DEF WorkloadType
    <2>2. /\ listed' \in [DOMAIN ws -> SpecType] /\ DOMAIN listed' = DOMAIN ws
          /\ DOMAIN ws \subseteq Workloads
      BY <1>0, <1>2 DEF WorkloadType
    <2>3. listed' # None
      BY <2>2, NoListIsNone
    <2>4. sent' \subseteq {"start", "complete"}
      BY <1>2 DEF Notices
    <2>5. /\ affected' \subseteq Nodes /\ todo' \subseteq DOMAIN ws
          /\ affected' # {} => pc' = "cordon"
          /\ pc' \in {"cordon", "annotate"}
      BY <1>2, <2>1 DEF ExecuteFailover
    <2>6. /\ obj' \in Policies /\ copy' \in PolicyType /\ fresh' \subseteq Keys
      BY <1>2 DEF CheckFailoverTriggers, TypeInv, ServerOK, WorkerOK
    <2>7. WorkerOK'
      BY <1>2, <2>2, <2>3, <2>4, <2>5, <2>6 DEF WorkerOK
    <2>8. ServerOK'
      BY <1>2, PastType DEF TypeInv, ServerOK
    <2> QED
      BY <1>2, <2>7, <2>8, UnchangedTypes DEF CheckFailoverTriggers, TypeInv
  <1> QED
    BY <1>1, <1>2 DEF CheckFailoverTriggers

\* Cordoning: a node is marked, or the reconcile ends.
LEMMA CordonType ==
    ASSUME TypeInv, NEW n \in Nodes, Cordon(n)
    PROVE  TypeInv'
  <1>1. RecordsOK'
    BY UnchangedTypes DEF Cordon, TypeInv
  <1>2. pc = "cordon" /\ obj \in Policies
    BY DEF Cordon, TypeInv, WorkerOK
  <1>3. CASE Retry /\ UNCHANGED server
    BY <1>1, <1>2, <1>3, ReleaseType, UnchangedTypes DEF Retry, TypeInv, ScheduleOK
  <1>4. CASE /\ affected' = affected \ {n}
             /\ UNCHANGED server \/ Store(n, [cordoned |-> TRUE])
             /\ UNCHANGED <<schedule, pc, obj, copy, fresh, sick, listed, todo, sent>>
    <2>1. CASE Store(n, [cordoned |-> TRUE])
      <3>1. n \in Keys /\ n \notin Policies \cup Workloads
        BY FailoverPolicyAssumption DEF Keys
      <3>2. [cordoned |-> TRUE] \in [cordoned : BOOLEAN]
        OBVIOUS
      <3>3. ServerOK'
        BY <2>1, <3>1, <3>2, StoreType DEF TypeInv
      <3> QED
        BY <1>1, <1>2, <1>4, <3>3 DEF TypeInv, ScheduleOK, schedule, WorkerOK
    <2>2. CASE UNCHANGED server
      BY <1>1, <1>2, <1>4, <2>2, UnchangedTypes DEF TypeInv, ScheduleOK, schedule, WorkerOK
    <2> QED
      BY <1>4, <2>1, <2>2
  <1> QED
    BY <1>3, <1>4 DEF Cordon

\* Annotating: a workload is written, or the reconcile ends.
LEMMA AnnotateKeepsType ==
    ASSUME TypeInv, CopiesCurrent, NEW w \in Workloads, Annotate(w)
    PROVE  TypeInv'
  <1>1. RecordsOK'
    BY UnchangedTypes DEF Annotate, TypeInv
  <1>2. pc = "annotate" /\ obj \in Policies
    BY DEF Annotate, TypeInv, WorkerOK
  <1>3. CASE Retry /\ UNCHANGED server
    BY <1>1, <1>2, <1>3, ReleaseType, UnchangedTypes DEF Retry, TypeInv, ScheduleOK
  <1>4. CASE /\ w \in fresh
             /\ todo' = todo \ {w}
             /\ Store(w, Annotated(w))
             /\ UNCHANGED <<schedule, pc, obj, copy, fresh, sick, listed, affected, sent>>
    <2>1. ServerOK'
      <3>1. w \in todo \cap fresh
        BY <1>4 DEF Annotate
      <3> QED
        BY <1>4, <3>1, AnnotateType, KindOfKey, StoreType DEF TypeInv
    <2> QED
      BY <1>1, <1>2, <1>4, <2>1 DEF TypeInv, ScheduleOK, schedule, WorkerOK
  <1> QED
    BY <1>3, <1>4 DEF Annotate

\* The event is added to the worker's copy.
LEMMA RecordType ==
    ASSUME TypeInv, RecordFailoverEvent
    PROVE  TypeInv'
  <1>1. copy \in PolicyType /\ pc = "annotate"
    BY DEF RecordFailoverEvent, TypeInv, WorkerOK
  <1>2. copy' \in PolicyType
    <2>1. UpTo(copy.events, KeptEvents) \in 0 .. KeptEvents
      BY <1>1, UpToType, FailoverPolicyAssumption DEF PolicyType
    <2> QED
      BY <1>1, <2>1 DEF RecordFailoverEvent, PolicyType
  <1>3. sent' \subseteq {"start", "complete"}
    BY DEF RecordFailoverEvent, Notices, TypeInv, WorkerOK
  <1>4. WorkerOK'
    BY <1>1, <1>2, <1>3 DEF RecordFailoverEvent, TypeInv, WorkerOK, plan
  <1> QED
    BY <1>4, UnchangedTypes DEF RecordFailoverEvent, TypeInv

\* The copy is a policy and may be stored.
LEMMA StoreCopyType ==
    ASSUME ServerOK, WorkerOK, pc = "write", Store(obj, copy)
    PROVE  ServerOK' /\ \A x \in Keys \ {obj} : stored'[x] = stored[x]
  <1>1. obj \in Keys /\ obj \notin Workloads \cup Nodes /\ copy \in PolicyType
    BY FailoverPolicyAssumption DEF WorkerOK, Keys
  <1> QED
    BY <1>1, StoreType

\* The reconcile ends with its write, or with a failed call.
LEMMA EndType ==
    ASSUME TypeInv, CopiesCurrent, WriteStatus \/ CallFails
    PROVE  TypeInv'
  <1>1. RecordsOK'
    BY UnchangedTypes DEF WriteStatus, CallFails, TypeInv
  <1>2. pc # "idle" /\ obj \in Policies
    BY DEF WriteStatus, CallFails, TypeInv, WorkerOK
  <1>3. Release /\ ScheduleOK'
    BY <1>2 DEF WriteStatus, CallFails, Retry, Later, TypeInv, ScheduleOK
  <1>4. ServerOK'
    <2>1. \/ UNCHANGED server
          \/ pc = "write" /\ Store(obj, copy)
          \/ \E w \in todo \cap fresh : Store(w, Annotated(w))
      BY DEF WriteStatus, CallFails
    <2>2. ASSUME NEW w \in todo \cap fresh, Store(w, Annotated(w))
          PROVE  ServerOK'
      BY <2>2, AnnotateType, KindOfKey, StoreType DEF TypeInv
    <2> QED
      BY <2>1, <2>2, StoreCopyType, UnchangedTypes DEF TypeInv
  <1> QED
    BY <1>1, <1>3, <1>4, ReleaseType DEF TypeInv

\* Time passes.
LEMMA TickType ==
    ASSUME TypeInv, Tick
    PROVE  TypeInv'
  <1>1. RecordsOK'
    <2>1. ASSUME NEW o \in Nodes
          PROVE  HR!UpTo(records[o].age, MaxAge) \in 0 .. MaxAge
      BY UpToType, FailoverPolicyAssumption DEF TypeInv, RecordsOK
    <2>2. records' = [o \in Nodes |-> [records[o] EXCEPT !.age = HR!UpTo(@, MaxAge)]]
          /\ UNCHANGED region
      BY DEF Tick, HR!Tick
    <2> QED
      BY <2>1, <2>2 DEF TypeInv, RecordsOK
  <1>2. ServerOK'
    BY AgedType DEF Tick, TypeInv, ServerOK
  <1>3. sick # None => sick' \in [Nodes -> HealthType]
    <2> SUFFICES ASSUME sick # None PROVE sick' \in [Nodes -> HealthType]
      OBVIOUS
    <2>1. sick' = [n \in Nodes |-> Aged(sick[n])]
      BY DEF Tick
    <2>2. ASSUME NEW n \in Nodes PROVE Aged(sick[n]) \in HealthType
      <3>1. sick[n] \in HealthType
        BY DEF TypeInv, WorkerOK
      <3>2. UpTo(sick[n].age, MaxAge) \in 0 .. MaxAge
        BY <3>1, UpToType, FailoverPolicyAssumption DEF HealthType
      <3> QED
        BY <3>1, <3>2 DEF Aged, HealthType
    <2> QED
      BY <2>1, <2>2
  <1>4. WorkerOK'
    BY <1>3 DEF Tick, TypeInv, WorkerOK
  <1>5. ScheduleOK'
    BY UnchangedTypes DEF Tick, TypeInv
  <1> QED
    BY <1>1, <1>2, <1>4, <1>5 DEF TypeInv

\* Events, timers and restarts.
LEMMA RuntimeType ==
    ASSUME TypeInv,
           \/ \E x \in Keys : Deliver(x)
           \/ \E p \in Policies : TimerFires(p)
           \/ Restart
    PROVE  TypeInv'
  <1>1. ASSUME NEW x \in Keys, Deliver(x) PROVE TypeInv'
    <2>1. DOMAIN cache = Keys /\ cache' = [cache EXCEPT ![x] = stored[x]]
      BY <1>1 DEF Deliver, TypeInv, ServerOK, ObjectsOK
    <2>2. cache'[x] = stored[x] /\ \A y \in Keys \ {x} : cache'[y] = cache[y]
      BY <2>1
    <2>3. ServerOK'
      BY <1>1, <2>1, <2>2 DEF Deliver, TypeInv, ServerOK, ObjectsOK, Keys
    <2>4. ScheduleOK'
      BY <1>1 DEF Deliver, TypeInv, ScheduleOK
    <2> QED
      BY <1>1, <2>3, <2>4, UnchangedTypes DEF Deliver, TypeInv
  <1>2. ASSUME NEW p \in Policies, TimerFires(p) PROVE TypeInv'
    <2>1. ScheduleOK'
      BY <1>2 DEF TimerFires, TypeInv, ScheduleOK
    <2> QED
      BY <1>2, <2>1, UnchangedTypes DEF TimerFires, TypeInv
  <1>3. CASE Restart
    <2>1. ServerOK' /\ ScheduleOK'
      BY <1>3 DEF Restart, TypeInv, ServerOK, ScheduleOK
    <2> QED
      BY <1>3, <2>1, ReleaseType, UnchangedTypes DEF Restart, TypeInv
  <1> QED
    BY <1>1, <1>2, <1>3

\* The other controllers and users.
LEMMA EnvironmentType ==
    ASSUME TypeInv,
           \/ \E n \in Nodes : HealthChanges(n) \/ NodeChanges(n)
           \/ \E w \in Workloads : CheckWorkload(w) \/ MoveWorkload(w)
           \/ \E x \in Workloads \cup Policies : Edit(x)
    PROVE  TypeInv'
  <1>a. ASSUME ServerOK', RecordsOK', UNCHANGED <<schedule, pc, obj, copy, plan, sent>>,
               fresh' \subseteq fresh
        PROVE  TypeInv'
    BY <1>a, UnchangedTypes DEF TypeInv, WorkerOK, plan
  <1>1. ASSUME NEW n \in Nodes, HealthChanges(n) PROVE TypeInv'
    <2>1. PICK verdict \in {"Healthy", "Unhealthy"} : HR!Record(n, verdict)
      BY <1>1 DEF HealthChanges
    <2>2. records[n].failures \in 0 .. 1 /\ records[n].age \in 0 .. MaxAge
      BY DEF TypeInv, RecordsOK
    <2>3. HR!UpTo(records[n].failures, 1) \in 0 .. 1 /\ 0 \in 0 .. 1
      BY <2>2 DEF HR!UpTo
    <2>4. PICK age \in 0 .. MaxAge :
             records' = [records EXCEPT ![n] =
                [overall |-> verdict,
                 failures |-> IF verdict = "Unhealthy"
                                THEN HR!UpTo(records[n].failures, 1) ELSE 0,
                 age |-> age]]
      BY <2>1 DEF HR!Record
    <2>5. RecordsOK'
      BY <1>1, <2>3, <2>4 DEF HealthChanges, TypeInv, RecordsOK
    <2> QED
      BY <1>1, <2>5, UnchangedTypes DEF HealthChanges, TypeInv, worker, server
  <1>2. ASSUME NEW n \in Nodes, NodeChanges(n) PROVE TypeInv'
    <2>1. PICK s \in {None, [cordoned |-> FALSE]} : Store(n, s)
      BY <1>2 DEF NodeChanges
    <2>2. n \in Keys /\ n \notin Policies \cup Workloads
      BY FailoverPolicyAssumption DEF Keys
    <2>3. s \in {None} \cup [cordoned : BOOLEAN]
      <3>1. [cordoned |-> FALSE] \in [cordoned : BOOLEAN]
        OBVIOUS
      <3>2. s = None \/ s = [cordoned |-> FALSE]
        OBVIOUS
      <3> QED
        BY <3>1, <3>2
    <2>4. ServerOK'
      BY <2>1, <2>2, <2>3, StoreType DEF TypeInv
    <2> QED
      BY <1>2, <2>4, UnchangedTypes DEF NodeChanges, TypeInv
  <1>3. ASSUME NEW w \in Workloads, CheckWorkload(w) \/ MoveWorkload(w) PROVE TypeInv'
    <2>0. stored[w] # None
      BY <1>3 DEF CheckWorkload, MoveWorkload
    <2>1. stored[w] \in WorkloadType /\ 0 \in 0 .. MaxAge
      BY <2>0, KindOfKey, FailoverPolicyAssumption DEF TypeInv
    <2>2. [stored[w] EXCEPT !.age = 0] \in WorkloadType
      BY <2>1 DEF WorkloadType
    <2>3. ASSUME NEW n \in Nodes, NEW unhealthy \in BOOLEAN
          PROVE  [stored[w] EXCEPT !.node = n, !.unhealthy = unhealthy, !.age = 0]
                    \in WorkloadType
      BY <2>1 DEF WorkloadType
    <2>4. w \in Keys /\ w \notin Policies \cup Nodes
      BY FailoverPolicyAssumption DEF Keys
    <2>5. PICK value \in WorkloadType : Store(w, value)
      BY <1>3, <2>2, <2>3 DEF CheckWorkload, MoveWorkload
    <2>6. ServerOK'
      BY <2>4, <2>5, StoreType DEF TypeInv
    <2>7. RecordsOK'
      BY <1>3, UnchangedTypes DEF CheckWorkload, MoveWorkload, TypeInv
    <2> QED
      BY <1>3, <1>a, <2>6, <2>7 DEF CheckWorkload, MoveWorkload
  <1>4. ASSUME NEW x \in Workloads \cup Policies, Edit(x) PROVE TypeInv'
    <2>1. ServerOK'
      <3>1. CASE Store(x, None)
        BY <3>1, KindOfKey, StoreType DEF TypeInv
      <3>2. ASSUME x \in Workloads, NEW s \in WorkloadSpecs,
                   Store(x, IF stored[x] = None THEN NewWorkload(s, "new", None)
                                                ELSE [stored[x] EXCEPT !.spec = s])
            PROVE  ServerOK'
        <4>1. stored[x] # None => [stored[x] EXCEPT !.spec = s] \in WorkloadType
          BY <3>2, KindOfKey, FailoverPolicyAssumption DEF TypeInv, WorkloadType
        <4>2. NewWorkload(s, "new", None) \in WorkloadType
          BY NewWorkloadType
        <4> QED
          BY <3>2, <4>1, <4>2, KindOfKey, StoreType DEF TypeInv
      <3>3. ASSUME x \in Policies, NEW s \in PolicySpecs,
                   Store(x, IF stored[x] = None THEN [spec |-> s, events |-> 0]
                                                ELSE [stored[x] EXCEPT !.spec = s])
            PROVE  ServerOK'
        <4>1. stored[x] # None => [stored[x] EXCEPT !.spec = s] \in PolicyType
          BY <3>3, KindOfKey DEF TypeInv, PolicyType
        <4>2. [spec |-> s, events |-> 0] \in PolicyType
          BY FailoverPolicyAssumption DEF PolicyType
        <4> QED
          BY <3>3, <4>1, <4>2, KindOfKey, StoreType DEF TypeInv
      <3> QED
        BY <1>4, <3>1, <3>2, <3>3 DEF Edit
    <2>2. RecordsOK'
      BY <1>4, UnchangedTypes DEF Edit, TypeInv
    <2> QED
      BY <1>4, <1>a, <2>1, <2>2 DEF Edit
  <1> QED
    BY <1>1, <1>2, <1>3, <1>4

\* Every step keeps the invariant of the proof.
LEMMA StepType == TypeInv /\ CopiesCurrent /\ [Next]_vars => TypeInv'
  <1> SUFFICES ASSUME TypeInv, CopiesCurrent, [Next]_vars PROVE TypeInv'
    OBVIOUS
  <1>1. CASE \E p \in Policies : Fetch(p) \/ GetFails(p)
    BY <1>1, FetchType
  <1>2. CASE Reconcile
    <2>1. CASE DrainTimeout
      <3>1. WorkerOK'
        BY <2>1 DEF DrainTimeout, TypeInv, WorkerOK, plan
      <3> QED
        BY <2>1, <3>1, UnchangedTypes DEF DrainTimeout, TypeInv
    <2> QED
      BY <1>2, <2>1, ListHealthType, CheckType, CordonType, AnnotateKeepsType, RecordType,
         EndType DEF Reconcile
  <1>3. CASE Tick
    BY <1>3, TickType
  <1>4. CASE UNCHANGED vars
    BY <1>4, UnchangedTypes
       DEF vars, health, server, schedule, worker, plan, TypeInv
  <1> QED
    BY <1>1, <1>2, <1>3, <1>4, RuntimeType, EnvironmentType DEF Next

----------------------------------------------------------------------------
(* What the worker holds stays current, or is known to be outdated. *)

\* A write makes the cache outdated for its object and changes no other object.
LEMMA StoreCurrent ==
    ASSUME ServerOK, \A x \in synced : cache[x] = stored[x],
           NEW key \in Keys, NEW value, Store(key, value)
    PROVE  /\ \A x \in synced' : cache'[x] = stored'[x]
           /\ \A x \in Keys \ {key} : stored'[x] = stored[x]
           /\ stored'[key] = value
           /\ key \notin synced'
  <1>1. DOMAIN stored = Keys /\ stored' = [stored EXCEPT ![key] = value]
        /\ synced' = synced \ {key} /\ cache' = cache
    BY DEF ServerOK, ObjectsOK, Store
  <1>2. stored'[key] = value /\ \A x \in Keys \ {key} : stored'[x] = stored[x]
    BY <1>1
  <1>3. synced \subseteq Keys
    BY DEF ServerOK
  <1> QED
    BY <1>1, <1>2, <1>3

\* A step that writes nothing the worker holds a current copy of.
LEMMA OthersWrite ==
    ASSUME TypeInv, CopiesCurrent, NEW key \in Keys, NEW value, Store(key, value),
           fresh' = fresh \ {key} \/ (fresh' = fresh /\ key \in Nodes),
           UNCHANGED <<pc, obj, copy, listed, todo>>
    PROVE  CopiesCurrent'
  <1>1. /\ \A x \in synced' : cache'[x] = stored'[x]
        /\ \A x \in Keys \ {key} : stored'[x] = stored[x]
    BY StoreCurrent DEF TypeInv, CopiesCurrent
  <1>2. \A w \in Workloads : w \in fresh' => w \in Keys \ {key}
    BY FailoverPolicyAssumption DEF TypeInv, WorkerOK, Keys
  <1>3. todo \subseteq Workloads
    BY TodoType DEF TypeInv
  <1>4. \A w \in todo' \cap fresh' : stored'[w] # None /\ listed'[w] = stored'[w].spec
    BY <1>1, <1>2, <1>3 DEF CopiesCurrent
  <1>5. obj' \in fresh' => copy'.spec = stored'[obj'].spec
    <2> SUFFICES ASSUME obj \in fresh' PROVE copy.spec = stored'[obj].spec
      OBVIOUS
    <2>1. obj \in fresh /\ obj \in Policies
      BY DEF TypeInv, WorkerOK, CopiesCurrent
    <2>2. obj \in Keys \ {key}
      BY <2>1, FailoverPolicyAssumption DEF Keys
    <2> QED
      BY <1>1, <2>1, <2>2 DEF CopiesCurrent
  <1> QED
    BY <1>1, <1>4, <1>5 DEF CopiesCurrent

\* CopiesCurrent is kept by the steps of the worker.
LEMMA WorkerCurrent ==
    ASSUME TypeInv, CopiesCurrent, Reconcile
    PROVE  CopiesCurrent'
  <1>0. todo \subseteq Workloads /\ fresh \subseteq Keys
    BY TodoType DEF TypeInv, WorkerOK
  <1>r. ASSUME Release, \A x \in synced' : cache'[x] = stored'[x] PROVE CopiesCurrent'
    BY <1>r DEF Release, CopiesCurrent
  <1>s. ASSUME NEW key \in Keys, NEW value, Store(key, value)
        PROVE  \A x \in synced' : cache'[x] = stored'[x]
    BY <1>s, StoreCurrent DEF TypeInv, CopiesCurrent
  <1>1. CASE ListHealth
    BY <1>1 DEF ListHealth, CopiesCurrent, server
  <1>2. CASE CheckFailoverTriggers
    <2> DEFINE ws == [w \in {v \in Workloads : cache[v] # None} |-> cache[w]]
               used == {ws[w].node : w \in DOMAIN ws} \ {None}
    <2>1. CASE Later /\ UNCHANGED server
      BY <2>1, <1>r DEF Later, server, CopiesCurrent
    <2>2. CASE /\ stored' = Past(stored) /\ cache' = Past(cache) /\ UNCHANGED synced
               /\ listed' = [w \in DOMAIN ws |-> ws[w].spec]
               /\ fresh' = fresh \cup (synced \cap DOMAIN ws)
               /\ ExecuteFailover(copy.spec.strategy, DOMAIN ws, used)
               /\ UNCHANGED <<obj, copy>>
      <3>1. /\ obj \in Policies /\ obj \notin Workloads /\ fresh \subseteq {obj}
            /\ ObjectsOK(stored) /\ ObjectsOK(cache) /\ synced \subseteq Keys
        BY <1>2, FailoverPolicyAssumption
           DEF CheckFailoverTriggers, TypeInv, ServerOK, WorkerOK, CopiesCurrent
      <3>2. todo' \subseteq DOMAIN ws /\ pc' \in {"cordon", "annotate"}
        BY <2>2 DEF ExecuteFailover
      <3>3. \A w \in todo' \cap fresh' : stored'[w] # None /\ listed'[w] = stored'[w].spec
        <4> SUFFICES ASSUME NEW w \in todo' \cap fresh'
                     PROVE  stored'[w] # None /\ listed'[w] = stored'[w].spec
          OBVIOUS
        <4>1. w \in Workloads /\ w \in synced /\ cache[w] # None /\ listed'[w] = cache[w].spec
          BY <2>2, <3>1, <3>2
        <4>2. stored[w] = cache[w]
          BY <4>1 DEF CopiesCurrent
        <4> QED
          BY <2>2, <3>1, <4>1, <4>2, PastType
      <3>4. \A x \in synced' : cache'[x] = stored'[x]
        <4>1. \A x \in synced : x \in DOMAIN stored /\ x \in DOMAIN cache /\ cache[x] = stored[x]
          BY <3>1 DEF ObjectsOK, CopiesCurrent
        <4> QED
          BY <2>2, <4>1 DEF Past
      <3>5. obj' \in fresh' => copy'.spec = stored'[obj'].spec
        <4>1. obj' \in fresh' => obj \in fresh
          BY <2>2, <3>1
        <4>2. stored'[obj] = stored[obj]
          BY <2>2, <3>1, PastType
        <4> QED
          BY <2>2, <4>1, <4>2 DEF CopiesCurrent
      <3> QED
        BY <3>2, <3>3, <3>4, <3>5 DEF CopiesCurrent
    <2> QED
      BY <1>2, <2>1, <2>2 DEF CheckFailoverTriggers
  <1>3. ASSUME NEW n \in Nodes, Cordon(n) PROVE CopiesCurrent'
    <2>1. CASE Retry /\ UNCHANGED server
      BY <2>1, <1>r DEF Retry, server, CopiesCurrent
    <2>2. CASE UNCHANGED server /\ UNCHANGED <<pc, obj, copy, fresh, listed, todo>>
      BY <2>2 DEF server, CopiesCurrent
    <2>3. CASE Store(n, [cordoned |-> TRUE]) /\ UNCHANGED <<pc, obj, copy, fresh, listed, todo>>
      BY <2>3, OthersWrite DEF Keys
    <2> QED
      BY <1>3, <2>1, <2>2, <2>3 DEF Cordon
  <1>4. CASE DrainTimeout
    BY <1>4 DEF DrainTimeout, server, plan, CopiesCurrent
  <1>5. ASSUME NEW w \in Workloads, Annotate(w) PROVE CopiesCurrent'
    <2>1. CASE Retry /\ UNCHANGED server
      BY <2>1, <1>r DEF Retry, server, CopiesCurrent
    <2>2. CASE /\ todo' = todo \ {w} /\ Store(w, Annotated(w))
               /\ UNCHANGED <<pc, obj, copy, fresh, listed>>
      <3>1. w \in Keys
        BY DEF Keys
      <3>2. /\ \A x \in synced' : cache'[x] = stored'[x]
            /\ \A x \in Keys \ {w} : stored'[x] = stored[x]
        BY <2>2, <3>1, StoreCurrent DEF TypeInv, CopiesCurrent
      <3>3. \A v \in todo' \cap fresh' : stored'[v] # None /\ listed'[v] = stored'[v].spec
        BY <2>2, <3>2, <1>0 DEF CopiesCurrent
      <3>4. obj \in Keys \ {w} /\ pc = "annotate"
        BY <1>5, FailoverPolicyAssumption DEF Annotate, TypeInv, WorkerOK, Keys
      <3> QED
        BY <2>2, <3>2, <3>3, <3>4 DEF CopiesCurrent
    <2> QED
      BY <1>5, <2>1, <2>2 DEF Annotate
  <1>6. CASE RecordFailoverEvent
    <2>1. copy \in PolicyType
      BY <1>6 DEF RecordFailoverEvent, TypeInv, WorkerOK
    <2>2. copy'.spec = copy.spec
      BY <1>6, <2>1 DEF RecordFailoverEvent, PolicyType
    <2> QED
      BY <1>6, <2>2 DEF RecordFailoverEvent, server, plan, CopiesCurrent
  <1>7. CASE WriteStatus \/ CallFails
    <2>1. Release
      BY <1>7 DEF WriteStatus, CallFails, Retry, Later
    <2>2. \/ UNCHANGED server
          \/ \E key \in Keys : \E value : Store(key, value)
      <3>1. obj \in Keys
        BY <1>7 DEF WriteStatus, CallFails, TypeInv, WorkerOK, Keys
      <3> QED
        BY <1>0, <1>7, <3>1 DEF WriteStatus, CallFails
    <2> QED
      BY <1>r, <1>s, <2>1, <2>2 DEF server, CopiesCurrent
  <1> QED
    BY <1>1, <1>2, <1>3, <1>4, <1>5, <1>6, <1>7 DEF Reconcile

\* CopiesCurrent is kept by everybody else.
LEMMA OthersCurrent ==
    ASSUME TypeInv, CopiesCurrent, [Next]_vars, ~Reconcile
    PROVE  CopiesCurrent'
  <1>1. ASSUME NEW p \in Policies, Fetch(p) \/ GetFails(p) PROVE CopiesCurrent'
    <2>1. CASE UNCHANGED worker
      BY <1>1, <2>1 DEF Fetch, GetFails, server, worker, plan, CopiesCurrent
    <2>2. CASE pc = "idle" /\ pc' = "list" /\ obj' = p /\ copy' = cache[p]
               /\ fresh' = synced \cap {p} /\ UNCHANGED <<server, plan>>
      BY <2>2 DEF server, plan, CopiesCurrent
    <2> QED
      BY <1>1, <2>1, <2>2 DEF Fetch, GetFails
  <1>2. ASSUME NEW p \in Policies, TimerFires(p) PROVE CopiesCurrent'
    BY <1>2 DEF TimerFires, server, worker, plan, CopiesCurrent
  <1>3. ASSUME NEW x \in Keys, Deliver(x) PROVE CopiesCurrent'
    <2>1. DOMAIN cache = Keys
      BY DEF TypeInv, ServerOK, ObjectsOK
    <2>2. cache' = [cache EXCEPT ![x] = stored[x]] /\ synced' = synced \cup {x}
          /\ stored' = stored /\ synced \subseteq Keys
      BY <1>3 DEF Deliver, TypeInv, ServerOK
    <2>3. \A y \in synced' : cache'[y] = stored'[y]
      BY <2>1, <2>2 DEF CopiesCurrent
    <2> QED
      BY <1>3, <2>3 DEF Deliver, worker, plan, CopiesCurrent
  <1>4. CASE Restart
    BY <1>4 DEF Restart, Release, CopiesCurrent
  <1>5. CASE Tick
    <2>1. ObjectsOK(stored) /\ synced \subseteq Keys
      BY DEF TypeInv, ServerOK, ScheduleOK
    <2>2. stored' = AgedWorkloads(stored) /\ cache' = AgedWorkloads(cache) /\ synced' = synced
          /\ UNCHANGED <<pc, obj, copy, fresh, listed, todo>>
      BY <1>5 DEF Tick
    <2>3. \A x \in synced : AgedWorkloads(cache)[x] = AgedWorkloads(stored)[x]
      BY <2>1 DEF AgedWorkloads, CopiesCurrent, TypeInv, ServerOK, ObjectsOK
    <2>4. todo \subseteq Workloads /\ (obj \in fresh => obj \in Policies)
      BY TodoType DEF TypeInv, WorkerOK, CopiesCurrent
    <2>5. \A w \in todo' \cap fresh' : stored'[w] # None /\ listed'[w] = stored'[w].spec
      BY <2>1, <2>2, <2>4, AgedType DEF CopiesCurrent
    <2>6. obj' \in fresh' => copy'.spec = stored'[obj'].spec
      BY <2>1, <2>2, <2>4, AgedType DEF CopiesCurrent
    <2> QED
      BY <2>2, <2>3, <2>5, <2>6 DEF CopiesCurrent
  <1>6. ASSUME NEW n \in Nodes, HealthChanges(n) PROVE CopiesCurrent'
    BY <1>6 DEF HealthChanges, server, worker, plan, CopiesCurrent
  <1>7. ASSUME NEW n \in Nodes, NodeChanges(n) PROVE CopiesCurrent'
    <2>1. PICK s : Store(n, s)
      BY <1>7 DEF NodeChanges
    <2> QED
      BY <1>7, <2>1, OthersWrite DEF NodeChanges, worker, plan, Keys
  <1>8. ASSUME NEW w \in Workloads, CheckWorkload(w) \/ MoveWorkload(w) PROVE CopiesCurrent'
    <2>1. PICK value : Store(w, value)
      BY <1>8 DEF CheckWorkload, MoveWorkload
    <2> QED
      BY <1>8, <2>1, OthersWrite DEF CheckWorkload, MoveWorkload, plan, Keys
  <1>9. ASSUME NEW x \in Workloads \cup Policies, Edit(x) PROVE CopiesCurrent'
    <2>1. PICK value : Store(x, value)
      BY <1>9 DEF Edit
    <2> QED
      BY <1>9, <2>1, OthersWrite DEF Edit, plan, Keys
  <1>10. CASE UNCHANGED vars
    BY <1>10 DEF vars, CopiesCurrent
  <1> QED
    BY <1>1, <1>2, <1>3, <1>4, <1>5, <1>6, <1>7, <1>8, <1>9, <1>10 DEF Next

\* TypeInv and CopiesCurrent, in every behaviour.
LEMMA FreshCopies == Spec => [](TypeInv /\ CopiesCurrent)
<1>1. Init => CopiesCurrent
  BY DEF Init, CopiesCurrent
<1>2. TypeInv /\ CopiesCurrent /\ [Next]_vars => CopiesCurrent'
  BY WorkerCurrent, OthersCurrent
<1> QED
  BY <1>1, <1>2, InitType, StepType, PTL DEF Spec

\* TypeOK: the variables keep their types in every behaviour.
THEOREM TypeCorrect == Spec => []TypeOK
  BY FreshCopies, TypeInvImplies, PTL

----------------------------------------------------------------------------
(* The schedule. *)

\* The policies whose cache stays current keep existing or not.
OthersKept ==
    /\ synced' \subseteq synced
    /\ \A p \in Policies \cap synced' : stored'[p] = stored[p]

\* AlwaysScheduled: no policy drops out of the schedule, however its reconciles end.
THEOREM NeverForgotten == Spec => []AlwaysScheduled
<1>1. Init => AlwaysScheduled
  BY DEF Init, AlwaysScheduled
<1>2. TypeInv /\ CopiesCurrent /\ AlwaysScheduled /\ [Next]_vars => AlwaysScheduled'
  <2> SUFFICES ASSUME TypeInv, CopiesCurrent, AlwaysScheduled, [Next]_vars
               PROVE  AlwaysScheduled'
    OBVIOUS
  <2>a. \A p \in Policies : p # None
    BY FailoverPolicyAssumption DEF Keys
  <2>b. pc = "idle" => obj = None
    BY DEF TypeInv, WorkerOK
  <2>c. ASSUME OthersKept, UNCHANGED <<schedule, obj>> PROVE AlwaysScheduled'
    BY <2>c DEF OthersKept, AlwaysScheduled, schedule
  <2>d. ASSUME OthersKept, Retry \/ Later PROVE AlwaysScheduled'
    BY <2>d DEF OthersKept, AlwaysScheduled, Retry, Later
  <2>e. ASSUME NEW key \in Keys, NEW value, Store(key, value) PROVE OthersKept
    BY <2>e, StoreCurrent DEF OthersKept, Store, TypeInv, CopiesCurrent, Keys
  <2>f. UNCHANGED server => OthersKept
    BY DEF server, OthersKept
  <2>1. ASSUME NEW p \in Policies, Fetch(p) PROVE AlwaysScheduled'
    <3>1. p \in synced => cache[p] = stored[p]
      BY DEF CopiesCurrent
    <3> QED
      BY <2>1, <2>a, <2>b, <3>1 DEF Fetch, AlwaysScheduled, server, worker
  <2>2. ASSUME NEW p \in Policies, TimerFires(p) \/ GetFails(p) PROVE AlwaysScheduled'
    BY <2>2 DEF TimerFires, GetFails, AlwaysScheduled, server, schedule, worker
  <2>3. CASE Reconcile
    <3>1. OthersKept
      <4>1. CASE \/ UNCHANGED server
                 \/ \E key \in Keys : \E value : Store(key, value)
        BY <4>1, <2>e, <2>f
      <4>2. CASE stored' = Past(stored) /\ UNCHANGED synced
        BY <4>2, PastType DEF OthersKept, TypeInv, ServerOK
      <4>3. todo \subseteq Workloads /\ (pc = "write" => obj \in Keys)
        BY TodoType DEF TypeInv, WorkerOK, Keys
      <4> QED
        BY <2>3, <4>1, <4>2, <4>3
           DEF Reconcile, ListHealth, CheckFailoverTriggers, Cordon, DrainTimeout, Annotate,
               RecordFailoverEvent, WriteStatus, CallFails, Keys
    <3>2. Retry \/ Later \/ UNCHANGED <<schedule, obj>>
      BY <2>3 DEF Reconcile, ListHealth, CheckFailoverTriggers, Cordon, DrainTimeout, Annotate,
                  RecordFailoverEvent, WriteStatus, CallFails, schedule
    <3> QED
      BY <2>c, <2>d, <3>1, <3>2
  <2>4. ASSUME NEW x \in Keys, Deliver(x) PROVE AlwaysScheduled'
    BY <2>4 DEF Deliver, AlwaysScheduled, worker
  <2>5. CASE Restart
    BY <2>5 DEF Restart, AlwaysScheduled
  <2>6. CASE Tick
    <3>1. OthersKept
      BY <2>6, AgedType DEF Tick, OthersKept, TypeInv, ServerOK
    <3> QED
      BY <2>6, <3>1, <2>c DEF Tick
  <2>7. ASSUME NEW n \in Nodes, HealthChanges(n) \/ NodeChanges(n) PROVE AlwaysScheduled'
    <3>1. OthersKept
      BY <2>7, <2>e, <2>f DEF HealthChanges, NodeChanges, Keys
    <3> QED
      BY <2>7, <2>c, <3>1 DEF HealthChanges, NodeChanges, worker
  <2>8. ASSUME NEW w \in Workloads, CheckWorkload(w) \/ MoveWorkload(w) PROVE AlwaysScheduled'
    <3>1. OthersKept
      BY <2>8, <2>e DEF CheckWorkload, MoveWorkload, Keys
    <3> QED
      BY <2>8, <2>c, <3>1 DEF CheckWorkload, MoveWorkload
  <2>9. ASSUME NEW x \in Workloads \cup Policies, Edit(x) PROVE AlwaysScheduled'
    <3>1. OthersKept
      BY <2>9, <2>e DEF Edit, Keys
    <3> QED
      BY <2>9, <2>c, <3>1 DEF Edit
  <2>10. CASE UNCHANGED vars
    BY <2>10, <2>c, <2>f DEF vars, schedule, server
  <2> QED
    BY <2>1, <2>2, <2>3, <2>4, <2>5, <2>6, <2>7, <2>8, <2>9, <2>10 DEF Next
<1> QED
  BY <1>1, <1>2, FreshCopies, PTL DEF Spec

----------------------------------------------------------------------------
(* What a failover does to the workloads. *)

\* Whatever is no longer to be annotated has been, or was created since, and stays so.
FailoverSoFar ==
    /\ pc = "write" => todo = {}
    /\ pc \in {"cordon", "annotate", "write"} /\ copy.spec.strategy # "manual" =>
          \A w \in DOMAIN listed \ todo :
             stored[w] # None => stored[w].mark \in {"now", "new"}

\* RewritesStored, for one step: only an update with a current copy takes effect during a
\* failover, and that copy's spec is the stored one.
LEMMA StepWritesOnTop ==
    ASSUME TypeInv, CopiesCurrent, [Next]_vars, NEW w \in Workloads,
           pc = "annotate", todo' # todo, stored'[w] # stored[w]
    PROVE  /\ stored[w] # None
           /\ stored'[w] = [stored[w] EXCEPT !.mark = "now", !.spec = Defaulted(@)]
  <1>0. todo \subseteq Workloads
    BY TodoType DEF TypeInv
  <1>1. ASSUME NEW v \in todo \cap fresh, Store(v, Annotated(v)) PROVE v = w
    <2>1. v \in Keys /\ w \in Keys
      BY <1>0 DEF Keys
    <2> QED
      BY <1>1, <2>1, StoreCurrent DEF TypeInv, CopiesCurrent
  <1>2. w \in todo \cap fresh /\ Store(w, Annotated(w))
    <2>1. CASE Reconcile
      <3>1. CASE CallFails
        BY <1>1, <3>1 DEF CallFails, server
      <3>2. CASE \E v \in Workloads : Annotate(v)
        BY <1>1, <3>2 DEF Annotate, server
      <3>3. CASE \E n \in Nodes : Cordon(n)
        BY <3>3 DEF Cordon
      <3> QED
        BY <2>1, <3>1, <3>2, <3>3
           DEF Reconcile, ListHealth, CheckFailoverTriggers, DrainTimeout,
               RecordFailoverEvent, WriteStatus, plan
    <2>2. CASE ~Reconcile
      <3>1. CASE Restart
        BY <3>1 DEF Restart
      <3>2. CASE \E p \in Policies : Fetch(p)
        BY <3>2 DEF Fetch
      <3> QED
        BY <2>2, <3>1, <3>2
           DEF Next, vars, GetFails, TimerFires, Deliver, Tick, HealthChanges,
               NodeChanges, CheckWorkload, MoveWorkload, Edit, worker, plan
    <2> QED
      BY <2>1, <2>2
  <1>3. stored'[w] = Annotated(w)
    BY <1>2, StoreCurrent DEF TypeInv, CopiesCurrent, Keys
  <1> QED
    BY <1>2, <1>3, AnnotateType

\* RewritesStored: a failover sets the annotation and, by the schema's defaults, the
\* switches and settings that were absent in the version that is stored, and nothing
\* else of a workload.
THEOREM WritesOnTop == Spec => RewritesStored
<1>1. TypeInv /\ CopiesCurrent /\ [Next]_vars =>
         [\A w \in Workloads :
             pc = "annotate" /\ todo' # todo /\ stored'[w] # stored[w]
                => /\ stored[w] # None
                   /\ stored'[w] = [stored[w] EXCEPT !.mark = "now",
                                                     !.spec = Defaulted(@)]]_vars
  BY StepWritesOnTop
<1> QED
  BY <1>1, FreshCopies, PTL DEF Spec, RewritesStored

\* What was annotated, was created or is gone since the failover began stays so until
\* the next one begins.
Reached(w) == stored[w] # None => stored[w].mark \in {"now", "new"}
LEMMA ReachedStays ==
    ASSUME TypeInv, CopiesCurrent, [Next]_vars, ~CheckFailoverTriggers,
           NEW w \in Workloads, Reached(w)
    PROVE  Reached(w)'
  <1>1. /\ w \in Keys /\ w \notin Policies \cup Nodes
        /\ stored[w] # None => stored[w] \in WorkloadType
    BY KindOfKey DEF TypeInv
  <1>2. ASSUME NEW key \in Keys, NEW value, Store(key, value),
               key = w => (value # None => value.mark \in {"now", "new"})
        PROVE  Reached(w)'
    BY <1>1, <1>2, StoreCurrent DEF TypeInv, CopiesCurrent, Reached
  <1>3. ASSUME Reconcile PROVE Reached(w)'
    <2>1. ASSUME NEW v \in todo \cap fresh, Store(v, Annotated(v)) PROVE Reached(w)'
      <3>1. v \in Keys /\ Annotated(v).mark = "now"
        BY AnnotateType DEF Keys
      <3> QED
        BY <2>1, <3>1, <1>2
    <2>2. ASSUME pc = "write", Store(obj, copy) PROVE Reached(w)'
      <3>1. obj \in Keys /\ obj # w
        BY <1>1, <2>2 DEF TypeInv, WorkerOK, Keys
      <3> QED
        BY <1>2, <2>2, <3>1
    <2>3. ASSUME NEW n \in Nodes, Store(n, [cordoned |-> TRUE]) PROVE Reached(w)'
      BY <1>1, <1>2, <2>3 DEF Keys
    <2>4. \/ UNCHANGED server
          \/ \E v \in todo \cap fresh : Store(v, Annotated(v))
          \/ pc = "write" /\ Store(obj, copy)
          \/ \E n \in Nodes : Store(n, [cordoned |-> TRUE])
      BY <1>3 DEF Reconcile, ListHealth, Cordon, DrainTimeout, Annotate,
                  RecordFailoverEvent, WriteStatus, CallFails
    <2> QED
      BY <2>1, <2>2, <2>3, <2>4 DEF server, Reached
  <1>4. CASE Tick
    BY <1>4, AgedType DEF Tick, TypeInv, ServerOK, Reached
  <1>5. ASSUME NEW n \in Nodes, NodeChanges(n) PROVE Reached(w)'
    BY <1>1, <1>2, <1>5 DEF NodeChanges, Keys
  <1>6. ASSUME NEW v \in Workloads, CheckWorkload(v) \/ MoveWorkload(v)
        PROVE  Reached(w)'
    <2>1. stored[w] # None => [stored[w] EXCEPT !.age = 0].mark = stored[w].mark
      BY <1>1 DEF WorkloadType
    <2>2. ASSUME NEW n, NEW unhealthy, stored[w] # None
          PROVE  [stored[w] EXCEPT !.node = n, !.unhealthy = unhealthy, !.age = 0].mark
                    = stored[w].mark
      BY <1>1, <2>2 DEF WorkloadType
    <2> QED
      BY <1>2, <1>6, <2>1, <2>2 DEF CheckWorkload, MoveWorkload, Keys, Reached
  <1>7. ASSUME NEW x \in Workloads \cup Policies, Edit(x) PROVE Reached(w)'
    <2>1. ASSUME NEW s, stored[w] # None PROVE [stored[w] EXCEPT !.spec = s].mark = stored[w].mark
      BY <1>1, <2>1 DEF WorkloadType
    <2>2. \A s : NewWorkload(s, "new", None).mark = "new"
      BY DEF NewWorkload
    <2>3. PICK value : /\ Store(x, value)
                       /\ x = w => (value # None => value.mark \in {"now", "new"})
      BY <1>1, <1>7, <2>1, <2>2 DEF Edit, Reached
    <2> QED
      BY <1>2, <2>3 DEF Keys
  <1>8. CASE UNCHANGED stored
    BY <1>8 DEF Reached
  <1> QED
    BY <1>3, <1>4, <1>5, <1>6, <1>7, <1>8
       DEF Next, vars, Fetch, GetFails, TimerFires, Deliver, Restart, HealthChanges, server

\* The failover so far is kept by every step.
LEMMA StepSoFar ==
    ASSUME TypeInv, CopiesCurrent, FailoverSoFar, [Next]_vars
    PROVE  FailoverSoFar'
  <1>0. todo \subseteq Workloads /\ (listed # None => DOMAIN listed \subseteq Workloads)
        /\ (pc \in {"cordon", "annotate", "write"} <=> listed # None)
    BY TodoType DEF TypeInv, WorkerOK
  <1>a. FailoverSoFar <=>
           /\ pc = "write" => todo = {}
           /\ pc \in {"cordon", "annotate", "write"} /\ copy.spec.strategy # "manual" =>
                 \A w \in DOMAIN listed \ todo : Reached(w)
    BY DEF FailoverSoFar, Reached
  <1>b. FailoverSoFar' <=>
           /\ pc' = "write" => todo' = {}
           /\ pc' \in {"cordon", "annotate", "write"} /\ copy'.spec.strategy # "manual" =>
                 \A w \in DOMAIN listed' \ todo' : Reached(w)'
    BY DEF FailoverSoFar, Reached
  <1>1. CASE pc' \notin {"cordon", "annotate", "write"}
    BY <1>1, <1>b
  <1>2. CASE UNCHANGED <<pc, copy, listed, todo>> /\ ~CheckFailoverTriggers
    BY <1>2, <1>0, <1>a, <1>b, ReachedStays
  <1>3. CASE CheckFailoverTriggers
    <2>1. CASE Later
      BY <2>1, <1>1 DEF Later, Release
    <2>2. CASE ~Later
      BY <1>3, <2>2, <1>b DEF CheckFailoverTriggers, ExecuteFailover
    <2> QED
      BY <2>1, <2>2
  <1>4. ASSUME NEW n \in Nodes, Cordon(n) PROVE FailoverSoFar'
    BY <1>4, <1>1, <1>2 DEF Cordon, Retry, Release, CheckFailoverTriggers
  <1>5. CASE DrainTimeout
    <2>1. ~CheckFailoverTriggers /\ UNCHANGED <<copy, listed, todo>> /\ pc = "cordon"
          /\ pc' = "annotate"
      BY <1>5 DEF DrainTimeout, CheckFailoverTriggers, plan
    <2> QED
      BY <2>1, <1>0, <1>a, <1>b, ReachedStays
  <1>6. ASSUME NEW w \in Workloads, Annotate(w) PROVE FailoverSoFar'
    <2>1. CASE w \in fresh /\ todo' = todo \ {w} /\ Store(w, Annotated(w))
               /\ UNCHANGED <<pc, copy, listed>>
      <3>1. pc = "annotate" /\ w \in Keys /\ w \in todo \cap fresh /\ ~CheckFailoverTriggers
        BY <1>6, <2>1 DEF Annotate, CheckFailoverTriggers, Keys
      <3>2. Reached(w)'
        <4>1. Annotated(w).mark = "now"
          BY <3>1, AnnotateType
        <4>2. stored'[w] = Annotated(w)
          BY <2>1, <3>1, StoreCurrent DEF TypeInv, CopiesCurrent
        <4> QED
          BY <4>1, <4>2 DEF Reached
      <3> QED
        BY <2>1, <3>1, <3>2, <1>0, <1>a, <1>b, ReachedStays
    <2> QED
      BY <1>1, <1>6, <2>1 DEF Annotate, Retry, Release
  <1>7. CASE RecordFailoverEvent
    <2>1. copy \in PolicyType /\ copy' = [copy EXCEPT !.events = UpTo(@, KeptEvents)]
      BY <1>7 DEF RecordFailoverEvent, TypeInv, WorkerOK
    <2>2. copy'.spec = copy.spec
      BY <2>1 DEF PolicyType
    <2>3. ~CheckFailoverTriggers /\ UNCHANGED <<listed, todo>> /\ pc = "annotate" /\ todo = {}
      BY <1>7 DEF RecordFailoverEvent, CheckFailoverTriggers, plan
    <2> QED
      BY <2>2, <2>3, <1>0, <1>a, <1>b, ReachedStays
  <1>8. CASE Release
    BY <1>1, <1>8 DEF Release
  <1>9. ASSUME NEW p \in Policies, Fetch(p) PROVE FailoverSoFar'
    BY <1>1, <1>2, <1>9 DEF Fetch, CheckFailoverTriggers, worker, plan
  <1>10. CASE UNCHANGED <<pc, copy, listed, todo>> /\ CheckFailoverTriggers
    BY <1>3, <1>10
  <1> QED
    BY <1>1, <1>2, <1>3, <1>4, <1>5, <1>6, <1>7, <1>8, <1>9, <1>10
       DEF Next, vars, Reconcile, ListHealth, WriteStatus, CallFails, Retry, Later, GetFails,
           TimerFires, Deliver, Restart, Tick, HealthChanges, NodeChanges, CheckWorkload,
           MoveWorkload, Edit, worker, plan

\* FailoverTotal: a failover that is about to be recorded reached every workload that
\* was listed and still exists.
THEOREM ReachedEveryWorkload == Spec => []FailoverTotal
<1>1. Init => FailoverSoFar
  BY DEF Init, FailoverSoFar
<1>2. TypeInv /\ CopiesCurrent /\ FailoverSoFar /\ [Next]_vars => FailoverSoFar'
  BY StepSoFar
<1>3. FailoverSoFar => FailoverTotal
  BY DEF FailoverSoFar, FailoverTotal
<1> QED
  BY <1>1, <1>2, <1>3, FreshCopies, PTL DEF Spec

==================================================================================
