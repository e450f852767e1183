---------------------------- MODULE FailoverPolicy ----------------------------
(***************************************************************************)
(* The FailoverPolicy controller (controllers/failoverpolicy_controller.go)*)
(* A reconcile looks at all NodeHealthStatus and RegionalWorkload objects; *)
(* when one of the policy's triggers is met it fails over: it cordons the  *)
(* nodes in use and waits (graceful), or not (immediate), and then writes  *)
(* an annotation on every RegionalWorkload, whose controller will place it *)
(* again.                                                                  *)
(*                                                                         *)
(* Policies, workloads and nodes are API objects, read from a cache that   *)
(* lags behind and written with a version check, as in NodeHealth: synced  *)
(* holds the keys whose cache is current, fresh those of which the worker's*)
(* copy is.  The NodeHealthStatus controller is here by what it promises:   *)
(* the records of the health change as HealthRecord says, which NodeHealth *)
(* implements.  The RegionalWorkload controller is part of the environment *)
(* and changes the status of the workloads.                                *)
(***************************************************************************)
EXTENDS Integers, FiniteSets

CONSTANTS
    Policies, Workloads, Nodes, Regions, None,
    PolicySpecs,    \* specs a policy may have, see PolicySpecType
    WorkloadSpecs,  \* specs users may write for a workload, see SpecType
    CanUpdateNodes, \* whether the manager may update nodes; role.yaml says no
    KeptEvents,     \* the length RecentEvents is cut to, 10 in the code
    MaxAge,         \* bound: ages saturate here
    MaxChanges,     \* bound: changes of node health and of nodes
    MaxMoves,       \* bound: moves of workloads and changes of their health
    MaxEdits,       \* bound: edits of workloads and policies
    MaxFaults,      \* bound: failed calls and restarts
    MaxActs         \* bound: all of these together

Keys == Policies \cup Workloads \cup Nodes

PolicySpecType ==
    [enabled : BOOLEAN,
     node : Nat, workload : Nat,   \* trigger durations in ticks, 0 for none
     outage : BOOLEAN,             \* trigger on a regional outage
     strategy : {"immediate", "graceful", "manual"},
     notify : SUBSET {"start", "complete"},
     severity : 0 .. 3,            \* level of the minimum severity
     targets : SUBSET Workloads]   \* targetWorkloads, which nothing reads

\* "TargetWorkloads lists workloads this policy applies to / Empty list means apply to
\* all workloads" (api/v1alpha1/failoverpolicy_types.go).
Targets(spec) == IF spec.targets = {} THEN Workloads ELSE spec.targets

\* A workload's spec as far as an update may change it: the switches that are on, of
\* sharedEndpoint.enabled and .autoFailback, failoverConfig.enabled and
\* notificationEnabled; the durations of failoverConfig and the mode and IP of
\* sharedEndpoint, absent when that part of the spec is; and everything else.
Switches == {"endpoint", "failback", "failover", "notification"}
SpecType == [on : SUBSET Switches, durations : {"absent", "zero", "set"},
             address : {"absent", "set"}, rest : {"as created", "edited"}]

\* What becomes of a spec that is sent from a Go object.  A field that is false or empty
\* is left out (omitempty), and where the schema has a default for it the API server
\* puts in the default: all switches are on then, and mode and IP are set.  A Duration is
\* a struct and never left out: what was absent is 0s.
Defaulted(spec) ==
    [on |-> Switches, address |-> "set", rest |-> spec.rest,
     durations |-> IF spec.durations = "absent" THEN "zero" ELSE spec.durations]

ASSUME FailoverPolicyAssumption ==
    /\ Policies \cap Workloads = {} /\ Policies \cap Nodes = {} /\ Workloads \cap Nodes = {}
    /\ None \notin Keys \cup Regions
    /\ PolicySpecs \subseteq PolicySpecType
    /\ WorkloadSpecs \subseteq SpecType
    /\ CanUpdateNodes \in BOOLEAN
    /\ KeptEvents \in Nat \ {0} /\ MaxAge \in Nat \ {0}
    /\ MaxChanges \in Nat /\ MaxMoves \in Nat /\ MaxEdits \in Nat /\ MaxFaults \in Nat
    /\ MaxActs \in Nat

VARIABLES
    records,  \* records[n]: the status of the NodeHealthStatus of n, see HealthRecord
    region,   \* region[n]: the region it carries
    stored, cache, synced,   \* API server and informers
    queue, delayed,          \* policies waiting, and waiting for a requeue
    pc, obj, copy, fresh,    \* the worker, the policy and its copy of it
    sick,     \* the worker's copies of the NodeHealthStatus objects
    listed,   \* the worker's copies of the workloads' specs, which it writes
    affected, \* nodes still to be cordoned
    todo,     \* workloads still to be annotated
    sent,     \* the notifications this reconcile sent
    changes, moves, edits, faults  \* how often the environment acted
health == <<records, region>>
bounds == <<changes, moves, edits, faults>>
server == <<stored, cache, synced>>
schedule == <<queue, delayed>>
plan == <<sick, listed, affected, todo>>
worker == <<pc, obj, copy, fresh, plan, sent>>
vars == <<records, region, stored, cache, synced, queue, delayed, pc, obj, copy, fresh,
          sick, listed, affected, todo, sent, changes, moves, edits, faults>>

\* The environment may act once more.
MayAct == changes + moves + edits + faults < MaxActs

UpTo(n, bound) == IF n < bound THEN n + 1 ELSE bound

\* One NodeHealthStatus for each node; of its verdicts only Unhealthy counts here.
HR == INSTANCE HealthRecord WITH Objects <- Nodes, Verdicts <- {"Healthy", "Unhealthy"},
                                 MaxFailures <- 1
HealthList ==
    [n \in Nodes |-> [unhealthy |-> records[n].overall = "Unhealthy",
                      age |-> records[n].age, region |-> region[n]]]

----------------------------------------------------------------------------
(* checkFailoverTriggers *)

\* A NodeHealthStatus has been Unhealthy for long enough, since LastTransitionTime.
NodeTrigger(spec, hs) ==
    spec.node > 0 /\ \E n \in Nodes : hs[n].unhealthy /\ hs[n].age >= spec.node

\* A workload was found Unhealthy long enough ago: the time is that of the last
\* check, which the RegionalWorkload controller renews with every status.
WorkloadTrigger(spec, ws) ==
    /\ spec.workload > 0
    /\ \E w \in DOMAIN ws : ws[w].unhealthy /\ ws[w].age >= spec.workload

\* All nodes of some region are Unhealthy; nodes without a region do not count.
OutageTrigger(spec, hs) ==
    /\ spec.outage
    /\ \E r \in Regions :
          LET members == {n \in Nodes : hs[n].region = r}
          IN  members # {} /\ \A n \in members : hs[n].unhealthy

Triggered(spec, hs, ws) ==
    NodeTrigger(spec, hs) \/ WorkloadTrigger(spec, ws) \/ OutageTrigger(spec, hs)

\* sendNotification: a start is critical, a completion is info.  (The notice of a
\* failed failover is critical too; it is sent as the reconcile ends.)
Level(kind) == IF kind = "complete" THEN 1 ELSE 3
Notices(spec, kind) ==
    IF kind \in spec.notify /\ Level(kind) >= spec.severity THEN {kind} ELSE {}

\* None is a value of its own: no list of specs equals it.
ASSUME NoListIsNone == \A S \in SUBSET Workloads : None \notin [S -> SpecType]

\* A workload's mark is what happened to it since a failover last began: whether the
\* annotation was written ("now"), or it was created ("new").
NewWorkload(spec, mark, node) ==
    [spec |-> spec, mark |-> mark, node |-> node, unhealthy |-> FALSE, age |-> 0]

----------------------------------------------------------------------------
Init ==
    /\ HR!Init
    /\ region \in [Nodes -> Regions \cup {None}]
    /\ \E policy \in [Policies -> [spec : PolicySpecs, events : {0}]],
          workload \in [Workloads -> {NewWorkload(s, "old", n) : s \in WorkloadSpecs,
                                                                n \in Nodes \cup {None}}] :
          stored = [x \in Keys |-> IF x \in Policies THEN policy[x]
                                   ELSE IF x \in Workloads THEN workload[x]
                                   ELSE [cordoned |-> FALSE]]
    /\ cache = stored /\ synced = Keys
    /\ queue = Policies /\ delayed = {}
    /\ pc = "idle" /\ obj = None /\ copy = None /\ fresh = {}
    /\ sick = None /\ listed = None /\ affected = {} /\ todo = {} /\ sent = {}
    /\ changes = 0 /\ moves = 0 /\ edits = 0 /\ faults = 0

Release ==
    /\ pc' = "idle" /\ obj' = None /\ copy' = None /\ fresh' = {}
    /\ sick' = None /\ listed' = None /\ affected' = {} /\ todo' = {} /\ sent' = {}

\* Mutant: Reconcile returns neither an error nor a requeue.
Forget == UNCHANGED schedule /\ Release

\* Reconcile returns an error (a RequeueAfter next to it is ignored), and nothing is
\* written to the status; or it returns a RequeueAfter.
Retry == queue' = queue \cup {obj} /\ UNCHANGED delayed /\ Release
Later == delayed' = delayed \cup {obj} /\ UNCHANGED queue /\ Release

Store(key, value) ==
    /\ stored' = [stored EXCEPT ![key] = value]
    /\ synced' = synced \ {key}
    /\ UNCHANGED cache

\* The worker takes a policy; one that is gone is forgotten, a disabled one is looked
\* at again a minute later.
Fetch(p) ==
    /\ pc = "idle"
    /\ p \in queue
    /\ queue' = queue \ {p}
    /\ \/ cache[p] = None /\ UNCHANGED <<delayed, worker>>
       \/ /\ cache[p] # None /\ ~cache[p].spec.enabled
          /\ delayed' = delayed \cup {p}
          /\ UNCHANGED worker
       \/ /\ cache[p] # None /\ cache[p].spec.enabled
          /\ pc' = "list" /\ obj' = p /\ copy' = cache[p]
          /\ fresh' = synced \cap {p}
          /\ UNCHANGED <<delayed, plan, sent>>
    /\ UNCHANGED <<health, server, bounds>>

\* It cannot be read: the queue retries it.
GetFails(p) ==
    /\ pc = "idle"
    /\ p \in queue
    /\ MayAct /\ faults < MaxFaults
    /\ faults' = faults + 1
    /\ UNCHANGED <<health, server, schedule, worker, changes, moves, edits>>

ListHealth ==
    /\ pc = "list"
    /\ sick' = HealthList
    /\ pc' = "check"
    /\ UNCHANGED <<health, server, schedule, obj, copy, fresh, listed, affected, todo,
                   sent, bounds>>

\* executeFailover goes by the strategy: manual does nothing, graceful begins with the
\* nodes in use, and both others annotate all workloads, whatever the policy's targets.
ExecuteFailover(strategy, workloads, used) ==
    /\ affected' = IF strategy = "graceful" THEN used ELSE {}
    /\ todo' = IF strategy = "manual" THEN {} ELSE workloads
    /\ pc' = IF strategy = "graceful" THEN "cordon" ELSE "annotate"

\* As a failover begins, what happened to the workloads is of the past.
Past(f) ==
    [k \in DOMAIN f |-> IF k \in Workloads /\ f[k] # None THEN [f[k] EXCEPT !.mark = "old"]
                                                          ELSE f[k]]

\* It lists the workloads and checks the triggers; a failover begins.
CheckFailoverTriggers ==
    /\ pc = "check"
    /\ LET ws == [w \in {v \in Workloads : cache[v] # None} |-> cache[w]]
           used == {ws[w].node : w \in DOMAIN ws} \ {None}
       IN  \/ ~Triggered(copy.spec, sick, ws) /\ Later /\ UNCHANGED server
           \/ /\ Triggered(copy.spec, sick, ws)
              /\ stored' = Past(stored) /\ cache' = Past(cache) /\ UNCHANGED synced
              /\ listed' = [w \in DOMAIN ws |-> ws[w].spec]
              /\ sick' = None
              /\ fresh' = fresh \cup (synced \cap DOMAIN ws)
              /\ sent' = Notices(copy.spec, "start")
              /\ ExecuteFailover(copy.spec.strategy, DOMAIN ws, used)
              /\ UNCHANGED <<schedule, obj, copy>>
    /\ UNCHANGED <<health, bounds>>

\* The nodes in use, in any order: one that cannot be read is skipped; one that
\* cannot be updated, for lack of permission or a conflict, fails the failover.
Cordon(n) ==
    /\ pc = "cordon"
    /\ n \in affected
    /\ \/ /\ cache[n] = None \/ (CanUpdateNodes /\ n \in synced)
          /\ affected' = affected \ {n}
          /\ IF cache[n] = None \/ stored[n].cordoned THEN UNCHANGED server
             ELSE Store(n, [cordoned |-> TRUE])
          /\ UNCHANGED <<schedule, pc, obj, copy, fresh, sick, listed, todo, sent>>
       \/ /\ cache[n] # None /\ ~(CanUpdateNodes /\ n \in synced)
          /\ Retry
          /\ UNCHANGED server
    /\ UNCHANGED <<health, bounds>>

\* waitForDrainTimeout: only time passes; nothing is drained.
DrainTimeout ==
    /\ pc = "cordon"
    /\ affected = {}
    /\ pc' = "annotate"
    /\ UNCHANGED <<health, server, schedule, obj, copy, fresh, plan, sent, bounds>>

\* What an update of w makes of it: annotation and spec come from the copy, the
\* status, which has an update of its own, stays.
Annotated(w) == [stored[w] EXCEPT !.mark = "now", !.spec = Defaulted(listed[w])]

\* Mutants: a failed update is skipped; the annotation is forced on whatever is
\* stored.
AnnotateOrSkip(w) ==
    /\ pc = "annotate"
    /\ w \in todo
    /\ todo' = todo \ {w}
    /\ IF w \in fresh THEN Store(w, Annotated(w))
                      ELSE UNCHANGED server
    /\ UNCHANGED <<schedule, pc, obj, copy, fresh, sick, listed, affected, sent>>
    /\ UNCHANGED <<health, bounds>>
AnnotateAnyway(w) ==
    /\ pc = "annotate"
    /\ w \in todo
    /\ todo' = todo \ {w}
    /\ IF stored[w] # None THEN Store(w, Annotated(w)) ELSE UNCHANGED server
    /\ UNCHANGED <<schedule, pc, obj, copy, fresh, sick, listed, affected, sent>>
    /\ UNCHANGED <<health, bounds>>

\* executeImmediateFailover: every workload, in any order; the first update that
\* is refused, as the workload changed or is gone, ends it.
Annotate(w) ==
    /\ pc = "annotate"
    /\ w \in todo
    /\ \/ /\ w \in fresh
          /\ todo' = todo \ {w}
          /\ Store(w, Annotated(w))
          /\ UNCHANGED <<schedule, pc, obj, copy, fresh, sick, listed, affected, sent>>
       \/ /\ w \notin fresh
          /\ Retry
          /\ UNCHANGED server
    /\ UNCHANGED <<health, bounds>>

\* Mutant: RecentEvents is not cut.
RecordWithoutLimit ==
    /\ pc = "annotate"
    /\ todo = {}
    /\ sent' = sent \cup Notices(copy.spec, "complete")
    /\ copy' = [copy EXCEPT !.events = @ + 1]
    /\ pc' = "write"
    /\ UNCHANGED <<health, server, schedule, obj, fresh, plan, bounds>>

\* recordFailoverEvent, in the worker's copy.
RecordFailoverEvent ==
    /\ pc = "annotate"
    /\ todo = {}
    /\ sent' = sent \cup Notices(copy.spec, "complete")
    /\ copy' = [copy EXCEPT !.events = UpTo(@, KeptEvents)]
    /\ pc' = "write"
    /\ UNCHANGED <<health, server, schedule, obj, fresh, plan, bounds>>

\* Status().Update: the time of the event makes it a new version.
WriteStatus ==
    /\ pc = "write"
    /\ \/ obj \in fresh /\ Store(obj, copy) /\ Later
       \/ obj \notin fresh /\ UNCHANGED server /\ Retry
    /\ UNCHANGED <<health, bounds>>

\* A call fails: a list, an update or the status write, the last two possibly
\* after they took effect.
CallFails ==
    /\ pc \in {"list", "check", "cordon", "annotate", "write"}
    /\ MayAct /\ faults < MaxFaults
    /\ faults' = faults + 1
    /\ \/ UNCHANGED server
       \/ pc = "write" /\ obj \in fresh /\ Store(obj, copy)
       \/ \E w \in todo \cap fresh :
             /\ pc = "annotate"
             /\ Store(w, Annotated(w))
    /\ Retry
    /\ UNCHANGED <<health, changes, moves, edits>>

----------------------------------------------------------------------------
(* Controller-runtime. *)

Deliver(x) ==
    /\ x \notin synced
    /\ cache' = [cache EXCEPT ![x] = stored[x]]
    /\ synced' = synced \cup {x}
    /\ queue' = queue \cup ({x} \cap Policies)
    /\ UNCHANGED <<health, stored, delayed, worker, bounds>>

TimerFires(p) ==
    /\ p \in delayed
    /\ delayed' = delayed \ {p}
    /\ queue' = queue \cup {p}
    /\ UNCHANGED <<health, server, worker, bounds>>

\* Also what ends a drain early: its context is cancelled.
Restart ==
    /\ MayAct /\ faults < MaxFaults
    /\ faults' = faults + 1
    /\ cache' = stored /\ synced' = Keys
    /\ queue' = {p \in Policies : stored[p] # None} /\ delayed' = {}
    /\ Release
    /\ UNCHANGED <<health, stored, changes, moves, edits>>

----------------------------------------------------------------------------
(* The environment. *)

Aged(x) == [x EXCEPT !.age = UpTo(@, MaxAge)]
AgedWorkloads(f) ==
    [k \in DOMAIN f |-> IF k \in Workloads /\ f[k] # None THEN Aged(f[k]) ELSE f[k]]

\* Time passes: the ages grow wherever they are held.
Tick ==
    /\ HR!Tick
    /\ UNCHANGED region
    /\ stored' = AgedWorkloads(stored) /\ cache' = AgedWorkloads(cache)
    /\ sick' = IF sick = None THEN None ELSE [n \in Nodes |-> Aged(sick[n])]
    /\ UNCHANGED <<synced, schedule, pc, obj, copy, fresh, listed, affected, todo, sent,
                   bounds>>

\* The NodeHealthStatus controller records a check of n.
HealthChanges(n) ==
    /\ MayAct /\ changes < MaxChanges
    /\ changes' = changes + 1
    /\ \E verdict \in {"Healthy", "Unhealthy"} : HR!Record(n, verdict)
    /\ UNCHANGED <<region, server, schedule, worker, moves, edits, faults>>

\* A node disappears, or is uncordoned by an administrator.
NodeChanges(n) ==
    /\ MayAct /\ changes < MaxChanges
    /\ changes' = changes + 1
    /\ \E s \in {None, [cordoned |-> FALSE]} \ {stored[n]} : Store(n, s)
    /\ UNCHANGED <<health, schedule, worker, moves, edits, faults>>

\* The RegionalWorkload controller writes the status of w: the same placement and
\* health with a new check time, or others.
CheckWorkload(w) ==
    /\ stored[w] # None
    /\ Store(w, [stored[w] EXCEPT !.age = 0])
    /\ fresh' = fresh \ {w}
    /\ UNCHANGED <<health, schedule, pc, obj, copy, plan, sent, bounds>>
MoveWorkload(w) ==
    /\ MayAct /\ moves < MaxMoves
    /\ moves' = moves + 1
    /\ stored[w] # None
    /\ \E n \in Nodes, unhealthy \in BOOLEAN :
          Store(w, [stored[w] EXCEPT !.node = n, !.unhealthy = unhealthy, !.age = 0])
    /\ fresh' = fresh \ {w}
    /\ UNCHANGED <<health, schedule, pc, obj, copy, plan, sent, changes, edits, faults>>

\* A user edits, deletes or creates a workload or a policy.
Edit(x) ==
    /\ MayAct /\ edits < MaxEdits
    /\ edits' = edits + 1
    /\ \/ stored[x] # None /\ Store(x, None)
       \/ /\ x \in Workloads
          /\ \E s \in WorkloadSpecs :
                Store(x, IF stored[x] = None THEN NewWorkload(s, "new", None)
                                             ELSE [stored[x] EXCEPT !.spec = s])
       \/ /\ x \in Policies
          /\ \E s \in PolicySpecs :
                Store(x, IF stored[x] = None THEN [spec |-> s, events |-> 0]
                                             ELSE [stored[x] EXCEPT !.spec = s])
    /\ fresh' = fresh \ {x}
    /\ UNCHANGED <<health, schedule, pc, obj, copy, plan, sent, changes, moves, faults>>

Reconcile ==
    \/ ListHealth
    \/ CheckFailoverTriggers
    \/ \E n \in Nodes : Cordon(n)
    \/ DrainTimeout
    \/ \E w \in Workloads : Annotate(w)
    \/ RecordFailoverEvent
    \/ WriteStatus
    \/ CallFails

Next ==
    \/ \E p \in Policies : Fetch(p) \/ GetFails(p) \/ TimerFires(p)
    \/ Reconcile
    \/ \E x \in Keys : Deliver(x)
    \/ Restart
    \/ Tick
    \/ \E n \in Nodes : HealthChanges(n) \/ NodeChanges(n)
    \/ \E w \in Workloads : CheckWorkload(w) \/ MoveWorkload(w)
    \/ \E x \in Workloads \cup Policies : Edit(x)

Spec == Init /\ [][Next]_vars

\* The worker keeps running, the queue serves the policies in turn, watches
\* deliver, requeues come due, time passes.  The other controllers and the users
\* may stop.
Fairness ==
    /\ WF_vars(Reconcile)
    /\ \A p \in Policies : SF_vars(Fetch(p)) /\ WF_vars(TimerFires(p))
    /\ \A x \in Keys : WF_vars(Deliver(x))
    /\ WF_vars(Tick)

FairSpec == Spec /\ Fairness

----------------------------------------------------------------------------
(* Correctness. *)

PolicyType == [spec : PolicySpecs, events : 0 .. KeptEvents]
WorkloadType == [spec : SpecType, mark : {"old", "now", "new"},
                 node : Nodes \cup {None}, unhealthy : BOOLEAN, age : 0 .. MaxAge]
ASSUME NoWorkloadIsNone == None \notin WorkloadType
HealthType == [unhealthy : BOOLEAN, age : 0 .. MaxAge, region : Regions \cup {None}]
ObjectsOK(objects) ==
    /\ DOMAIN objects = Keys
    /\ \A p \in Policies : objects[p] \in PolicyType \cup {None}
    /\ \A w \in Workloads : objects[w] \in WorkloadType \cup {None}
    /\ \A n \in Nodes : objects[n] \in {None} \cup [cordoned : BOOLEAN]

\* The variables keep their types; the lists a failover works through are there
\* exactly while it runs.
TypeOK ==
    /\ HealthList \in [Nodes -> HealthType]
    /\ ObjectsOK(stored) /\ ObjectsOK(cache)
    /\ synced \subseteq Keys /\ fresh \subseteq Keys
    /\ queue \subseteq Policies /\ delayed \subseteq Policies
    /\ pc \in {"idle", "list", "check", "cordon", "annotate", "write"}
    /\ IF pc = "idle" THEN obj = None ELSE obj \in Policies /\ copy \in PolicyType
    /\ pc \in {"cordon", "annotate", "write"} <=> listed # None
    /\ listed # None =>
          DOMAIN listed \subseteq Workloads /\ listed \in [DOMAIN listed -> SpecType]
    /\ sick # None => sick \in [Nodes -> HealthType]
    /\ affected \subseteq Nodes
    /\ todo # {} => listed # None /\ todo \subseteq DOMAIN listed
    /\ affected # {} => pc = "cordon"
    /\ sent \subseteq {"start", "complete"}

\* No policy drops out of the schedule while it exists, disabled ones included.
AlwaysScheduled ==
    \A p \in Policies :
       stored[p] # None => p \in queue \cup delayed \/ obj = p \/ p \notin synced

\* A failover the status is about to record reached every workload the policy applies
\* to that was listed as it began and still exists: this very failover annotated it,
\* however many there were before, though each update may be refused half-way through,
\* other controllers keep writing, and workloads come and go.
FailoverTotal ==
    pc = "write" /\ copy.spec.strategy # "manual" =>
       \A w \in Targets(copy.spec) \cap DOMAIN listed :
          stored[w] # None => stored[w].mark \in {"now", "new"}

\* A failover works on lists that may be minutes old when the drain is over, and
\* rewrites whole workloads.  Still it undoes no write made since by a user or the other
\* controller: it only ever rewrites the version that is stored, in which it sets the
\* annotation, keeps the status and replaces the spec by what the API server makes of it
\* when it comes from a Go object.  (That is not the spec as the user wrote it: what the
\* user switched off is on again.)
RewritesStored ==
    [][\A w \in Workloads :
          pc = "annotate" /\ todo' # todo /\ stored'[w] # stored[w]
             => /\ stored[w] # None
                /\ stored'[w] = [stored[w] EXCEPT !.mark = "now",
                                                  !.spec = Defaulted(@)]]_vars

\* While a policy stays enabled with the immediate strategy, and a node stays Unhealthy
\* for longer than the trigger, the workloads the policy applies to are failed over, again
\* and again.  The RegionalWorkload controller writes their status all the while: once a
\* minute, so after the retries of a failover it got in the way of, and whenever a
\* failover has annotated them.  (A graceful failover cannot be held to this: it drains
\* for minutes, and is refused whatever was checked meanwhile.)
Armed(p) ==
    /\ stored[p] # None
    /\ stored[p].spec.enabled /\ stored[p].spec.strategy # "manual"
    /\ NodeTrigger(stored[p].spec, HealthList)
FailedOver(p) ==
    stored[p] # None
    /\ \A w \in Targets(stored[p].spec) : stored[w] # None => stored[w].mark = "now"
ChecksBetween ==
    \A w \in Workloads :
       CheckWorkload(w) => stored[w].mark = "now" \/ (pc = "idle" /\ queue = {})
EventuallyFailsOver ==
    \A p \in Policies :
       <>[](Armed(p) /\ stored[p].spec.strategy = "immediate") /\ <>[][ChecksBetween]_vars
          => []<>FailedOver(p)

----------------------------------------------------------------------------
(* What the comments of the repository promise and the code does not do.   *)

\* controllers/failoverpolicy_controller.go: "executeGracefulFailover performs
\* graceful failover with node draining".  With the permissions of
\* config/rbac/role.yaml no node can be cordoned, and it never gets further, even
\* when nothing else is in its way.
GracefulFailsOver ==
    \A p \in Policies :
       <>[](Armed(p) /\ stored[p].spec.strategy = "graceful")
         /\ <>[][\A w \in Workloads : ~CheckWorkload(w)]_vars
          => <>FailedOver(p)

\* api/v1alpha1/failoverpolicy_types.go: "WorkloadUnhealthyDuration is how long a
\* workload must be unhealthy before failover".  The handler measures the time since
\* the last check, and a workload that is checked more often than that may be
\* unhealthy for ever.
UnhealthyWorkloadFailsOver ==
    \A p \in Policies :
       <>[](/\ stored[p] # None
            /\ stored[p].spec.enabled /\ stored[p].spec.strategy = "immediate"
            /\ stored[p].spec.workload > 0
            /\ \E w \in Targets(stored[p].spec) : stored[w] # None /\ stored[w].unhealthy)
          => <>FailedOver(p)

=============================================================================
