--------------------------- MODULE RegionalWorkload ---------------------------
(***************************************************************************)
(* The RegionalWorkload controller (controllers/regionalworkload_          *)
(* controller.go).  A RegionalWorkload names a Deployment or StatefulSet,  *)
(* its target, and says where it should run.  A reconcile chooses a node   *)
(* among the healthy ones, pins the target to it, brings the workload's    *)
(* shared endpoint Services in line with the spec and reports all this in  *)
(* the workload's status.                                                  *)
(*                                                                         *)
(* Workloads, targets and Services live in the API server (stored); the    *)
(* handler reads all of them from informer caches (cache) that lag behind, *)
(* and an update is refused unless it is based on the current version.  As *)
(* versions are only compared for equality, two sets of keys stand for     *)
(* them: synced, where the cache is current, and fresh, where the worker's *)
(* copy is.  Nodes and verdicts have no cache of their own: they are only  *)
(* read, once, and a lagging cache shows what could be the case now.       *)
(* Only workloads are watched, so nothing but the 30s or 60s requeue       *)
(* (delayed) brings the handler back when anything else changes.           *)
(***************************************************************************)
EXTENDS PlacementScores, SharedEndpoints

CONSTANTS
    Workloads,   \* RegionalWorkload objects
    Targets,     \* Deployments and StatefulSets; both are handled alike
    NodeSet,     \* the nodes, records as PlacementScores describes
    Specs,       \* the specs users may write: [ref, constraint, endpoint]
    TargetStates,\* what others may make of a target:
                 \* [optOut, pin, ready, desired, ports]
    Others,      \* what others may put under the name of a Service, with or
                 \* without the label of the workload
    MaxChanges,  \* bound: changes of nodes and verdicts
    MaxTouches,  \* bound: changes of targets and Services by others
    MaxEdits,    \* bound: edits and deletions of workloads
    MaxFaults,   \* bound: failed calls and restarts
    MaxActs      \* bound: all of these together

NodeNames == {n.name : n \in NodeSet}
Slots == {"only"} \cup {Sanitized[n] : n \in EndpointNames}
ServiceKeys == Workloads \X Slots
Keys == Workloads \cup Targets \cup ServiceKeys

TargetType ==
    [optOut : BOOLEAN, pin : NodeNames \cup {None}, ready : Nat, desired : Nat,
     ports : Seq(PortType)]

ASSUME RegionalWorkloadAssumption ==
    /\ Workloads \cap Targets = {}
    /\ Workloads \cap ServiceKeys = {} /\ Targets \cap ServiceKeys = {}
    /\ None \notin Keys \cup NodeNames
    /\ None \notin TargetType \cup ServiceType
    /\ \A m, n \in NodeSet : m.name = n.name => m = n
    /\ \A s \in Specs : s.ref \in Targets \cup {"unset", "unsupported"}
                        /\ s.endpoint \in EndpointType
    /\ TargetStates \subseteq TargetType
    /\ Others \subseteq ServiceType
    /\ \A s \in Others : s.ip # "unset" /\ s.ports # {} /\ Admissible(s)
    /\ MaxChanges \in Nat /\ MaxTouches \in Nat /\ MaxEdits \in Nat /\ MaxFaults \in Nat
    /\ MaxActs \in Nat

NewStatus == [placement |-> None, health |-> "unset", configuration |-> "unset",
              placed |-> "unset", endpoint |-> "unset"]

VARIABLES
    nodes,      \* the nodes that exist
    verdicts,   \* verdicts[n]: what the NodeHealthStatus objects naming n say
    stored,     \* the API server: each key's object, None when there is none
    cache,      \* the informers' copies
    synced,     \* the keys of which the cache holds the current version
    queue,      \* workloads waiting for the worker
    delayed,    \* workloads to be requeued after 30s or 60s
    pc,         \* where the worker is in Reconcile
    obj,        \* the workload being reconciled
    copy,       \* the worker's copy of it
    fresh,      \* the keys of which the worker's copy is the current version
    candidates, \* the nodes listed, then those of them taken for healthy
    target,     \* the worker's copy of the target
    listed,     \* the worker's copies of the Services still to be looked at
    wanted,     \* the Services still to be created or compared
    changes, touches, edits, faults  \* how often the environment acted

outside == <<nodes, verdicts, changes, touches, edits, faults>>
server == <<stored, cache, synced>>
schedule == <<queue, delayed>>
plan == <<candidates, target, listed, wanted>>
vars == <<nodes, verdicts, stored, cache, synced, queue, delayed, pc, obj, copy,
          fresh, candidates, target, listed, wanted, changes, touches, edits, faults>>

\* The environment may act once more.
MayAct == changes + touches + edits + faults < MaxActs

Enabled(w) == Resolve(w.spec.endpoint).enabled

\* validateWorkload
Valid(w) ==
    /\ w.spec.ref # "unset"
    /\ Enabled(w) => Normalizable(Resolve(w.spec.endpoint))

\* filterHealthyNodes: a node without a NodeHealthStatus counts as healthy; when
\* several name it the one listed last decides, so the outcome may vary.
Filters(ns) ==
    LET sure == {n \in ns : verdicts[n.name] \subseteq {"Healthy"}}
        likely == {n \in ns : verdicts[n.name] = {} \/ "Healthy" \in verdicts[n.name]}
    IN  {ms \in SUBSET likely : sure \subseteq ms}

\* updateWorkloadHealth
HealthOf(t) ==
    CASE t.ready = t.desired /\ t.ready > 0 -> "Healthy"
      [] t.ready # t.desired /\ t.ready > 0 -> "Degraded"
      [] OTHER -> "Unhealthy"

\* Workload w with a condition set (updateCondition).
With(w, condition, answer) == [w EXCEPT !.status[condition] = answer]
UpdatePlacementStatus(w, n) == [With(w, "placed", "True") EXCEPT !.status.placement = n.name]

\* The Services the label selector of w finds in the cache.
Labelled(w) == {k \in ServiceKeys : k[1] = w /\ cache[k] # None /\ cache[k].owned}

----------------------------------------------------------------------------
Init ==
    /\ nodes \in SUBSET NodeSet
    /\ verdicts = [n \in NodeNames |-> {}]
    /\ \E workload \in [Workloads -> [spec : Specs, status : {NewStatus}]],
          other \in [Targets -> TargetStates \cup {None}] :
          stored = [x \in Keys |-> IF x \in Workloads THEN workload[x]
                                   ELSE IF x \in Targets THEN other[x] ELSE None]
    /\ cache = stored /\ synced = Keys
    /\ queue = Workloads /\ delayed = {}
    /\ pc = "idle" /\ obj = None /\ copy = None /\ fresh = {}
    /\ candidates = {} /\ target = None /\ listed = << >> /\ wanted = << >>
    /\ changes = 0 /\ touches = 0 /\ edits = 0 /\ faults = 0

\* The reconcile ends; the worker keeps nothing.
Release ==
    /\ pc' = "idle" /\ obj' = None /\ copy' = None /\ fresh' = {}
    /\ candidates' = {} /\ target' = None /\ listed' = << >> /\ wanted' = << >>

\* Reconcile returns an error: the queue retries the workload.
Retry == queue' = queue \cup {obj} /\ UNCHANGED delayed /\ Release
\* Reconcile returns neither an error nor a requeue.
Done == UNCHANGED schedule /\ Release
\* Reconcile returns RequeueAfter.
Later == delayed' = delayed \cup {obj} /\ UNCHANGED queue /\ Release

\* The API server stores value under key, as a new version: neither the cache
\* nor the worker has it.
Store(key, value) ==
    /\ stored' = [stored EXCEPT ![key] = value]
    /\ synced' = synced \ {key}
    /\ UNCHANGED cache

\* An update that changes nothing makes no new version.
Update(key, value) == IF value = stored[key] THEN UNCHANGED server ELSE Store(key, value)

\* The worker takes w from the queue, reads it from the cache and validates it.
Fetch(w) ==
    /\ pc = "idle"
    /\ w \in queue
    /\ queue' = queue \ {w}
    /\ \/ /\ cache[w] = None
          /\ UNCHANGED <<pc, obj, copy, fresh>>
       \/ /\ cache[w] # None
          /\ obj' = w
          /\ fresh' = synced \cap {w}
          /\ \/ /\ Valid(cache[w])
                /\ pc' = "list"
                /\ copy' = With(cache[w], "configuration", "True")
             \/ /\ ~Valid(cache[w])
                /\ pc' = "reject"
                /\ copy' = With(With(cache[w], "configuration", "False"), "endpoint", "False")
    /\ UNCHANGED <<outside, server, delayed, plan>>

ListNodes ==
    /\ pc = "list"
    /\ candidates' = nodes
    /\ pc' = "select"
    /\ UNCHANGED <<outside, server, schedule, obj, copy, fresh, target, listed, wanted>>

\* Mutant: the error of SelectNode is not returned.
SelectionErrorIgnored ==
    /\ pc = "select"
    /\ candidates' \in Filters(candidates)
    /\ LET best == Best(MainWeights, candidates', copy.spec.constraint)
       IN  \/ /\ best = {}
              /\ pc' = "apply"
              /\ UNCHANGED copy
           \/ \E n \in best :
                 /\ pc' = "apply"
                 /\ copy' = UpdatePlacementStatus(copy, n)
    /\ UNCHANGED <<outside, server, schedule, obj, fresh, target, listed, wanted>>

\* It lists the NodeHealthStatus objects, filters the nodes and has the engine
\* select one of the best.
SelectNode ==
    /\ pc = "select"
    /\ candidates' \in Filters(candidates)
    /\ LET best == Best(MainWeights, candidates', copy.spec.constraint)
       IN  \/ /\ best = {}
              /\ pc' = "unplaced"
              /\ copy' = With(copy, "placed", "False")
           \/ \E n \in best :
                 /\ pc' = "apply"
                 /\ copy' = UpdatePlacementStatus(copy, n)
    /\ UNCHANGED <<outside, server, schedule, obj, fresh, target, listed, wanted>>

\* The pin a target should have: none when its annotation opts out.
Pin(t) == IF t.optOut THEN None ELSE copy.status.placement

\* applyPlacement reads the target.  One it cannot find, or of an unsupported
\* kind, ends the reconcile with an error and without a status write.
GetTarget ==
    /\ pc = "apply"
    /\ LET ref == copy.spec.ref
           found == ref # "unsupported" /\ cache[ref] # None
       IN  \/ ~found /\ Retry
           \/ /\ found
              /\ target' = cache[ref]
              /\ fresh' = fresh \cup (synced \cap {ref})
              /\ pc' = IF cache[ref].pin = Pin(cache[ref]) THEN "services" ELSE "update"
              /\ UNCHANGED <<schedule, obj, copy, candidates, listed, wanted>>
    /\ UNCHANGED <<outside, server>>

\* Mutant: the pin is patched, whatever version the copy was made from.
PatchTarget ==
    /\ pc = "update"
    /\ stored[copy.spec.ref] # None
    /\ Store(copy.spec.ref, [stored[copy.spec.ref] EXCEPT !.pin = Pin(target)])
    /\ pc' = "services"
    /\ UNCHANGED <<outside, schedule, obj, copy, fresh, plan>>

\* The update of the target: refused when the copy of it is outdated.
UpdateTarget ==
    /\ pc = "update"
    /\ \/ /\ copy.spec.ref \in fresh
          /\ Store(copy.spec.ref, [target EXCEPT !.pin = Pin(target)])
          /\ pc' = "services"
          /\ UNCHANGED <<schedule, obj, copy, fresh, plan>>
       \/ /\ copy.spec.ref \notin fresh
          /\ Retry
          /\ UNCHANGED server
    /\ UNCHANGED outside

\* A failure of the shared endpoint is reported in the status.
EndpointFails ==
    /\ pc' = "failed"
    /\ copy' = With(copy, "endpoint", "False")
    /\ UNCHANGED <<schedule, obj, fresh, candidates, target, listed, wanted>>

ListServices ==
    /\ listed' = [k \in Labelled(obj) |-> cache[k]]
    /\ fresh' = fresh \cup (synced \cap Labelled(obj))
    /\ pc' = "sync"
    /\ UNCHANGED <<schedule, obj, copy, candidates, target>>

\* reconcileSharedEndpoint up to the first call that changes something.  Of a disabled
\* endpoint all Services are to be deleted.  For an enabled one the target is read
\* again, for the ports.
DisableEndpoint ==
    /\ pc = "services"
    /\ ~Enabled(copy)
    /\ wanted' = << >>
    /\ ListServices
    /\ UNCHANGED <<outside, server>>

BuildServices ==
    /\ pc = "services"
    /\ Enabled(copy)
    /\ LET cfg == Resolve(copy.spec.endpoint)
           t == cache[copy.spec.ref]
           possible == cfg.mode = "kube-vip" /\ t # None
       IN  \/ ~possible /\ EndpointFails
           \/ possible /\ wanted' = Services(obj, cfg, t.ports) /\ ListServices
    /\ UNCHANGED <<outside, server>>

Without(f, k) == [x \in DOMAIN f \ {k} |-> f[x]]

\* Mutant: all Services are deleted, to be created anew.
DeleteAll(k) ==
    /\ pc = "sync"
    /\ k \in DOMAIN listed
    /\ IF stored[k] = None THEN UNCHANGED server ELSE Store(k, None)
    /\ listed' = Without(listed, k)
    /\ UNCHANGED <<outside, schedule, pc, obj, copy, fresh, candidates, target, wanted>>

\* Mutant: only the addresses are compared.
UpdateAddress(k) ==
    /\ pc = "sync"
    /\ k \in DOMAIN listed \cap DOMAIN wanted
    /\ \/ listed[k].ip # wanted[k].ip /\ k \notin fresh /\ EndpointFails /\ UNCHANGED server
       \/ /\ \/ listed[k].ip # wanted[k].ip /\ k \in fresh /\ Update(k, wanted[k])
             \/ listed[k].ip = wanted[k].ip /\ UNCHANGED server
          /\ listed' = Without(listed, k)
          /\ wanted' = Without(wanted, k)
          /\ UNCHANGED <<schedule, pc, obj, copy, fresh, candidates, target>>
    /\ UNCHANGED outside

\* syncSharedEndpointServices, first loop: a listed Service is deleted when it is
\* not wanted (one that is gone already is fine; the delete names no version and no
\* UID, so whatever is under the name now goes) and else compared with what is wanted.
\* One that looks equal may be written all the same, for the selector, the order of the
\* ports or the node ports the server added.
DeleteService(k) ==
    /\ pc = "sync"
    /\ k \in DOMAIN listed \ DOMAIN wanted
    /\ IF stored[k] = None THEN UNCHANGED server ELSE Store(k, None)
    /\ listed' = Without(listed, k)
    /\ UNCHANGED <<outside, schedule, pc, obj, copy, fresh, candidates, target, wanted>>

UpdateService(k) ==
    /\ pc = "sync"
    /\ k \in DOMAIN listed \cap DOMAIN wanted
    /\ LET accepted == k \in fresh /\ Admissible(wanted[k])
       IN  \/ ~accepted /\ EndpointFails /\ UNCHANGED server
           \/ /\ \/ accepted /\ Update(k, wanted[k])
                 \/ listed[k] = wanted[k] /\ UNCHANGED server
              /\ listed' = Without(listed, k)
              /\ wanted' = Without(wanted, k)
              /\ UNCHANGED <<schedule, pc, obj, copy, fresh, candidates, target>>
    /\ UNCHANGED outside

\* Second loop: create the rest.  An AlreadyExists error is ignored.
CreateService(k) ==
    /\ pc = "sync"
    /\ listed = << >>
    /\ k \in DOMAIN wanted
    /\ \/ /\ ~Admissible(wanted[k])
          /\ EndpointFails /\ UNCHANGED server
       \/ /\ Admissible(wanted[k])
          /\ IF stored[k] = None THEN Store(k, wanted[k]) ELSE UNCHANGED server
          /\ wanted' = Without(wanted, k)
          /\ UNCHANGED <<schedule, pc, obj, copy, fresh, candidates, target, listed>>
    /\ UNCHANGED outside

\* All Services are done: EndpointReady, then the health of the target, which
\* stays as it was when the target cannot be read.
UpdateWorkloadHealth ==
    /\ pc = "sync"
    /\ listed = << >> /\ wanted = << >>
    /\ LET t == cache[copy.spec.ref]
       IN  copy' = [copy EXCEPT
                      !.status.endpoint = IF Enabled(copy) THEN "True" ELSE "False",
                      !.status.health = IF t = None THEN @ ELSE HealthOf(t)]
    /\ pc' = "write"
    /\ UNCHANGED <<outside, server, schedule, obj, fresh, plan>>

----------------------------------------------------------------------------
(* The four status writes: of a rejected spec, of a failed placement, of a *)
(* failed endpoint and at the end.                                         *)

Writing == pc \in {"reject", "unplaced", "failed", "write"}

\* The API server refuses an outdated copy, and one without a health status:
\* the schema requires it and does not allow an empty one.
Acceptable == obj \in fresh /\ copy.status.health # "unset"

AfterError == IF pc = "unplaced" THEN Later ELSE Retry

\* The times in the status make a write a new version even when the rest of the
\* status is as before, except within one second.
WriteStatus ==
    /\ Writing
    /\ Acceptable
    /\ Store(obj, copy) \/ (copy = stored[obj] /\ UNCHANGED server)
    /\ IF pc = "reject" THEN Done ELSE Later
    /\ UNCHANGED outside

WriteRefused ==
    /\ Writing
    /\ ~Acceptable
    /\ AfterError
    /\ UNCHANGED <<outside, server>>

\* A call fails, before or after it took effect.
Fault ==
    /\ MayAct /\ faults < MaxFaults
    /\ faults' = faults + 1
    /\ UNCHANGED <<nodes, verdicts, changes, touches, edits>>

WriteFails ==
    /\ Writing
    /\ Fault
    /\ UNCHANGED server \/ (Acceptable /\ Store(obj, copy))
    /\ AfterError

ListFails ==
    /\ pc \in {"list", "select", "apply"}
    /\ Fault
    /\ Retry
    /\ UNCHANGED server

UpdateFails ==
    /\ pc = "update"
    /\ Fault
    /\ \/ UNCHANGED server
       \/ /\ copy.spec.ref \in fresh
          /\ Store(copy.spec.ref, [target EXCEPT !.pin = Pin(target)])
    /\ Retry

\* The list or one of the calls of the loops failed, having taken effect or not.
SyncFails ==
    /\ pc \in {"services", "sync"}
    /\ Fault
    /\ EndpointFails
    /\ UNCHANGED server

----------------------------------------------------------------------------
(* Controller-runtime: informers, delayed requeues, restarts of the manager. *)

\* Only workloads are watched: their events enqueue them.
Deliver(x) ==
    /\ x \notin synced
    /\ cache' = [cache EXCEPT ![x] = stored[x]]
    /\ synced' = synced \cup {x}
    /\ queue' = queue \cup ({x} \cap Workloads)
    /\ UNCHANGED <<outside, stored, delayed, pc, obj, copy, fresh, plan>>

TimerFires(w) ==
    /\ w \in delayed
    /\ delayed' = delayed \ {w}
    /\ queue' = queue \cup {w}
    /\ UNCHANGED <<outside, server, pc, obj, copy, fresh, plan>>

Restart ==
    /\ Fault
    /\ cache' = stored
    /\ synced' = Keys
    /\ queue' = {w \in Workloads : stored[w] # None}
    /\ delayed' = {}
    /\ Release
    /\ UNCHANGED stored

----------------------------------------------------------------------------
(* Everyone else. *)

Change ==
    /\ MayAct /\ changes < MaxChanges
    /\ changes' = changes + 1
    /\ UNCHANGED <<touches, edits, faults, server, schedule, pc, obj, copy, fresh, plan>>

NodeChanges(n) ==
    /\ Change
    /\ nodes' = IF n \in nodes THEN nodes \ {n} ELSE nodes \cup {n}
    /\ UNCHANGED verdicts

VerdictChanges(n) ==
    /\ Change
    /\ \E v \in SUBSET {"Healthy", "Unhealthy"} : verdicts' = [verdicts EXCEPT ![n] = v]
    /\ UNCHANGED nodes

\* Someone else writes under key: the worker's copy is outdated.
Touch(key, value) ==
    /\ MayAct /\ touches < MaxTouches
    /\ touches' = touches + 1
    /\ Store(key, value)
    /\ fresh' = fresh \ {key}
    /\ UNCHANGED <<nodes, verdicts, changes, edits, faults, schedule, pc, obj, copy, plan>>

\* Users or other controllers change, create or delete a target.
TargetChanges(t) ==
    \E s \in (TargetStates \cup {None}) \ {stored[t]} : Touch(t, s)

\* Users or other controllers delete a Service, put one under a name the controller
\* uses, in place of one that was there too, or change its labels or addresses.
ServiceChanges(k) ==
    \E s \in (Others \cup {None}) \ {stored[k]} : Touch(k, s)

\* A user edits a workload, or only touches it as a failover does, or deletes it.
EditSpec(w) ==
    /\ MayAct /\ edits < MaxEdits
    /\ edits' = edits + 1
    /\ stored[w] # None
    /\ \/ \E s \in Specs : Store(w, [stored[w] EXCEPT !.spec = s])
       \/ Store(w, None)
    /\ fresh' = fresh \ {w}
    /\ UNCHANGED <<nodes, verdicts, changes, touches, faults, schedule, pc, obj, copy,
                   plan>>

\* The garbage collector deletes the Services whose owner is gone.
Collect(k) ==
    /\ stored[k] # None /\ stored[k].owned
    /\ stored[k[1]] = None
    /\ Store(k, None)
    /\ fresh' = fresh \ {k}
    /\ UNCHANGED <<outside, schedule, pc, obj, copy, plan>>

SyncService(k) == DeleteService(k) \/ UpdateService(k) \/ CreateService(k)

Reconcile ==
    \/ ListNodes \/ SelectNode
    \/ GetTarget \/ UpdateTarget
    \/ DisableEndpoint \/ BuildServices
    \/ \E k \in ServiceKeys : SyncService(k)
    \/ UpdateWorkloadHealth
    \/ WriteStatus \/ WriteRefused \/ WriteFails
    \/ ListFails \/ UpdateFails \/ SyncFails

Next ==
    \/ \E w \in Workloads : Fetch(w) \/ TimerFires(w) \/ EditSpec(w)
    \/ Reconcile
    \/ \E x \in Keys : Deliver(x)
    \/ Restart
    \/ \E n \in NodeSet : NodeChanges(n)
    \/ \E n \in NodeNames : VerdictChanges(n)
    \/ \E t \in Targets : TargetChanges(t)
    \/ \E k \in ServiceKeys : ServiceChanges(k) \/ Collect(k)

Spec == Init /\ [][Next]_vars

\* The worker keeps running and the queue serves its workloads in turn, the
\* watches deliver, delayed requeues come due, garbage is collected.
Fairness ==
    /\ WF_vars(Reconcile)
    /\ \A w \in Workloads : SF_vars(Fetch(w)) /\ WF_vars(TimerFires(w))
    /\ \A x \in Keys : WF_vars(Deliver(x))
    /\ \A k \in ServiceKeys : WF_vars(Collect(k))

FairSpec == Spec /\ Fairness

----------------------------------------------------------------------------
(* Correctness. *)

Answers == {"unset", "True", "False"}
StatusType ==
    [placement : NodeNames \cup {None},
     health : {"unset", "Healthy", "Degraded", "Unhealthy"},
     configuration : Answers, placed : Answers, endpoint : Answers]
WorkloadType == [spec : Specs, status : StatusType]
ObjectsOK(objects) ==
    /\ DOMAIN objects = Keys
    /\ \A w \in Workloads : objects[w] \in WorkloadType \cup {None}
    /\ \A t \in Targets : objects[t] \in TargetType \cup {None}
    /\ \A k \in ServiceKeys :
          objects[k] # None =>
             objects[k].ip # "unset" /\ objects[k].ports # {} /\ Admissible(objects[k])

\* The variables keep their types, and what the worker holds goes with where it
\* is in Reconcile.
TypeOK ==
    /\ nodes \subseteq NodeSet
    /\ verdicts \in [NodeNames -> SUBSET {"Healthy", "Unhealthy"}]
    /\ ObjectsOK(stored) /\ ObjectsOK(cache)
    /\ synced \subseteq Keys /\ fresh \subseteq Keys
    /\ queue \subseteq Workloads /\ delayed \subseteq Workloads
    /\ pc \in {"idle", "list", "select", "apply", "update", "services", "sync",
               "reject", "unplaced", "failed", "write"}
    /\ IF pc = "idle" THEN obj = None ELSE obj \in Workloads /\ copy \in WorkloadType
    /\ candidates \subseteq NodeSet
    /\ pc \in {"apply", "update", "services", "sync", "failed", "write"}
          => copy.status.placement # None /\ copy.spec.ref # "unset"
    /\ pc = "update" => target \in TargetType
    /\ DOMAIN listed \cup DOMAIN wanted \subseteq {obj} \X Slots

\* No workload drops out of the schedule while its spec is valid: it is queued, to
\* be requeued, being reconciled or about to be delivered by the watch.  Nodes,
\* verdicts and targets are not watched, so a lost requeue would leave it pinned to
\* a dead node.
AlwaysScheduled ==
    \A w \in Workloads :
       stored[w] # None /\ Valid(stored[w]) =>
          w \in queue \cup delayed \/ obj = w \/ w \notin synced

\* The controller changes nothing of a target but the pin, and never gives a pin
\* to a target whose annotation opts out at that moment, even when the worker's
\* copy was made before the annotation, or from a cache that had not seen it.
OnlyPinsChange ==
    [][\A t \in Targets : stored'[t] # stored[t] /\ touches' = touches =>
          /\ stored[t] # None
          /\ stored'[t] = [stored[t] EXCEPT !.pin = stored'[t].pin]
          /\ stored[t].optOut => stored'[t].pin = None]_vars

\* A failover keeps the endpoint: wherever the workload moves, whatever ports its
\* target has and however outdated the worker's list of Services is, the controller
\* disturbs a Service of an existing workload only as the spec asks that the reconcile
\* began from (which an edit may have replaced since).  One whose name that spec asks
\* for stays, is not somebody else's, and keeps its address if it is the right one; one
\* whose name it does not ask for can only be deleted.
Asked(x) == IF Valid(x) /\ Enabled(x) THEN Addresses(obj, Resolve(x.spec.endpoint)) ELSE << >>
EndpointKept ==
    [][\A k \in ServiceKeys :
          stored[k] # None /\ stored'[k] # stored[k] /\ touches' = touches
          /\ stored[k[1]] # None =>
             /\ obj = k[1]
             /\ IF k \in DOMAIN Asked(copy)
                  THEN /\ stored[k].owned /\ stored'[k] # None
                       /\ stored[k].ip = Asked(copy)[k] => stored'[k].ip = stored[k].ip
                  ELSE stored'[k] = None]_vars

\* When the nodes, the verdicts and the spec come to rest with one node n that is
\* best, and the target exists and has not opted out, the target is eventually
\* pinned to n for good, and the status eventually says so if the API server can take
\* it: the first one of a workload must come with a health, which the handler finds out
\* only after the Services, and their ports may be refused.  The node may have failed
\* without any event the controller watches.  A workload whose autoFailback is off is
\* only held to this while no other node is healthy (the code does not read the field
\* and moves it to the best node too).
OneBest(w, n) ==
    /\ stored[w] # None /\ Valid(stored[w])
    /\ stored[w].spec.ref \in Targets
    /\ Enabled(stored[w]) => Resolve(stored[w].spec.endpoint).mode = "kube-vip"
    /\ stored[stored[w].spec.ref] # None
    /\ ~stored[stored[w].spec.ref].optOut
    /\ \A healthy \in Filters(nodes) :
          Best(MainWeights, healthy, stored[w].spec.constraint) = {n}
MayMoveTo(w, n) ==
    \/ Resolve(stored[w].spec.endpoint).autoFailback
    \/ \A healthy \in Filters(nodes) : healthy = {n}
Due(w) ==
    IF Enabled(stored[w])
      THEN Services(w, Resolve(stored[w].spec.endpoint), stored[stored[w].spec.ref].ports)
      ELSE << >>
Reportable(w) ==
    /\ stored[w] # None /\ stored[stored[w].spec.ref] # None
    /\ \/ stored[w].status.health # "unset"
       \/ \A k \in DOMAIN Due(w) : Admissible(Due(w)[k])
Pinned(w, n) ==
    stored[w] # None /\ stored[stored[w].spec.ref] # None
    /\ stored[stored[w].spec.ref].pin = n.name
Reported(w, n) ==
    stored[w] # None
    /\ stored[w].status.placement = n.name /\ stored[w].status.placed = "True"
EventuallyPlaced ==
    \A w \in Workloads, n \in NodeSet :
       <>[](OneBest(w, n) /\ MayMoveTo(w, n)) =>
          /\ <>[]Pinned(w, n)
          /\ <>[]Reportable(w) => <>[]Reported(w, n)

\* When the spec comes to rest, the target exists with ports a Service may have and
\* some node can be chosen, the Services labelled with the workload are eventually
\* exactly those the spec asks for, with the ports the target has by then (none when
\* the endpoint is disabled), from whatever Services there were.
Servable(w) ==
    /\ \E n \in NodeSet : OneBest(w, n)
    /\ \A k \in DOMAIN Due(w) :
          /\ Admissible(Due(w)[k])
          /\ stored[k] # None => stored[k].owned
Served(w) ==
    stored[w] # None /\ stored[stored[w].spec.ref] # None =>
       \A s \in Slots :
          LET k == <<w, s>>
          IN  IF k \in DOMAIN Due(w) THEN stored[k] = Due(w)[k]
                                     ELSE stored[k] = None \/ ~stored[k].owned
EventuallyServed == \A w \in Workloads : <>[]Servable(w) => <>[]Served(w)

=============================================================================
