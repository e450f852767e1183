------------------------------ MODULE NodeHealth ------------------------------
(***************************************************************************)
(* The NodeHealthStatus controller (controllers/nodehealthstatus_          *)
(* controller.go) together with the checkers and the registry it calls     *)
(* (pkg/health).  A NodeHealthStatus object names a node; one worker takes *)
(* objects from a work queue, reads the object and its node, runs the      *)
(* three checkers one after the other, folds their results into a new      *)
(* status and writes that status back.                                     *)
(*                                                                         *)
(* What surrounds the handler is modelled too, because the handler is      *)
(* correct only with it: the informer cache that lags behind the API       *)
(* server, the resourceVersion check that refuses a write made from an     *)
(* outdated copy, the work queue with its delayed entries, writes whose    *)
(* answer is lost, and restarts of the manager.                            *)
(*                                                                         *)
(* A resourceVersion is only ever compared for equality, so one bit stands *)
(* for it: o \in synced says that the cache holds the current version of o, *)
(* obj \in fresh that the worker's copy is the current version of obj.     *)
(***************************************************************************)
EXTENDS Integers, Sequences

CONSTANTS
    Objects,        \* NodeHealthStatus objects
    Nodes,          \* node names a spec.nodeName may hold
    Facts,          \* the Node objects the environment may produce
    Regions,        \* values of the region label
    None,           \* an absent node, label or copy
    Threshold,      \* percentage passed to the resource checker
    Intervals,      \* values of spec.checkInterval, in ticks (0 when it is unset)
    DefaultInterval,\* the 30s used for a missing node and an unset interval
    MaxFailures,    \* bound: ConsecutiveFailures saturates here
    MaxAge,         \* bound: the age of LastTransitionTime saturates here
    MaxChanges,     \* bound: changes of nodes and links
    MaxEdits,       \* bound: edits of the specs by users
    MaxFaults       \* bound: failed or unanswered writes, and restarts

Statuses == {"Healthy", "Degraded", "Unhealthy", "Unknown"}
Resources == {"cpu", "memory", "storage"}

\* What the checkers look at in a Node object.  free[r] is the allocatable
\* share of the capacity of r in percent, None when there is no capacity.
FactsType ==
    [ready : {"True", "False", "Missing"},  \* the Ready condition
     pressure : BOOLEAN,                    \* a pressure or network condition
     heartbeat : {"recent", "stale"},       \* age of the Ready heartbeat
     address : BOOLEAN,                     \* has an InternalIP
     free : [Resources -> (0 .. 100) \cup {None}],
     region : Regions \cup {None}]          \* the region label

ASSUME NodeHealthAssumption ==
    /\ None \notin Objects /\ None \notin Nodes /\ None \notin Facts
    /\ None \notin Regions /\ None \notin 0 .. 100
    /\ Facts \subseteq FactsType
    /\ Threshold \in 0 .. 100
    /\ Intervals \subseteq Int
    /\ DefaultInterval \in Nat \ {0}
    /\ MaxFailures \in Nat \ {0}
    /\ MaxAge \in Nat \ {0}
    /\ MaxChanges \in Nat
    /\ MaxEdits \in Nat
    /\ MaxFaults \in Nat

\* The order in which main.go registers the checkers, which is the order in
\* which the registry runs them.
Checkers == <<"kubelet", "resource", "network">>

\* The status subresource.  Until the first status write overall is "unset", for
\* the empty string of the code.
StatusType ==
    [overall : Statuses \cup {"unset"},
     checks : Seq(Statuses),             \* one result per checker, in order
     failures : 0 .. MaxFailures,        \* ConsecutiveFailures
     age : 0 .. MaxAge,                  \* time since LastTransitionTime
     region : Regions \cup {None},
     healthy : {"True", "False", "Unknown", "unset"}]   \* the Healthy condition

\* An object: spec.nodeName, spec.checkInterval (a duration nobody validates: it may
\* be negative) and the status.
ObjectType == [node : Nodes, interval : Intervals, status : StatusType]

ASSUME NoObjectIsNone == None \notin ObjectType

VARIABLES
    node,     \* node[n]: the Node object n, None when it does not exist
    link,     \* link[n]: how the kubelet port of n answers a dial
    stored,   \* stored[o]: the object in the API server
    cache,    \* cache[o]: the informer's copy
    synced,   \* the objects of which the informer has the current version
    queue,    \* objects waiting for the worker
    timer,    \* timer[o]: ticks until a delayed requeue of o, 0 when none
    pc,       \* where the worker is in Reconcile
    obj,      \* the object being reconciled
    copy,     \* the worker's copy of it
    fresh,    \* {obj} when the copy is the current version, else {}
    seen,     \* the worker's copy of the node
    dialed,   \* how the port answered the network checker, None before
    results,  \* what the checkers returned so far
    changes, edits, faults   \* how often the environment acted

environment == <<node, link, changes, edits, faults>>
server == <<stored, cache, synced>>
worker == <<pc, obj, copy, fresh, seen, dialed, results>>
vars == <<node, link, stored, cache, synced, queue, timer,
          pc, obj, copy, fresh, seen, dialed, results, changes, edits, faults>>

UpTo(n, bound) == IF n < bound THEN n + 1 ELSE bound

----------------------------------------------------------------------------
(* The checkers and the registry. *)

\* kubelet: the Ready condition, then pressure, then the heartbeat.
KubeletCheck(n) ==
    CASE n.ready = "Missing" -> "Unknown"
      [] n.ready = "False" -> "Unhealthy"
      [] n.ready = "True" /\ (n.pressure \/ n.heartbeat = "stale") -> "Degraded"
      [] OTHER -> "Healthy"

\* network: dials the kubelet port; latency above 200ms is degraded.
NetworkCheck(n, answer) ==
    CASE ~n.address -> "Unknown"
      [] n.address /\ answer = "refused" -> "Unhealthy"
      [] n.address /\ answer = "slow" -> "Degraded"
      [] OTHER -> "Healthy"

\* Mutant: the level between healthy and critical is forgotten.
CheckResourceCoarse(free) ==
    CASE free = None -> "Unknown"
      [] free # None /\ free < 100 - Threshold -> "Unhealthy"
      [] OTHER -> "Healthy"

\* resource: one resource against (100 - threshold) and (100 - 0.7 threshold).
CheckResource(free) ==
    CASE free = None -> "Unknown"
      [] free # None /\ free < 100 - Threshold -> "Unhealthy"
      [] free # None /\ free >= 100 - Threshold
                     /\ 10 * free < 1000 - 7 * Threshold -> "Degraded"
      [] OTHER -> "Healthy"

\* resource: an unknown resource does not make the result unknown.
ResourceCheck(n) ==
    LET found == {CheckResource(n.free[r]) : r \in Resources}
    IN  CASE "Unhealthy" \in found -> "Unhealthy"
          [] "Unhealthy" \notin found /\ "Degraded" \in found -> "Degraded"
          [] OTHER -> "Healthy"

Check(checker, n, answer) ==
    CASE checker = "kubelet" -> KubeletCheck(n)
      [] checker = "resource" -> ResourceCheck(n)
      [] checker = "network" -> NetworkCheck(n, answer)

Found(rs) == {rs[i] : i \in DOMAIN rs}

\* Mutant: an unknown check hides a degraded one.
UnknownFirst(rs) ==
    CASE rs = << >> -> "Unknown"
      [] rs # << >> /\ "Unhealthy" \in Found(rs) -> "Unhealthy"
      [] rs # << >> /\ "Unhealthy" \notin Found(rs)
                    /\ "Unknown" \in Found(rs) -> "Unknown"
      [] rs # << >> /\ {"Unhealthy", "Unknown"} \cap Found(rs) = {}
                    /\ "Degraded" \in Found(rs) -> "Degraded"
      [] OTHER -> "Healthy"

\* The worst status wins; unknown is worse than healthy only.
GetOverallStatus(rs) ==
    CASE rs = << >> -> "Unknown"
      [] rs # << >> /\ "Unhealthy" \in Found(rs) -> "Unhealthy"
      [] rs # << >> /\ "Unhealthy" \notin Found(rs)
                    /\ "Degraded" \in Found(rs) -> "Degraded"
      [] rs # << >> /\ {"Unhealthy", "Degraded"} \cap Found(rs) = {}
                    /\ "Unknown" \in Found(rs) -> "Unknown"
      [] OTHER -> "Healthy"

ConditionOf(overall) ==
    CASE overall = "Healthy" -> "True"
      [] overall = "Unknown" -> "Unknown"
      [] OTHER -> "False"

\* Mutant: every check restarts LastTransitionTime.
AlwaysTransition(s, n, rs) ==
    LET overall == GetOverallStatus(rs)
    IN  [overall  |-> overall,
         checks   |-> rs,
         failures |-> IF overall = "Unhealthy"
                        THEN UpTo(s.failures, MaxFailures) ELSE 0,
         age      |-> 0,
         region   |-> IF n.region = None THEN s.region ELSE n.region,
         healthy  |-> ConditionOf(overall)]

\* updateStatus: the new status from the old one, the node and the results.
UpdatedStatus(s, n, rs) ==
    LET overall == GetOverallStatus(rs)
    IN  [overall  |-> overall,
         checks   |-> rs,
         failures |-> IF overall = "Unhealthy"
                        THEN UpTo(s.failures, MaxFailures) ELSE 0,
         age      |-> IF overall # s.overall THEN 0 ELSE s.age,
         region   |-> IF n.region = None THEN s.region ELSE n.region,
         healthy  |-> ConditionOf(overall)]

NewStatus == [overall |-> "unset", checks |-> << >>, failures |-> 0,
              age |-> MaxAge, region |-> None, healthy |-> "unset"]

----------------------------------------------------------------------------
Init ==
    /\ node \in [Nodes -> Facts]
    /\ link = [n \in Nodes |-> "fast"]
    /\ stored \in [Objects -> [node : Nodes, interval : Intervals, status : {NewStatus}]]
    /\ cache = stored
    /\ synced = Objects
    /\ queue = Objects
    /\ timer = [o \in Objects |-> 0]
    /\ pc = "idle" /\ obj = None /\ copy = None /\ fresh = {}
    /\ seen = None /\ dialed = None /\ results = << >>
    /\ changes = 0 /\ edits = 0 /\ faults = 0

\* Done with the object: the worker keeps nothing between two reconciles.
Release ==
    /\ pc' = "idle" /\ obj' = None /\ copy' = None /\ fresh' = {}
    /\ seen' = None /\ dialed' = None /\ results' = << >>

\* A result with a positive RequeueAfter is queued again after that time, and
\* AddAfter keeps the earlier of two delayed requeues of an object; a result with a
\* negative one is done with, without any requeue.
RequeueAfter(o, delay) ==
    timer' = IF delay <= 0 THEN timer
             ELSE [timer EXCEPT ![o] = IF @ = 0 \/ @ > delay THEN delay ELSE @]

\* Only an interval of zero is replaced by the default.
RequeueInterval(x) == IF x.interval = 0 THEN DefaultInterval ELSE x.interval

\* The worker takes o from the queue and reads it from the cache.
Fetch(o) ==
    /\ pc = "idle"
    /\ o \in queue
    /\ queue' = queue \ {o}
    /\ pc' = "node"
    /\ obj' = o
    /\ copy' = cache[o]
    /\ fresh' = synced \cap {o}
    /\ UNCHANGED <<environment, server, timer, seen, dialed, results>>

\* Mutants: a missing node is not noticed; it is, but nothing is requeued.
NodeNotFoundIgnored ==
    /\ pc = "node"
    /\ pc' = "check"
    /\ seen' = node[copy.node]
    /\ UNCHANGED <<timer, obj, copy, fresh, dialed, results>>
    /\ UNCHANGED <<environment, server, queue>>
NodeNotFoundDropped ==
    /\ pc = "node"
    /\ \/ /\ node[copy.node] # None
          /\ pc' = "check"
          /\ seen' = node[copy.node]
          /\ UNCHANGED <<timer, obj, copy, fresh, dialed, results>>
       \/ /\ node[copy.node] = None
          /\ UNCHANGED timer
          /\ Release
    /\ UNCHANGED <<environment, server, queue>>

\* It reads the node.  A missing node leaves the status as it is.
GetNode ==
    /\ pc = "node"
    /\ \/ /\ node[copy.node] # None
          /\ pc' = "check"
          /\ seen' = node[copy.node]
          /\ UNCHANGED <<timer, obj, copy, fresh, dialed, results>>
       \/ /\ node[copy.node] = None
          /\ RequeueAfter(obj, DefaultInterval)
          /\ Release
    /\ UNCHANGED <<environment, server, queue>>

\* Reading the object or its node fails with an error that is not NotFound: the error
\* makes the queue retry the object.
GetFails ==
    /\ pc = "node"
    /\ faults < MaxFaults
    /\ faults' = faults + 1
    /\ queue' = queue \cup {obj}
    /\ Release
    /\ UNCHANGED <<node, link, changes, edits, server, timer>>

\* The registry runs the next checker.  The node was read before, the dial of
\* the network checker is done now.
RunChecker ==
    /\ pc = "check"
    /\ Len(results) < Len(Checkers)
    /\ results' = Append(results, Check(Checkers[Len(results) + 1], seen,
                                        link[copy.node]))
    /\ dialed' = IF Checkers[Len(results) + 1] = "network" /\ seen.address
                   THEN link[copy.node] ELSE dialed
    /\ UNCHANGED <<environment, server, queue, timer, pc, obj, copy, fresh, seen>>

\* updateStatus, on the worker's copy.
UpdateStatus ==
    /\ pc = "check"
    /\ Len(results) = Len(Checkers)
    /\ copy' = [copy EXCEPT !.status = UpdatedStatus(@, seen, results)]
    /\ pc' = "write"
    /\ UNCHANGED <<environment, server, queue, timer, obj, fresh, seen, dialed, results>>

\* Mutant: the status is patched, whatever version the copy was made from.
PatchInstead ==
    /\ stored' = [stored EXCEPT ![obj].status = copy.status]
    /\ synced' = synced \ {obj}
    /\ UNCHANGED cache

\* The API server accepts the copy.  A write that changes nothing keeps the
\* version; one whose modelled fields are equal may still differ in the times
\* and latencies the checks carry.
Accept ==
    /\ obj \in fresh
    /\ stored' = [stored EXCEPT ![obj].status = copy.status]
    /\ \/ synced' = synced \ {obj}
       \/ /\ stored' = stored
          /\ UNCHANGED synced
    /\ UNCHANGED cache

\* Mutant: no next check is scheduled.
WriteStatusOnce ==
    /\ pc = "write"
    /\ Accept
    /\ UNCHANGED timer
    /\ Release
    /\ UNCHANGED <<environment, queue>>

\* Status().Update succeeds: the next check is due after the interval of the copy.
WriteStatus ==
    /\ pc = "write"
    /\ Accept
    /\ RequeueAfter(obj, RequeueInterval(copy))
    /\ Release
    /\ UNCHANGED <<environment, queue>>

\* Status().Update is refused because the copy is outdated: the error makes
\* the queue retry the object.
WriteConflict ==
    /\ pc = "write"
    /\ obj \notin fresh
    /\ queue' = queue \cup {obj}
    /\ Release
    /\ UNCHANGED <<environment, server, timer>>

\* The call fails, before or after the server accepted the write.
WriteFails ==
    /\ pc = "write"
    /\ faults < MaxFaults
    /\ faults' = faults + 1
    /\ UNCHANGED server \/ Accept
    /\ queue' = queue \cup {obj}
    /\ Release
    /\ UNCHANGED <<node, link, changes, edits, timer>>

\* The informer receives the current version and enqueues the object.
Deliver(o) ==
    /\ o \notin synced
    /\ cache' = [cache EXCEPT ![o] = stored[o]]
    /\ synced' = synced \cup {o}
    /\ queue' = queue \cup {o}
    /\ UNCHANGED <<environment, stored, timer, worker>>

\* The manager restarts: queue, timers and the work in progress are lost; the
\* new informer lists every object and enqueues it.
Restart ==
    /\ faults < MaxFaults
    /\ faults' = faults + 1
    /\ cache' = stored
    /\ synced' = Objects
    /\ queue' = Objects
    /\ timer' = [o \in Objects |-> 0]
    /\ Release
    /\ UNCHANGED <<node, link, changes, edits, stored>>

Aged(s) == [s EXCEPT !.age = UpTo(@, MaxAge)]

\* Time passes: LastTransitionTime grows older in every copy of an object and
\* the delayed requeues that come due join the queue.
Tick ==
    /\ stored' = [o \in Objects |-> [stored[o] EXCEPT !.status = Aged(@)]]
    /\ cache' = [o \in Objects |-> [cache[o] EXCEPT !.status = Aged(@)]]
    /\ copy' = IF copy = None THEN None ELSE [copy EXCEPT !.status = Aged(@)]
    /\ timer' = [o \in Objects |-> IF timer[o] = 0 THEN 0 ELSE timer[o] - 1]
    /\ queue' = queue \cup {o \in Objects : timer[o] = 1}
    /\ UNCHANGED <<environment, synced, pc, obj, fresh, seen, dialed, results>>

----------------------------------------------------------------------------
(* The environment: nodes change, disappear and come back, links change,   *)
(* users edit the specs.                                                   *)

NodeChanges(n) ==
    /\ changes < MaxChanges
    /\ changes' = changes + 1
    /\ node' \in {[node EXCEPT ![n] = f] : f \in (Facts \cup {None}) \ {node[n]}}
    /\ UNCHANGED <<link, edits, faults, server, queue, timer, worker>>

LinkChanges(n) ==
    /\ changes < MaxChanges
    /\ changes' = changes + 1
    /\ \E answer \in {"fast", "slow", "refused"} \ {link[n]} :
          link' = [link EXCEPT ![n] = answer]
    /\ UNCHANGED <<node, edits, faults, server, queue, timer, worker>>

\* A user edits o: the node name, the interval, or something the handler does not read.
EditSpec(o) ==
    /\ edits < MaxEdits
    /\ edits' = edits + 1
    /\ \E n \in Nodes, i \in Intervals :
          stored' = [stored EXCEPT
                       ![o] = [node |-> n, interval |-> i, status |-> @.status]]
    /\ synced' = synced \ {o}
    /\ fresh' = fresh \ {o}
    /\ UNCHANGED <<node, link, changes, faults, cache, queue, timer,
                   pc, obj, copy, seen, dialed, results>>

Reconcile ==
    \/ GetNode
    \/ GetFails
    \/ RunChecker
    \/ UpdateStatus
    \/ WriteStatus
    \/ WriteConflict
    \/ WriteFails

Next ==
    \/ \E o \in Objects : Fetch(o) \/ Deliver(o) \/ EditSpec(o)
    \/ Reconcile
    \/ Restart
    \/ Tick
    \/ \E n \in Nodes : NodeChanges(n) \/ LinkChanges(n)

Spec == Init /\ [][Next]_vars

\* The worker keeps running, the queue serves its objects in turn, the watch
\* delivers, time passes.  Nothing is assumed of nodes, links or users.
Fairness ==
    /\ WF_vars(Reconcile)
    /\ \A o \in Objects : SF_vars(Fetch(o)) /\ WF_vars(Deliver(o))
    /\ WF_vars(Tick)

FairSpec == Spec /\ Fairness

----------------------------------------------------------------------------
(* Correctness. *)

EnvironmentOK ==
    /\ node \in [Nodes -> Facts \cup {None}]
    /\ link \in [Nodes -> {"fast", "slow", "refused"}]
    /\ changes \in 0 .. MaxChanges
    /\ edits \in 0 .. MaxEdits
    /\ faults \in 0 .. MaxFaults

ServerOK ==
    /\ stored \in [Objects -> ObjectType]
    /\ cache \in [Objects -> ObjectType]
    /\ synced \subseteq Objects

ScheduleOK ==
    /\ queue \subseteq Objects
    /\ timer \in [Objects -> Nat]

WorkerOK ==
    /\ pc \in {"idle", "node", "check", "write"}
    /\ pc = "idle" => obj = None /\ copy = None /\ fresh = {}
    /\ pc # "idle" => obj \in Objects /\ copy \in ObjectType
    /\ fresh \subseteq {obj}
    /\ seen \in Facts \cup {None}
    /\ pc \in {"check", "write"} => seen # None
    /\ dialed \in {"fast", "slow", "refused", None}
    /\ results \in Seq(Statuses)
    /\ Len(results) <= Len(Checkers)

\* The variables keep their types; the worker holds an object and a copy of it
\* exactly between Fetch and the end of Reconcile.
TypeOK == EnvironmentOK /\ ServerOK /\ ScheduleOK /\ WorkerOK

\* No object whose interval is not negative drops out of the schedule: at every moment
\* it is queued, has a delayed requeue, is being reconciled, or has an event on its
\* way.  This is what the return values of Reconcile (RequeueAfter or an error on every
\* path) are for, across conflicts, missing nodes, failed reads, lost answers and
\* restarts.  The interval is the one stored now, the requeue was made with that of the
\* worker's copy: an interval that was negative and is corrected while a check runs is
\* not lost either.  A negative one ends the schedule after a write that changes nothing.
AlwaysScheduled ==
    \A o \in Objects : stored[o].interval >= 0 =>
        o \in queue \/ timer[o] > 0 \/ obj = o \/ o \notin synced

\* The stored status tells one story, although its parts are computed one by one from
\* copies of different ages: the overall status is the worst of the checks stored with
\* it (an unknown check counts only when nothing worse was found), and the Healthy
\* condition says the same as the overall status.
Rank(s) == CASE s = "Healthy" -> 0 [] s = "Unknown" -> 1
             [] s = "Degraded" -> 2 [] s = "Unhealthy" -> 3
CoherentStatus(s) ==
    s.overall # "unset" =>
      /\ s.overall \in Found(s.checks)
      /\ \A r \in Found(s.checks) : Rank(r) <= Rank(s.overall)
      /\ s.healthy = "True" <=> s.overall = "Healthy"
      /\ s.healthy = "Unknown" <=> s.overall = "Unknown"
StatusCoherent == \A o \in Objects : CoherentStatus(stored[o].status)

\* The verdict about to be written follows from the node that was read and from the
\* answer its port gave, and from nothing else: Unhealthy exactly when a check failed
\* (NotReady, a refused dial, a resource below the critical share), Degraded exactly
\* when none failed and one is strained, Unknown exactly when nothing worse was found
\* and the Ready condition or the address is missing, Healthy otherwise.  One failed
\* check is enough: spec.failureThreshold is not read.
Failed ==
    \/ seen.ready = "False"
    \/ seen.address /\ dialed = "refused"
    \/ \E r \in Resources : seen.free[r] # None /\ seen.free[r] + Threshold < 100
Strained ==
    \/ seen.ready = "True" /\ (seen.pressure \/ seen.heartbeat # "recent")
    \/ seen.address /\ dialed = "slow"
    \/ \E r \in Resources : seen.free[r] # None
           /\ 10 * (100 - seen.free[r]) > 7 * Threshold
Undecided == seen.ready = "Missing" \/ ~seen.address
VerdictJustified ==
    pc = "write" =>
      LET verdict == copy.status.overall
      IN  /\ verdict = "Unhealthy" <=> Failed
          /\ verdict = "Degraded" <=> Strained /\ ~Failed
          /\ verdict = "Unknown" <=> Undecided /\ ~Strained /\ ~Failed
          /\ verdict = "Healthy" <=> ~Undecided /\ ~Strained /\ ~Failed

\* What makes optimistic concurrency work: as long as a write would be accepted,
\* the worker's copy is the stored object, or, once updateStatus has run, has its spec
\* and differs from it in the transition time only if it differs in the overall status.
CopiesCurrent ==
    /\ \A o \in synced : cache[o] = stored[o]
    /\ obj \in fresh =>
         IF pc = "write"
           THEN /\ copy.node = stored[obj].node
                /\ copy.interval = stored[obj].interval
                /\ copy.status.overall = stored[obj].status.overall
                     => copy.status.age = stored[obj].status.age
           ELSE copy = stored[obj]

\* LastTransitionTime moves only when the stored overall status changes: a
\* reconcile that started from an outdated copy, and so believes it saw a
\* transition, must not restart the clock the failover policies read.
TransitionTimeKept ==
    [][\A o \in Objects :
          stored'[o].status.age < stored[o].status.age
             => stored'[o].status.overall # stored[o].status.overall]_vars

\* However reconciles, conflicts, lost answers, restarts and edits interleave, the
\* stored statuses are those of HealthRecord: each write that takes effect counts one
\* check, on top of the status stored at that moment and not of the one the worker read,
\* and no transition is dated before the one it follows.
RecordOf(s) == [overall |-> s.overall, failures |-> s.failures, age |-> s.age]
Records == [o \in Objects |-> RecordOf(stored[o].status)]
HR == INSTANCE HealthRecord WITH Verdicts <- Statuses, records <- Records
ChecksRecorded == HR!Spec

\* A node that stays NotReady is eventually reported Unhealthy for good, and
\* one that stays in perfect order with a fast link is eventually reported
\* Healthy, from any state the objects, the queue and the cache are in, unless its
\* interval is negative.
Down(n) == node[n] # None /\ node[n].ready = "False"
Perfect(n) ==
    /\ node[n] # None
    /\ node[n].ready = "True" /\ ~node[n].pressure
    /\ node[n].heartbeat = "recent" /\ node[n].address
    /\ \A r \in Resources : node[n].free[r] = 100
    /\ link[n] = "fast"
EventuallyReported ==
    \A o \in Objects :
       /\ <>[](Down(stored[o].node) /\ stored[o].interval >= 0) =>
             <>[](stored[o].status.overall = "Unhealthy")
       /\ <>[](Perfect(stored[o].node) /\ stored[o].interval >= 0) =>
             <>[](stored[o].status.overall = "Healthy")

=============================================================================
