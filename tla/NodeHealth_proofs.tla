-------------------------- MODULE NodeHealth_proofs --------------------------
(***************************************************************************)
(* Theorems about NodeHealth, for every set of objects, nodes and node     *)
(* facts and every interval and bound.                                     *)
(***************************************************************************)
EXTENDS NodeHealth, TLAPS

\* RequeueAfter touches the timer of the object only, and leaves it positive when the
\* delay is positive.
LEMMA TimerSet ==
    ASSUME timer \in [Objects -> Nat], NEW o \in Objects,
           NEW delay \in Int, RequeueAfter(o, delay)
    PROVE  /\ timer' \in [Objects -> Nat]
           /\ delay > 0 => timer'[o] > 0
           /\ \A p \in Objects \ {o} : timer'[p] = timer[p]
  BY DEF RequeueAfter

\* The interval after a successful check is an integer, and positive unless that of the
\* object is negative: an unset one is 30s.
LEMMA IntervalPositive ==
    /\ DefaultInterval \in Int /\ DefaultInterval > 0
    /\ \A x \in ObjectType :
          /\ RequeueInterval(x) \in Int
          /\ x.interval >= 0 => RequeueInterval(x) > 0
  <1>1. DefaultInterval \in Int /\ DefaultInterval > 0
    BY NodeHealthAssumption
  <1>2. ASSUME NEW x \in ObjectType
        PROVE  RequeueInterval(x) \in Int /\ (x.interval >= 0 => RequeueInterval(x) > 0)
    <2>1. x.interval \in Int
      BY NodeHealthAssumption DEF ObjectType
    <2> QED
      BY <1>1, <2>1 DEF RequeueInterval
  <1> QED
    BY <1>1, <1>2

\* Every checker answers with a status.
LEMMA CheckType ==
    ASSUME NEW c \in {"kubelet", "resource", "network"}, NEW n, NEW answer
    PROVE  Check(c, n, answer) \in Statuses
  BY DEF Check, KubeletCheck, NetworkCheck, ResourceCheck, Statuses

\* The registry combines any results to a status.
LEMMA OverallType ==
    ASSUME NEW rs
    PROVE  GetOverallStatus(rs) \in Statuses
  BY DEF GetOverallStatus, Statuses

\* A saturating counter keeps its range and does not go back.
LEMMA UpToType ==
    ASSUME NEW bound \in Nat, NEW n \in 0 .. bound
    PROVE  UpTo(n, bound) \in 0 .. bound /\ UpTo(n, bound) >= n
  BY DEF UpTo

\* Time keeps a status well formed.
LEMMA AgedType ==
    ASSUME NEW s \in StatusType
    PROVE  Aged(s) \in StatusType
  BY UpToType, NodeHealthAssumption DEF Aged, StatusType

\* Time changes nothing but the age.
LEMMA AgedObject ==
    ASSUME NEW x \in ObjectType
    PROVE  LET y == [x EXCEPT !.status = Aged(@)]
           IN  /\ y.status.age = UpTo(x.status.age, MaxAge)
               /\ y.status.overall = x.status.overall
               /\ y.status.checks = x.status.checks
               /\ y.status.failures = x.status.failures
               /\ y.status.healthy = x.status.healthy
               /\ y.node = x.node /\ y.interval = x.interval
  BY DEF Aged, ObjectType, StatusType

\* The age in a well-formed object is a number.
LEMMA AgeType ==
    ASSUME NEW x \in ObjectType
    PROVE  x.status \in StatusType /\ x.status.age \in 0 .. MaxAge /\ x.status.age \in Nat
  <1>1. x.status \in StatusType
    BY DEF ObjectType
  <1>2. x.status.age \in 0 .. MaxAge
    BY <1>1 DEF StatusType
  <1> QED
    BY <1>1, <1>2

\* updateStatus turns a status into a status.
LEMMA UpdatedStatusType ==
    ASSUME NEW s \in StatusType, NEW n \in Facts, NEW rs \in Seq(Statuses)
    PROVE  UpdatedStatus(s, n, rs) \in StatusType
  <1>1. n.region \in Regions \cup {None}
    BY NodeHealthAssumption DEF FactsType
  <1>2. s.failures \in 0 .. MaxFailures /\ s.age \in 0 .. MaxAge /\ s.region \in Regions \cup {None}
    BY DEF StatusType
  <1>3. UpTo(s.failures, MaxFailures) \in 0 .. MaxFailures
    BY <1>2, UpToType, NodeHealthAssumption
  <1>4. ConditionOf(GetOverallStatus(rs)) \in {"True", "False", "Unknown", "unset"}
    BY DEF ConditionOf
  <1>5. 0 \in 0 .. MaxFailures /\ 0 \in 0 .. MaxAge
    BY NodeHealthAssumption
  <1> QED
    BY <1>1, <1>2, <1>3, <1>4, <1>5, OverallType DEF UpdatedStatus, StatusType


----------------------------------------------------------------------------
\* What a reconcile that ends leaves behind.
LEMMA ReleaseType ==
    ASSUME Release
    PROVE  WorkerOK'
  BY DEF Release, WorkerOK, Checkers

\* A write the server accepts keeps the objects well formed.
LEMMA AcceptType ==
    ASSUME ServerOK, WorkerOK, pc = "write", Accept
    PROVE  ServerOK'
  <1>1. obj \in Objects /\ copy.status \in StatusType
    BY DEF WorkerOK, ObjectType
  <1>2. stored' = [stored EXCEPT ![obj] = [stored[obj] EXCEPT !.status = copy.status]]
    BY DEF Accept
  <1>3. stored[obj] \in ObjectType
    BY <1>1 DEF ServerOK
  <1>4. [stored[obj] EXCEPT !.status = copy.status] \in ObjectType
    BY <1>1, <1>3 DEF ObjectType
  <1>5. stored' \in [Objects -> ObjectType]
    BY <1>1, <1>2, <1>4 DEF ServerOK
  <1>6. cache' = cache /\ synced' \subseteq Objects
    BY DEF Accept, ServerOK
  <1> QED
    BY <1>5, <1>6 DEF ServerOK

\* A status write leaves every spec as it is.
LEMMA AcceptSpec ==
    ASSUME ServerOK, WorkerOK, pc = "write", Accept, NEW o \in Objects
    PROVE  stored'[o].node = stored[o].node /\ stored'[o].interval = stored[o].interval
  <1>1. stored' = [stored EXCEPT ![obj] = [stored[obj] EXCEPT !.status = copy.status]]
    BY DEF Accept
  <1>2. stored[o] \in ObjectType
    BY DEF ServerOK
  <1> QED
    BY <1>1, <1>2 DEF ServerOK, ObjectType

\* A step that leaves the variables of a part of the state alone keeps the type
\* of that part.
LEMMA UnchangedTypes ==
    /\ EnvironmentOK /\ UNCHANGED environment => EnvironmentOK'
    /\ ServerOK /\ UNCHANGED server => ServerOK'
    /\ WorkerOK /\ UNCHANGED worker => WorkerOK'
  BY DEF EnvironmentOK, environment, ServerOK, server, WorkerOK, worker

\* TypeOK: the variables keep their types in every behaviour.
THEOREM TypeCorrect == Spec => []TypeOK
<1>1. Init => TypeOK
  <2> SUFFICES ASSUME Init PROVE TypeOK
    OBVIOUS
  <2>1. NewStatus \in StatusType
    BY NodeHealthAssumption DEF NewStatus, StatusType
  <2>2. stored \in [Objects -> ObjectType]
    BY <2>1 DEF Init, ObjectType
  <2>3. ServerOK /\ ScheduleOK
    BY <2>2 DEF Init, ServerOK, ScheduleOK
  <2>4. EnvironmentOK
    BY NodeHealthAssumption DEF Init, EnvironmentOK
  <2>5. WorkerOK
    BY DEF Init, WorkerOK, Checkers
  <2> QED
    BY <2>3, <2>4, <2>5 DEF TypeOK
<1>2. TypeOK /\ [Next]_vars => TypeOK'
  <2> SUFFICES ASSUME TypeOK, [Next]_vars PROVE TypeOK'
    OBVIOUS
  <2>0. EnvironmentOK /\ ServerOK /\ ScheduleOK /\ WorkerOK
    BY DEF TypeOK
  <2>1. ASSUME NEW o \in Objects, Fetch(o) PROVE TypeOK'
    <3>1. WorkerOK'
      BY <2>0, <2>1 DEF Fetch, WorkerOK, ServerOK
    <3>2. ScheduleOK'
      BY <2>0, <2>1 DEF Fetch, ScheduleOK
    <3> QED
      BY <2>0, <2>1, <3>1, <3>2, UnchangedTypes DEF Fetch, TypeOK
  <2>2. ASSUME NEW o \in Objects, Deliver(o) PROVE TypeOK'
    <3>1. ServerOK' /\ ScheduleOK'
      BY <2>0, <2>2 DEF Deliver, ServerOK, ScheduleOK
    <3> QED
      BY <2>0, <2>2, <3>1, UnchangedTypes DEF Deliver, TypeOK
  <2>3. ASSUME NEW o \in Objects, EditSpec(o) PROVE TypeOK'
    <3>1. PICK n \in Nodes, i \in Intervals :
             stored' = [stored EXCEPT
                          ![o] = [node |-> n, interval |-> i, status |-> stored[o].status]]
      BY <2>3 DEF EditSpec
    <3>2. stored[o] \in ObjectType
      BY <2>0 DEF ServerOK
    <3>3. [node |-> n, interval |-> i, status |-> stored[o].status] \in ObjectType
      BY <3>2 DEF ObjectType
    <3>4. ServerOK'
      BY <2>0, <2>3, <3>1, <3>3 DEF EditSpec, ServerOK
    <3>5. WorkerOK'
      BY <2>0, <2>3 DEF EditSpec, WorkerOK
    <3>6. EnvironmentOK' /\ ScheduleOK'
      BY <2>0, <2>3, NodeHealthAssumption DEF EditSpec, EnvironmentOK, ScheduleOK
    <3> QED
      BY <3>4, <3>5, <3>6 DEF TypeOK
  <2>4. CASE GetNode
    <3>1. WorkerOK' /\ ScheduleOK'
      <4>1. CASE node[copy.node] # None /\ pc' = "check"
        <5>1. copy.node \in Nodes
          BY <2>0, <2>4 DEF GetNode, WorkerOK, ObjectType
        <5>2. seen' \in Facts /\ seen' # None
          BY <2>0, <2>4, <4>1, <5>1 DEF GetNode, Release, EnvironmentOK
        <5> QED
          BY <2>0, <2>4, <4>1, <5>2 DEF GetNode, Release, WorkerOK, ScheduleOK
      <4>2. CASE RequeueAfter(obj, DefaultInterval) /\ Release
        BY <2>0, <2>4, <4>2, TimerSet, ReleaseType, IntervalPositive
           DEF GetNode, WorkerOK, ScheduleOK
      <4> QED
        BY <2>4, <4>1, <4>2 DEF GetNode
    <3> QED
      BY <2>0, <2>4, <3>1, UnchangedTypes DEF GetNode, TypeOK
  <2>15. CASE GetFails
    <3>1. ScheduleOK'
      BY <2>0, <2>15 DEF GetFails, ScheduleOK, WorkerOK
    <3>2. EnvironmentOK'
      BY <2>0, <2>15, NodeHealthAssumption DEF GetFails, EnvironmentOK
    <3> QED
      BY <2>0, <2>15, <3>1, <3>2, ReleaseType, UnchangedTypes DEF GetFails, TypeOK
  <2>5. CASE RunChecker
    <3>1. Len(results) + 1 \in 1 .. 3
      BY <2>0, <2>5 DEF RunChecker, WorkerOK, Checkers
    <3>2. Checkers[Len(results) + 1] \in {"kubelet", "resource", "network"}
      BY <3>1 DEF Checkers
    <3>3. results' \in Seq(Statuses) /\ Len(results') <= Len(Checkers)
      BY <2>0, <2>5, <3>2, CheckType DEF RunChecker, WorkerOK, Checkers
    <3>5. dialed' \in {"fast", "slow", "refused", None}
      <4>1. copy.node \in Nodes
        BY <2>0, <2>5 DEF RunChecker, WorkerOK, ObjectType
      <4> QED
        BY <2>0, <2>5, <4>1 DEF RunChecker, WorkerOK, EnvironmentOK
    <3>4. WorkerOK'
      BY <2>0, <2>5, <3>3, <3>5 DEF RunChecker, WorkerOK
    <3> QED
      BY <2>0, <2>5, <3>4, UnchangedTypes DEF RunChecker, TypeOK, ScheduleOK
  <2>6. CASE UpdateStatus
    <3>1. copy \in ObjectType /\ seen \in Facts /\ results \in Seq(Statuses)
      BY <2>0, <2>6 DEF UpdateStatus, WorkerOK
    <3>2. copy.status \in StatusType
      BY <3>1 DEF ObjectType
    <3>3. UpdatedStatus(copy.status, seen, results) \in StatusType
      BY <3>1, <3>2, UpdatedStatusType
    <3>4. copy' \in ObjectType
      BY <2>6, <3>1, <3>3 DEF UpdateStatus, ObjectType
    <3>5. WorkerOK'
      BY <2>0, <2>6, <3>4 DEF UpdateStatus, WorkerOK
    <3> QED
      BY <2>0, <2>6, <3>5, UnchangedTypes DEF UpdateStatus, TypeOK, ScheduleOK
  <2>7. CASE WriteStatus
    <3>1. obj \in Objects
      BY <2>0, <2>7 DEF WriteStatus, WorkerOK
    <3>2. ScheduleOK'
      <4>1. RequeueInterval(copy) \in Int
        BY <2>0, <2>7, IntervalPositive DEF WriteStatus, WorkerOK
      <4> QED
        BY <2>0, <2>7, <3>1, <4>1, TimerSet DEF WriteStatus, ScheduleOK
    <3> QED
      BY <2>0, <2>7, <3>2, AcceptType, ReleaseType, UnchangedTypes DEF WriteStatus, TypeOK
  <2>8. CASE WriteConflict
    <3>1. ScheduleOK'
      BY <2>0, <2>8 DEF WriteConflict, ScheduleOK, WorkerOK
    <3> QED
      BY <2>0, <2>8, <3>1, ReleaseType, UnchangedTypes DEF WriteConflict, TypeOK
  <2>9. CASE WriteFails
    <3>1. ServerOK'
      BY <2>0, <2>9, AcceptType, UnchangedTypes DEF WriteFails
    <3>2. ScheduleOK'
      BY <2>0, <2>9 DEF WriteFails, ScheduleOK, WorkerOK
    <3>3. EnvironmentOK'
      BY <2>0, <2>9, NodeHealthAssumption DEF WriteFails, EnvironmentOK
    <3> QED
      BY <2>0, <2>9, <3>1, <3>2, <3>3, ReleaseType DEF WriteFails, TypeOK
  <2>10. CASE Restart
    <3>1. ServerOK' /\ ScheduleOK'
      BY <2>0, <2>10 DEF Restart, ServerOK, ScheduleOK
    <3>2. EnvironmentOK'
      BY <2>0, <2>10, NodeHealthAssumption DEF Restart, EnvironmentOK
    <3> QED
      BY <2>10, <3>1, <3>2, ReleaseType DEF Restart, TypeOK
  <2>11. CASE Tick
    <3>1. ASSUME NEW x \in ObjectType PROVE [x EXCEPT !.status = Aged(@)] \in ObjectType
      BY <3>1, AgedType DEF ObjectType
    <3>2. ServerOK'
      BY <2>0, <2>11, <3>1 DEF Tick, ServerOK
    <3>3. ScheduleOK'
      BY <2>0, <2>11 DEF Tick, ScheduleOK
    <3>4. copy = None => copy' = None
      BY <2>11 DEF Tick
    <3>5. copy \in ObjectType => copy' \in ObjectType
      <4>1. CASE copy = None
        BY <2>11, <4>1 DEF Tick
      <4>2. CASE copy # None
        BY <2>11, <3>1, <4>2 DEF Tick
      <4> QED
        BY <4>1, <4>2
    <3>6. WorkerOK'
      BY <2>0, <2>11, <3>4, <3>5 DEF Tick, WorkerOK
    <3> QED
      BY <2>0, <2>11, <3>2, <3>3, <3>6, UnchangedTypes DEF Tick, TypeOK
  <2>12. ASSUME NEW n \in Nodes, NodeChanges(n) PROVE TypeOK'
    <3>1. EnvironmentOK'
      BY <2>0, <2>12, NodeHealthAssumption DEF NodeChanges, EnvironmentOK
    <3> QED
      BY <2>0, <2>12, <3>1, UnchangedTypes DEF NodeChanges, TypeOK, ScheduleOK
  <2>13. ASSUME NEW n \in Nodes, LinkChanges(n) PROVE TypeOK'
    <3>1. EnvironmentOK'
      BY <2>0, <2>13, NodeHealthAssumption DEF LinkChanges, EnvironmentOK
    <3> QED
      BY <2>0, <2>13, <3>1, UnchangedTypes DEF LinkChanges, TypeOK, ScheduleOK
  <2>14. CASE UNCHANGED vars
    BY <2>0, <2>14, UnchangedTypes DEF vars, environment, server, worker, TypeOK, ScheduleOK
  <2> QED
    BY <2>1, <2>2, <2>3, <2>4, <2>5, <2>6, <2>7, <2>8, <2>9, <2>10, <2>11,
       <2>12, <2>13, <2>14, <2>15 DEF Next, Reconcile
<1> QED
  BY <1>1, <1>2, PTL DEF Spec


----------------------------------------------------------------------------
\* updateStatus keeps the transition time unless the overall status changes.
LEMMA UpdatedAge ==
    ASSUME NEW s, NEW n, NEW rs,
           UpdatedStatus(s, n, rs).overall = s.overall
    PROVE  UpdatedStatus(s, n, rs).age = s.age
  BY DEF UpdatedStatus

\* CopiesCurrent: a copy whose write would be accepted is not outdated.
THEOREM FreshCopies == Spec => []CopiesCurrent
<1>1. Init => CopiesCurrent
  BY DEF Init, CopiesCurrent
<1>2. TypeOK /\ CopiesCurrent /\ [Next]_vars => CopiesCurrent'
  <2> SUFFICES ASSUME TypeOK, CopiesCurrent, [Next]_vars PROVE CopiesCurrent'
    OBVIOUS
  <2>0. ServerOK /\ WorkerOK
    BY DEF TypeOK
  <2>r. ASSUME Release, \A o \in synced' : cache'[o] = stored'[o] PROVE CopiesCurrent'
    BY <2>r DEF Release, CopiesCurrent
  <2>1. ASSUME NEW o \in Objects, Fetch(o) PROVE CopiesCurrent'
    BY <2>0, <2>1 DEF Fetch, server, CopiesCurrent
  <2>2. ASSUME NEW o \in Objects, Deliver(o) PROVE CopiesCurrent'
    <3>1. \A p \in synced' : cache'[p] = stored'[p]
      BY <2>0, <2>2 DEF Deliver, ServerOK, CopiesCurrent
    <3> QED
      BY <2>2, <3>1 DEF Deliver, worker, CopiesCurrent
  <2>3. ASSUME NEW o \in Objects, EditSpec(o) PROVE CopiesCurrent'
    <3>1. \A p \in Objects \ {o} : stored'[p] = stored[p]
      BY <2>0, <2>3 DEF EditSpec, ServerOK
    <3>2. \A p \in synced' : cache'[p] = stored'[p]
      BY <2>0, <2>3, <3>1 DEF EditSpec, ServerOK, CopiesCurrent
    <3>3. obj' \in fresh' => obj \in fresh /\ obj # o /\ obj \in Objects
      BY <2>0, <2>3 DEF EditSpec, WorkerOK
    <3> QED
      BY <2>3, <3>1, <3>2, <3>3 DEF EditSpec, CopiesCurrent
  <2>4. CASE GetNode
    <3>1. CASE pc' = "check" /\ UNCHANGED <<obj, copy, fresh>>
      BY <2>4, <3>1 DEF GetNode, server, CopiesCurrent
    <3>2. CASE Release
      BY <2>4, <3>2, <2>r DEF GetNode, server, CopiesCurrent
    <3> QED
      BY <2>4, <3>1, <3>2 DEF GetNode
  <2>5. CASE RunChecker
    BY <2>5 DEF RunChecker, server, CopiesCurrent
  <2>14. CASE GetFails
    BY <2>14, <2>r DEF GetFails, server, CopiesCurrent
  <2>6. CASE UpdateStatus
    <3>1. ASSUME obj \in fresh
          PROVE  /\ copy'.node = stored[obj].node /\ copy'.interval = stored[obj].interval
                 /\ copy'.status.overall = stored[obj].status.overall
                      => copy'.status.age = stored[obj].status.age
      <4>1. copy = stored[obj] /\ copy \in ObjectType
        BY <2>0, <2>6, <3>1 DEF UpdateStatus, CopiesCurrent, WorkerOK
      <4>2. /\ copy'.status = UpdatedStatus(copy.status, seen, results)
            /\ copy'.node = copy.node /\ copy'.interval = copy.interval
        BY <2>6, <4>1 DEF UpdateStatus, ObjectType
      <4> QED
        BY <4>1, <4>2, UpdatedAge
    <3> QED
      BY <2>6, <3>1 DEF UpdateStatus, server, CopiesCurrent
  <2>7. CASE WriteStatus
    <3>1. \A o \in synced' : cache'[o] = stored'[o]
      BY <2>0, <2>7 DEF WriteStatus, Accept, ServerOK, CopiesCurrent
    <3> QED
      BY <2>7, <2>r, <3>1 DEF WriteStatus
  <2>8. CASE WriteConflict
    BY <2>8, <2>r DEF WriteConflict, server, CopiesCurrent
  <2>9. CASE WriteFails
    <3>1. \A o \in synced' : cache'[o] = stored'[o]
      BY <2>0, <2>9 DEF WriteFails, Accept, ServerOK, server, CopiesCurrent
    <3> QED
      BY <2>9, <2>r, <3>1 DEF WriteFails
  <2>10. CASE Restart
    BY <2>10, <2>r DEF Restart
  <2>11. CASE Tick
    <3>1. \A o \in synced' : cache'[o] = stored'[o]
      BY <2>0, <2>11 DEF Tick, ServerOK, CopiesCurrent
    <3>2. ASSUME obj \in fresh
          PROVE  IF pc = "write"
                   THEN /\ copy'.node = stored'[obj].node
                        /\ copy'.interval = stored'[obj].interval
                        /\ copy'.status.overall = stored'[obj].status.overall
                             => copy'.status.age = stored'[obj].status.age
                   ELSE copy' = stored'[obj]
      <4>1. copy \in ObjectType /\ copy # None /\ obj \in Objects /\ stored[obj] \in ObjectType
        BY <2>0, <3>2, NoObjectIsNone, NodeHealthAssumption DEF WorkerOK, ServerOK
      <4>2. copy' = [copy EXCEPT !.status = Aged(@)]
        BY <2>11, <4>1 DEF Tick
      <4>3. stored'[obj] = [stored[obj] EXCEPT !.status = Aged(@)]
        BY <2>11, <4>1 DEF Tick
      <4> QED
        BY <3>2, <4>1, <4>2, <4>3, AgedObject DEF CopiesCurrent
    <3> QED
      BY <2>11, <3>1, <3>2 DEF Tick, CopiesCurrent
  <2>12. ASSUME NEW n \in Nodes, NodeChanges(n) \/ LinkChanges(n) PROVE CopiesCurrent'
    BY <2>12 DEF NodeChanges, LinkChanges, server, worker, CopiesCurrent
  <2>13. CASE UNCHANGED vars
    BY <2>13 DEF vars, CopiesCurrent
  <2> QED
    BY <2>1, <2>2, <2>3, <2>4, <2>5, <2>6, <2>7, <2>8, <2>9, <2>10, <2>11,
       <2>12, <2>13, <2>14 DEF Next, Reconcile
<1> QED
  BY <1>1, <1>2, TypeCorrect, PTL DEF Spec


----------------------------------------------------------------------------
\* AlwaysScheduled: no object whose interval is not negative drops out of the schedule of
\* the controller.  That the requeue was made with the interval stored now is a
\* consequence of CopiesCurrent.
THEOREM NeverForgotten == Spec => []AlwaysScheduled
<1>1. Init => AlwaysScheduled
  BY DEF Init, AlwaysScheduled
<1>2. TypeOK /\ CopiesCurrent /\ AlwaysScheduled /\ [Next]_vars => AlwaysScheduled'
  <2> SUFFICES ASSUME TypeOK, CopiesCurrent, AlwaysScheduled, [Next]_vars PROVE AlwaysScheduled'
    OBVIOUS
  <2>0. ServerOK /\ ScheduleOK /\ WorkerOK
    BY DEF TypeOK
  <2> USE <2>0 DEF AlwaysScheduled
  <2>1. ASSUME NEW o \in Objects, Fetch(o) PROVE AlwaysScheduled'
    BY <2>1, NodeHealthAssumption DEF Fetch, server, WorkerOK
  <2>2. ASSUME NEW o \in Objects, Deliver(o) PROVE AlwaysScheduled'
    BY <2>2 DEF Deliver, worker
  <2>3. ASSUME NEW o \in Objects, EditSpec(o) PROVE AlwaysScheduled'
    <3>1. \A p \in Objects \ {o} : stored'[p] = stored[p]
      BY <2>3 DEF EditSpec, ServerOK
    <3> QED
      BY <2>3, <3>1 DEF EditSpec
  <2>4. CASE GetNode
    <3>1. CASE pc' = "check" /\ UNCHANGED <<timer, obj>>
      BY <2>4, <3>1 DEF GetNode, server
    <3>2. CASE RequeueAfter(obj, DefaultInterval) /\ Release
      BY <2>4, <3>2, TimerSet, IntervalPositive DEF GetNode, server, ScheduleOK, WorkerOK
    <3> QED
      BY <2>4, <3>1, <3>2 DEF GetNode
  <2>5. CASE RunChecker
    BY <2>5 DEF RunChecker, server
  <2>6. CASE UpdateStatus
    BY <2>6 DEF UpdateStatus, server
  <2>14. CASE GetFails
    BY <2>14 DEF GetFails, server
  <2>7. CASE WriteStatus
    <3>1. obj \in Objects /\ \A o \in Objects \ {obj} : o \in synced' <=> o \in synced
      BY <2>7 DEF WriteStatus, Accept, WorkerOK
    <3>2. \A o \in Objects : stored'[o].interval = stored[o].interval
      BY <2>7, <3>1, AcceptSpec DEF WriteStatus
    <3>3. copy \in ObjectType /\ copy.interval = stored[obj].interval
      BY <2>7 DEF WriteStatus, Accept, WorkerOK, CopiesCurrent
    <3>4. RequeueInterval(copy) \in Int /\ (stored[obj].interval >= 0 => RequeueInterval(copy) > 0)
      BY <3>3, IntervalPositive
    <3>5. stored[obj].interval >= 0 => timer'[obj] > 0
      BY <2>7, <3>1, <3>4, TimerSet DEF WriteStatus, ScheduleOK
    <3>6. \A o \in Objects \ {obj} : timer'[o] = timer[o]
      BY <2>7, <3>1, <3>4, TimerSet DEF WriteStatus, ScheduleOK
    <3> QED
      BY <2>7, <3>1, <3>2, <3>5, <3>6 DEF WriteStatus
  <2>8. CASE WriteConflict
    BY <2>8 DEF WriteConflict, server
  <2>9. CASE WriteFails
    <3>1. \A o \in Objects \ {obj} : o \in synced' <=> o \in synced
      BY <2>9 DEF WriteFails, Accept, server
    <3>2. \A o \in Objects : stored'[o].interval = stored[o].interval
      BY <2>9, AcceptSpec DEF WriteFails, server
    <3> QED
      BY <2>9, <3>1, <3>2 DEF WriteFails
  <2>10. CASE Restart
    BY <2>10 DEF Restart
  <2>11. CASE Tick
    <3>1. \A o \in Objects : stored'[o].interval = stored[o].interval
      BY <2>11, AgedObject DEF Tick, ServerOK
    <3>2. obj' = obj /\ synced' = synced
      BY <2>11 DEF Tick
    <3>3. queue' = queue \cup {o \in Objects : timer[o] = 1}
      BY <2>11 DEF Tick
    <3>4. ASSUME NEW o \in Objects, timer[o] > 0
          PROVE  o \in queue' \/ timer'[o] > 0
      <4>1. timer[o] \in Nat /\ timer'[o] = timer[o] - 1
        BY <2>11, <3>4 DEF Tick, ScheduleOK
      <4> QED
        BY <3>3, <3>4, <4>1
    <3> QED
      BY <3>1, <3>2, <3>3, <3>4
  <2>12. ASSUME NEW n \in Nodes, NodeChanges(n) \/ LinkChanges(n) PROVE AlwaysScheduled'
    BY <2>12 DEF NodeChanges, LinkChanges, server, worker
  <2>13. CASE UNCHANGED vars
    BY <2>13 DEF vars
  <2> QED
    BY <2>1, <2>2, <2>3, <2>4, <2>5, <2>6, <2>7, <2>8, <2>9, <2>10, <2>11,
       <2>12, <2>13, <2>14 DEF Next, Reconcile
<1> QED
  BY <1>1, <1>2, TypeCorrect, FreshCopies, PTL DEF Spec

----------------------------------------------------------------------------
\* A status write the server accepts resets the transition time only together
\* with the overall status.
LEMMA AcceptKeepsTransition ==
    ASSUME TypeOK, CopiesCurrent, pc = "write", Accept, NEW o \in Objects,
           stored'[o].status.age < stored[o].status.age
    PROVE  stored'[o].status.overall # stored[o].status.overall
  <1>1. obj \in fresh /\ obj \in Objects /\ stored \in [Objects -> ObjectType]
    BY DEF Accept, TypeOK, WorkerOK, ServerOK
  <1>2. stored' = [stored EXCEPT ![obj] = [stored[obj] EXCEPT !.status = copy.status]]
    BY DEF Accept
  <1>3. CASE o # obj
    <2>1. stored'[o] = stored[o] /\ stored[o] \in ObjectType
      BY <1>1, <1>2, <1>3
    <2>2. stored[o].status.age \in Nat
      BY <2>1, AgeType
    <2> QED
      BY <2>1, <2>2
  <1>4. CASE o = obj
    <2>1. stored[obj] \in ObjectType
      BY <1>1
    <2>2. stored'[obj].status = copy.status
      BY <1>1, <1>2, <2>1 DEF ObjectType
    <2>3. stored[obj].status.age \in Nat
      BY <2>1, AgeType
    <2> QED
      <3>1. copy.status.overall = stored[obj].status.overall
               => copy.status.age = stored[obj].status.age
        BY <1>1 DEF CopiesCurrent
      <3> QED
        BY <1>4, <2>2, <2>3, <3>1
  <1> QED
    BY <1>3, <1>4

\* TransitionTimeKept: LastTransitionTime moves only with the overall status.
THEOREM TransitionTime == Spec => TransitionTimeKept
<1> DEFINE Kept == \A o \in Objects :
                     stored'[o].status.age < stored[o].status.age
                       => stored'[o].status.overall # stored[o].status.overall
<1>1. TypeOK /\ CopiesCurrent /\ [Next]_vars => [Kept]_vars
  <2> SUFFICES ASSUME TypeOK, CopiesCurrent, Next PROVE Kept
    OBVIOUS
  <2>0. ServerOK /\ WorkerOK
    BY DEF TypeOK
  <2>1. \A o \in Objects : stored[o] \in ObjectType /\ stored[o].status.age \in 0 .. MaxAge
    BY <2>0 DEF ServerOK, ObjectType, StatusType
  <2>2. CASE stored' = stored
    BY <2>1, <2>2, NodeHealthAssumption
  <2>3. CASE Accept /\ pc = "write"
    BY <2>3, AcceptKeepsTransition
  <2>4. ASSUME NEW o \in Objects, EditSpec(o) PROVE Kept
    <3>1. PICK n \in Nodes, i \in Intervals :
             stored' = [stored EXCEPT
                          ![o] = [node |-> n, interval |-> i, status |-> stored[o].status]]
      BY <2>4 DEF EditSpec
    <3>2. \A p \in Objects : stored'[p].status = stored[p].status
      BY <2>0, <2>1, <3>1 DEF ServerOK, ObjectType
    <3> QED
      BY <2>1, <3>2, NodeHealthAssumption
  <2>5. CASE Tick
    <3>1. ASSUME NEW o \in Objects
          PROVE  stored'[o].status.age = UpTo(stored[o].status.age, MaxAge)
      <4>1. stored'[o] = [stored[o] EXCEPT !.status = Aged(@)]
        BY <2>5 DEF Tick
      <4> QED
        BY <2>1, <4>1, AgedObject
    <3>2. ASSUME NEW o \in Objects
          PROVE  ~(stored'[o].status.age < stored[o].status.age)
      <4>1. stored[o].status.age \in 0 .. MaxAge
        BY <2>1
      <4>2. MaxAge \in Nat
        BY NodeHealthAssumption
      <4> QED
        BY <3>1, <4>1, <4>2 DEF UpTo
    <3> QED
      BY <3>2
  <2>6. stored' = stored \/ (Accept /\ pc = "write") \/ Tick
          \/ \E o \in Objects : EditSpec(o)
    BY DEF Next, Reconcile, Fetch, Deliver, GetNode, GetFails, RunChecker, UpdateStatus, WriteStatus,
           WriteConflict, WriteFails, Restart, NodeChanges, LinkChanges, server
  <2> QED
    BY <2>2, <2>3, <2>4, <2>5, <2>6
<1> QED
  BY <1>1, TypeCorrect, FreshCopies, PTL DEF Spec, TransitionTimeKept

----------------------------------------------------------------------------
\* updateStatus produces a coherent status from a full list of results.
LEMMA UpdatedCoherent ==
    ASSUME NEW s \in StatusType, NEW n, NEW rs \in Seq(Statuses), rs # << >>
    PROVE  CoherentStatus(UpdatedStatus(s, n, rs))
  <1> DEFINE u == UpdatedStatus(s, n, rs)
             overall == GetOverallStatus(rs)
  <1>1. /\ u.overall = overall /\ u.checks = rs /\ u.healthy = ConditionOf(overall)
    BY DEF UpdatedStatus
  <1>2. Found(rs) \subseteq Statuses /\ Found(rs) # {}
    <2>1. Len(rs) \in Nat \ {0} /\ DOMAIN rs = 1 .. Len(rs)
      OBVIOUS
    <2>2. \A i \in 1 .. Len(rs) : rs[i] \in Statuses
      OBVIOUS
    <2>3. rs[1] \in Found(rs)
      BY <2>1 DEF Found
    <2> QED
      BY <2>1, <2>2, <2>3 DEF Found
  <1>3. overall \in Found(rs)
    BY <1>2 DEF GetOverallStatus, Statuses
  <1>4. \A r \in Found(rs) : Rank(r) <= Rank(overall)
    <2> SUFFICES ASSUME NEW r \in Found(rs) PROVE Rank(r) <= Rank(overall)
      OBVIOUS
    <2>1. r \in Statuses
      BY <1>2
    <2> QED
      BY <2>1, <1>3 DEF GetOverallStatus, Statuses, Rank
  <1>7. /\ u.healthy = "True" <=> u.overall = "Healthy"
        /\ u.healthy = "Unknown" <=> u.overall = "Unknown"
    BY <1>1, OverallType DEF ConditionOf, Statuses
  <1> QED
    BY <1>1, <1>3, <1>4, <1>7 DEF CoherentStatus

\* Every status held anywhere is coherent: in the server, in the cache and in
\* the worker's copy.  StatusCoherent alone is not inductive.
AllCoherent ==
    /\ \A o \in Objects : CoherentStatus(stored[o].status)
    /\ \A o \in Objects : CoherentStatus(cache[o].status)
    /\ copy # None => CoherentStatus(copy.status)

\* Time keeps a status coherent: it changes nothing coherence speaks of.
LEMMA AgedCoherent ==
    ASSUME NEW x \in ObjectType, CoherentStatus(x.status)
    PROVE  CoherentStatus([x EXCEPT !.status = Aged(@)].status)
  BY AgedObject DEF CoherentStatus

\* StatusCoherent: every stored status tells one story.
THEOREM Coherence == Spec => []StatusCoherent
<1>1. Init => AllCoherent
  <2> SUFFICES ASSUME Init PROVE AllCoherent
    OBVIOUS
  <2>1. \A o \in Objects : stored[o].status = NewStatus
    BY DEF Init
  <2>2. CoherentStatus(NewStatus)
    BY DEF CoherentStatus, NewStatus
  <2> QED
    BY <2>1, <2>2 DEF Init, AllCoherent
<1>2. TypeOK /\ AllCoherent /\ [Next]_vars => AllCoherent'
  <2> SUFFICES ASSUME TypeOK, AllCoherent, [Next]_vars PROVE AllCoherent'
    OBVIOUS
  <2>0. ServerOK /\ WorkerOK
    BY DEF TypeOK
  <2>1. CASE UNCHANGED <<stored, cache>> /\ copy' = copy
    BY <2>1 DEF AllCoherent
  <2>2. ASSUME NEW o \in Objects, Fetch(o) PROVE AllCoherent'
    BY <2>2 DEF Fetch, server, AllCoherent
  <2>3. ASSUME NEW o \in Objects, Deliver(o) PROVE AllCoherent'
    BY <2>0, <2>3 DEF Deliver, worker, ServerOK, AllCoherent
  <2>4. ASSUME NEW o \in Objects, EditSpec(o) PROVE AllCoherent'
    <3>1. PICK n \in Nodes, i \in Intervals :
             stored' = [stored EXCEPT
                          ![o] = [node |-> n, interval |-> i, status |-> stored[o].status]]
      BY <2>4 DEF EditSpec
    <3>2. \A p \in Objects : stored'[p].status = stored[p].status
      BY <2>0, <3>1 DEF ServerOK, ObjectType
    <3> QED
      BY <2>4, <3>2 DEF EditSpec, AllCoherent
  <2>5. CASE UpdateStatus
    <3>1. copy \in ObjectType /\ copy.status \in StatusType
      BY <2>0, <2>5 DEF UpdateStatus, WorkerOK, ObjectType
    <3>2. results \in Seq(Statuses) /\ results # << >>
      BY <2>0, <2>5, SMTT(30) DEF UpdateStatus, WorkerOK, Checkers
    <3>3. copy'.status = UpdatedStatus(copy.status, seen, results)
      BY <2>5, <3>1 DEF UpdateStatus, ObjectType
    <3>4. CoherentStatus(copy'.status)
      BY <3>1, <3>2, <3>3, UpdatedCoherent
    <3> QED
      BY <2>5, <3>4 DEF UpdateStatus, server, AllCoherent
  <2>6. CASE Accept /\ pc = "write" /\ Release
    <3>1. obj \in Objects /\ copy \in ObjectType /\ CoherentStatus(copy.status)
      BY <2>0, <2>6, NoObjectIsNone DEF WorkerOK, AllCoherent
    <3>2. stored' = [stored EXCEPT ![obj] = [stored[obj] EXCEPT !.status = copy.status]]
      BY <2>6 DEF Accept
    <3>3. \A p \in Objects : stored'[p].status \in {copy.status, stored[p].status}
      BY <2>0, <3>1, <3>2 DEF ServerOK, ObjectType
    <3> QED
      BY <2>6, <3>1, <3>3 DEF Accept, Release, AllCoherent
  <2>7. CASE UNCHANGED <<stored, cache>> /\ Release
    BY <2>7 DEF Release, AllCoherent
  <2>8. CASE Restart
    BY <2>8 DEF Restart, Release, AllCoherent
  <2>9. CASE Tick
    <3>1. \A o \in Objects : CoherentStatus(stored'[o].status)
      BY <2>0, <2>9, AgedCoherent DEF Tick, ServerOK, AllCoherent
    <3>2. \A o \in Objects : CoherentStatus(cache'[o].status)
      BY <2>0, <2>9, AgedCoherent DEF Tick, ServerOK, AllCoherent
    <3>3. copy' # None => CoherentStatus(copy'.status)
      <4>1. copy # None => copy \in ObjectType
        BY <2>0 DEF WorkerOK
      <4> QED
        BY <2>9, <4>1, AgedCoherent DEF Tick, AllCoherent
    <3> QED
      BY <3>1, <3>2, <3>3 DEF AllCoherent
  <2>10. \/ UNCHANGED <<stored, cache>> /\ copy' = copy
         \/ UNCHANGED <<stored, cache>> /\ Release
         \/ Accept /\ pc = "write" /\ Release
         \/ UpdateStatus \/ Restart \/ Tick
         \/ \E o \in Objects : Fetch(o) \/ Deliver(o) \/ EditSpec(o)
    BY DEF Next, vars, Reconcile, GetNode, GetFails, RunChecker, WriteStatus,
           WriteConflict, WriteFails, NodeChanges, LinkChanges, server, worker
  <2> QED
    BY <2>1, <2>2, <2>3, <2>4, <2>5, <2>6, <2>7, <2>8, <2>9, <2>10
<1>3. AllCoherent => StatusCoherent
  BY DEF AllCoherent, StatusCoherent
<1> QED
  BY <1>1, <1>2, <1>3, TypeCorrect, PTL DEF Spec

----------------------------------------------------------------------------
\* The status the worker is about to write counts one check on top of the status
\* stored now, as long as the write would be accepted.  ChecksRecorded needs this
\* from the moment of updateStatus to that of the write.
Counted(s, t) ==
    /\ s.overall \in Statuses
    /\ s.failures = IF s.overall = "Unhealthy" THEN UpTo(t.failures, MaxFailures) ELSE 0
    /\ IF s.overall = t.overall THEN s.age = t.age ELSE s.age <= t.age
CountedOnce ==
    obj \in fresh /\ pc = "write" => Counted(copy.status, stored[obj].status)

\* updateStatus counts one check.
LEMMA UpdatedCounted ==
    ASSUME NEW s \in StatusType, NEW n, NEW rs
    PROVE  Counted(UpdatedStatus(s, n, rs), s)
  <1>1. s.age \in 0 .. MaxAge
    BY DEF StatusType
  <1> QED
    BY <1>1, OverallType, NodeHealthAssumption DEF UpdatedStatus, Counted

\* Time passes for the copy as for the stored status.
LEMMA AgedCounted ==
    ASSUME NEW x \in ObjectType, NEW y \in ObjectType, Counted(x.status, y.status)
    PROVE  Counted([x EXCEPT !.status = Aged(@)].status, [y EXCEPT !.status = Aged(@)].status)
  <1>1. x.status.age \in 0 .. MaxAge /\ y.status.age \in 0 .. MaxAge
    BY AgeType
  <1>2. x.status.age <= y.status.age
           => UpTo(x.status.age, MaxAge) <= UpTo(y.status.age, MaxAge)
    BY <1>1, NodeHealthAssumption DEF UpTo
  <1> QED
    BY <1>2, AgedObject DEF Counted

\* A write that would be accepted now counts one check, in every reachable state.
LEMMA CountedAlways == Spec => []CountedOnce
<1>1. Init => CountedOnce
  BY DEF Init, CountedOnce
<1>2. TypeOK /\ CopiesCurrent /\ CountedOnce /\ [Next]_vars => CountedOnce'
  <2> SUFFICES ASSUME TypeOK, CopiesCurrent, CountedOnce, [Next]_vars PROVE CountedOnce'
    OBVIOUS
  <2>0. ServerOK /\ WorkerOK
    BY DEF TypeOK
  <2>1. CASE pc' # "write"
    BY <2>1 DEF CountedOnce
  <2>2. CASE UpdateStatus
    <3>1. ASSUME obj \in fresh
          PROVE  Counted(copy'.status, stored[obj].status)
      <4>1. copy = stored[obj] /\ copy \in ObjectType /\ copy.status \in StatusType
        BY <2>0, <2>2, <3>1 DEF UpdateStatus, CopiesCurrent, WorkerOK, ObjectType
      <4>2. copy'.status = UpdatedStatus(copy.status, seen, results)
        BY <2>2, <4>1 DEF UpdateStatus, ObjectType
      <4> QED
        BY <4>1, <4>2, UpdatedCounted
    <3> QED
      BY <2>2, <3>1 DEF UpdateStatus, server, CountedOnce
  <2>3. CASE Tick
    <3>1. ASSUME obj \in fresh, pc = "write"
          PROVE  Counted(copy'.status, stored'[obj].status)
      <4>1. copy \in ObjectType /\ copy # None /\ obj \in Objects /\ stored[obj] \in ObjectType
        BY <2>0, <3>1, NoObjectIsNone, NodeHealthAssumption DEF WorkerOK, ServerOK
      <4>2. copy' = [copy EXCEPT !.status = Aged(@)]
        BY <2>3, <4>1 DEF Tick
      <4>3. stored'[obj] = [stored[obj] EXCEPT !.status = Aged(@)]
        BY <2>3, <4>1 DEF Tick
      <4> QED
        BY <3>1, <4>1, <4>2, <4>3, AgedCounted DEF CountedOnce
    <3> QED
      BY <2>3, <3>1 DEF Tick, CountedOnce
  <2>4. ASSUME NEW o \in Objects, EditSpec(o) PROVE CountedOnce'
    <3>1. \A p \in Objects \ {o} : stored'[p] = stored[p]
      BY <2>0, <2>4 DEF EditSpec, ServerOK
    <3>2. obj' \in fresh' => obj \in fresh /\ obj # o /\ obj \in Objects
      BY <2>0, <2>4 DEF EditSpec, WorkerOK
    <3> QED
      BY <2>4, <3>1, <3>2 DEF EditSpec, CountedOnce
  <2>5. CASE stored' = stored /\ UNCHANGED worker
    BY <2>5 DEF worker, CountedOnce
  <2>6. \/ pc' # "write" \/ UpdateStatus \/ Tick
        \/ \E o \in Objects : EditSpec(o)
        \/ stored' = stored /\ UNCHANGED worker
    BY DEF Next, vars, Reconcile, Fetch, Deliver, GetNode, GetFails, RunChecker, WriteStatus,
           WriteConflict, WriteFails, Restart, NodeChanges, LinkChanges, Release,
           server, worker
  <2> QED
    BY <2>1, <2>2, <2>3, <2>4, <2>5, <2>6
<1> QED
  BY <1>1, <1>2, TypeCorrect, FreshCopies, PTL DEF Spec

\* A status write the server accepts records one check.
LEMMA AcceptRecords ==
    ASSUME TypeOK, CountedOnce, pc = "write", Accept
    PROVE  HR!Record(obj, copy.status.overall) /\ copy.status.overall \in Statuses
  <1> DEFINE s == copy.status
             t == stored[obj].status
  <1>1. obj \in fresh /\ obj \in Objects /\ stored \in [Objects -> ObjectType]
    BY DEF Accept, TypeOK, WorkerOK, ServerOK
  <1>2. copy \in ObjectType /\ s.age \in 0 .. MaxAge
    BY AgeType DEF TypeOK, WorkerOK
  <1>3. Counted(s, t)
    BY <1>1 DEF CountedOnce
  <1>4. stored' = [stored EXCEPT ![obj] = [stored[obj] EXCEPT !.status = copy.status]]
    BY DEF Accept
  <1>5. stored'[obj].status = s
    BY <1>1, <1>4 DEF ObjectType
  <1>6. \A o \in Objects \ {obj} : stored'[o] = stored[o]
    BY <1>1, <1>4
  <1>7. Records' = [Records EXCEPT ![obj] = RecordOf(s)]
    BY <1>1, <1>5, <1>6 DEF Records
  <1>8. Records[obj] = [overall |-> t.overall, failures |-> t.failures, age |-> t.age]
    BY <1>1 DEF Records, RecordOf
  <1>9. RecordOf(s) =
           [overall |-> s.overall,
            failures |-> IF s.overall = "Unhealthy"
                           THEN HR!UpTo(Records[obj].failures, MaxFailures) ELSE 0,
            age |-> s.age]
    BY <1>3, <1>8 DEF Counted, RecordOf, UpTo, HR!UpTo
  <1>10. IF s.overall = Records[obj].overall THEN s.age = Records[obj].age
                                             ELSE s.age <= Records[obj].age
    BY <1>3, <1>8 DEF Counted
  <1>11. HR!Record(obj, s.overall)
    BY <1>2, <1>7, <1>9, <1>10 DEF HR!Record
  <1> QED
    BY <1>3, <1>11 DEF Counted

\* ChecksRecorded: the controller with its queue, cache, conflicts, lost answers and
\* restarts implements HealthRecord, in which checks are recorded atomically.
THEOREM Implements == Spec => ChecksRecorded
<1>1. Init => HR!Init
  <2> SUFFICES ASSUME Init PROVE HR!Init
    OBVIOUS
  <2>1. \A o \in Objects : stored[o].status = NewStatus
    BY DEF Init
  <2> QED
    BY <2>1 DEF HR!Init, Records, RecordOf, NewStatus
<1>2. TypeOK /\ CountedOnce /\ [Next]_vars => [HR!Next]_Records
  <2> SUFFICES ASSUME TypeOK, CountedOnce, [Next]_vars PROVE HR!Next \/ Records' = Records
    OBVIOUS
  <2>0. ServerOK /\ WorkerOK
    BY DEF TypeOK
  <2>1. CASE stored' = stored
    BY <2>1 DEF Records
  <2>2. CASE Accept /\ pc = "write"
    BY <2>0, <2>2, AcceptRecords DEF HR!Next, WorkerOK
  <2>3. ASSUME NEW o \in Objects, EditSpec(o) PROVE Records' = Records
    <3>1. PICK n \in Nodes, i \in Intervals :
             stored' = [stored EXCEPT
                          ![o] = [node |-> n, interval |-> i, status |-> stored[o].status]]
      BY <2>3 DEF EditSpec
    <3>2. \A p \in Objects : stored'[p].status = stored[p].status
      BY <2>0, <3>1 DEF ServerOK, ObjectType
    <3> QED
      BY <3>2 DEF Records
  <2>4. CASE Tick
    <3>1. ASSUME NEW o \in Objects
          PROVE  RecordOf(stored'[o].status) = [Records[o] EXCEPT !.age = HR!UpTo(@, MaxAge)]
      <4>1. stored'[o] = [stored[o] EXCEPT !.status = Aged(@)]
        BY <2>4 DEF Tick
      <4>2. stored[o] \in ObjectType
        BY <2>0 DEF ServerOK
      <4>3. Records[o] = RecordOf(stored[o].status)
        BY DEF Records
      <4> QED
        BY <4>1, <4>2, <4>3, AgedObject DEF RecordOf, UpTo, HR!UpTo
    <3>2. Records' = [o \in Objects |-> [Records[o] EXCEPT !.age = HR!UpTo(@, MaxAge)]]
      BY <3>1 DEF Records
    <3> QED
      BY <3>2 DEF HR!Next, HR!Tick
  <2>5. stored' = stored \/ (Accept /\ pc = "write") \/ Tick
          \/ \E o \in Objects : EditSpec(o)
    BY DEF Next, vars, Reconcile, Fetch, Deliver, GetNode, GetFails, RunChecker, UpdateStatus,
           WriteStatus, WriteConflict, WriteFails, Restart, NodeChanges, LinkChanges, server
  <2> QED
    BY <2>1, <2>2, <2>3, <2>4, <2>5
<1> QED
  BY <1>1, <1>2, TypeCorrect, CountedAlways, PTL DEF Spec, ChecksRecorded, HR!Spec

----------------------------------------------------------------------------
\* What the checkers returned so far, in their order, was found in the node that was
\* read and in the answer its port gave, and the verdict about to be written combines the three of them.
\* VerdictJustified alone is not inductive: it speaks of the end of a reconcile.
Traced ==
    /\ pc \in {"idle", "node"} => results = << >>
    /\ pc \in {"check", "write"} =>
          /\ Len(results) >= 1 => results[1] = KubeletCheck(seen)
          /\ Len(results) >= 2 => results[2] = ResourceCheck(seen)
          /\ Len(results) >= 3 => results[3] = NetworkCheck(seen, dialed)
    /\ pc = "write" =>
          Len(results) = 3 /\ copy.status.overall = GetOverallStatus(results)

\* The worst of three results.
LEMMA OverallOfThree ==
    ASSUME NEW rs \in Seq(Statuses), Len(rs) = 3
    PROVE  LET found == {rs[1], rs[2], rs[3]}
           IN  /\ found \subseteq Statuses
               /\ GetOverallStatus(rs) = "Unhealthy" <=> "Unhealthy" \in found
               /\ GetOverallStatus(rs) = "Degraded" <=>
                     "Degraded" \in found /\ "Unhealthy" \notin found
               /\ GetOverallStatus(rs) = "Unknown" <=>
                     "Unknown" \in found /\ {"Unhealthy", "Degraded"} \cap found = {}
               /\ GetOverallStatus(rs) = "Healthy" <=> found = {"Healthy"}
<1>1. DOMAIN rs = 1 .. 3 /\ rs # << >>  OBVIOUS
<1>2. Found(rs) = {rs[1], rs[2], rs[3]}  BY <1>1 DEF Found
<1>3. rs[1] \in Statuses /\ rs[2] \in Statuses /\ rs[3] \in Statuses
  <2>1. \A i \in 1 .. Len(rs) : rs[i] \in Statuses  BY SMTT(30)
  <2>2. 1 \in 1 .. Len(rs) /\ 2 \in 1 .. Len(rs) /\ 3 \in 1 .. Len(rs)  OBVIOUS
  <2> QED  BY <2>1, <2>2
<1> QED  BY <1>1, <1>2, <1>3 DEF GetOverallStatus, Statuses

\* Each checker in terms of what Failed, Strained and Undecided ask of the node.
LEMMA KubeletAnswer ==
    ASSUME seen \in FactsType
    PROVE  /\ KubeletCheck(seen) = "Unhealthy" <=> seen.ready = "False"
           /\ KubeletCheck(seen) = "Degraded" <=>
                 seen.ready = "True" /\ (seen.pressure \/ seen.heartbeat # "recent")
           /\ KubeletCheck(seen) = "Unknown" <=> seen.ready = "Missing"
<1>1. seen.ready \in {"True", "False", "Missing"} /\ seen.heartbeat \in {"recent", "stale"}
  BY DEF FactsType
<1> QED  BY <1>1 DEF KubeletCheck

LEMMA NetworkAnswer ==
    ASSUME seen \in FactsType
    PROVE  /\ NetworkCheck(seen, dialed) = "Unhealthy" <=> seen.address /\ dialed = "refused"
           /\ NetworkCheck(seen, dialed) = "Degraded" <=> seen.address /\ dialed = "slow"
           /\ NetworkCheck(seen, dialed) = "Unknown" <=> ~seen.address
<1>1. seen.address \in BOOLEAN  BY DEF FactsType
<1> QED  BY <1>1 DEF NetworkCheck

Short(r) == seen.free[r] # None /\ seen.free[r] + Threshold < 100
Scarce(r) == seen.free[r] # None /\ 10 * (100 - seen.free[r]) > 7 * Threshold

\* One resource: short implies scarce, so the levels are where the thresholds say.
LEMMA OneResource ==
    ASSUME seen \in FactsType, NEW r \in Resources
    PROVE  /\ CheckResource(seen.free[r]) = "Unhealthy" <=> Short(r)
           /\ CheckResource(seen.free[r]) = "Degraded" <=> Scarce(r) /\ ~Short(r)
<1>1. seen.free[r] \in (0 .. 100) \cup {None} /\ Threshold \in 0 .. 100
  BY NodeHealthAssumption DEF FactsType
<1>2. CASE seen.free[r] = None
  BY <1>2 DEF CheckResource, Short, Scarce
<1>3. CASE seen.free[r] # None
  <2>1. PICK f \in 0 .. 100 : f = seen.free[r]
    BY <1>1, <1>3
  <2>2. f # None
    BY <1>3, <2>1
  <2>3. /\ f < 100 - Threshold <=> f + Threshold < 100
        /\ f >= 100 - Threshold <=> ~(f + Threshold < 100)
        /\ 10 * f < 1000 - 7 * Threshold <=> 10 * (100 - f) > 7 * Threshold
    BY <1>1
  <2>4. /\ Short(r) <=> f < 100 - Threshold
        /\ Scarce(r) /\ ~Short(r) <=>
              f >= 100 - Threshold /\ 10 * f < 1000 - 7 * Threshold
    BY <1>3, <2>1, <2>3 DEF Short, Scarce
  <2>5. /\ CheckResource(f) = "Unhealthy" <=> f < 100 - Threshold
        /\ CheckResource(f) = "Degraded" <=>
              f >= 100 - Threshold /\ 10 * f < 1000 - 7 * Threshold
    <3> DEFINE low == f < 100 - Threshold
               mid == f >= 100 - Threshold /\ 10 * f < 1000 - 7 * Threshold
    <3>1. ~(low /\ mid)
      BY <1>1
    <3>2. CheckResource(f) = CASE low -> "Unhealthy" [] mid -> "Degraded" [] OTHER -> "Healthy"
      <4>1. ~(f = None)
        BY <2>2
      <4>2. /\ f # None /\ f < 100 - Threshold <=> low
            /\ f # None /\ f >= 100 - Threshold /\ 10 * f < 1000 - 7 * Threshold <=> mid
        BY <4>1
      <4> HIDE DEF low, mid
      <4> QED
        BY <4>1, <4>2 DEF CheckResource
    <3> HIDE DEF low, mid
    <3>3. /\ CheckResource(f) = "Unhealthy" <=> low
          /\ CheckResource(f) = "Degraded" <=> mid
      BY <3>1, <3>2
    <3> QED
      BY <3>3 DEF low, mid
  <2> QED
    BY <2>1, <2>4, <2>5
<1> QED
  BY <1>2, <1>3

LEMMA ResourceAnswer ==
    ASSUME seen \in FactsType
    PROVE  /\ ResourceCheck(seen) = "Unhealthy" <=> \E r \in Resources : Short(r)
           /\ ResourceCheck(seen) = "Degraded" <=>
                 /\ \E r \in Resources : Scarce(r)
                 /\ ~ \E r \in Resources : Short(r)
           /\ ResourceCheck(seen) # "Unknown"
<1> DEFINE found == {CheckResource(seen.free[r]) : r \in Resources}
<1>1. "Unhealthy" \in found <=> \E r \in Resources : Short(r)
  BY OneResource
<1>2. (~ \E r \in Resources : Short(r)) =>
         ("Degraded" \in found <=> \E r \in Resources : Scarce(r))
  BY OneResource
<1> QED
  BY <1>1, <1>2 DEF ResourceCheck

\* VerdictJustified: the verdict about to be written can be traced to the node.
THEOREM Justified == Spec => []VerdictJustified
<1>1. Init => Traced
  BY DEF Init, Traced
<1>2. TypeOK /\ Traced /\ [Next]_vars => Traced'
  <2> SUFFICES ASSUME TypeOK, Traced, [Next]_vars PROVE Traced'
    OBVIOUS
  <2>0. EnvironmentOK /\ WorkerOK
    BY DEF TypeOK
  <2>1. CASE UNCHANGED <<pc, copy, seen, dialed, results>>
    BY <2>1 DEF Traced
  <2>2. CASE pc' = "idle" /\ results' = << >>
    BY <2>2 DEF Traced
  <2>3. ASSUME NEW o \in Objects, Fetch(o) PROVE Traced'
    BY <2>3 DEF Fetch, Traced
  <2>4. CASE pc = "node" /\ pc' = "check" /\ results' = results
    <3>1. results' = << >>
      BY <2>4 DEF Traced
    <3>2. Len(results') = 0
      BY <3>1
    <3> QED
      BY <2>4, <3>2 DEF Traced
  <2>5. CASE RunChecker
    <3>0. Checkers[1] = "kubelet" /\ Checkers[2] = "resource" /\ Checkers[3] = "network"
      BY DEF Checkers
    <3>1. /\ pc = "check" /\ pc' = "check" /\ seen' = seen
          /\ results \in Seq(Statuses) /\ Len(results) \in 0 .. 2
      <4>1. results \in Seq(Statuses) /\ Len(results) < Len(Checkers)
        BY <2>0, <2>5 DEF RunChecker, WorkerOK
      <4>2. Len(results) \in Nat
        BY <4>1
      <4>n. Len(Checkers) = 3
        BY DEF Checkers
      <4>3. Len(results) \in 0 .. 2
        <5>1. PICK k : k = Len(results)
          OBVIOUS
        <5>2. k \in Nat /\ k < 3
          BY <4>1, <4>2, <4>n, <5>1
        <5>3. k \in 0 .. 2
          BY <5>2
        <5> QED
          BY <5>1, <5>3, Zenon
      <4> QED
        BY <2>5, <4>1, <4>3 DEF RunChecker
    <3>2. PICK answer :
             /\ answer = link[copy.node]
             /\ results' = Append(results, Check(Checkers[Len(results) + 1], seen, answer))
      BY <2>5 DEF RunChecker
    <3>3. PICK r : r = Check(Checkers[Len(results) + 1], seen, answer)
      OBVIOUS
    <3>4. /\ Len(results) = 0 => r = KubeletCheck(seen)
          /\ Len(results) = 1 => r = ResourceCheck(seen)
          /\ Len(results) = 2 => r = NetworkCheck(seen, answer)
      <4>1. Len(results) = 0 => r = Check(Checkers[1], seen, answer)
        BY <3>3
      <4>2. Len(results) = 1 => r = Check(Checkers[2], seen, answer)
        BY <3>3
      <4>3. Len(results) = 2 => r = Check(Checkers[3], seen, answer)
        BY <3>3
      <4>4. /\ Check(Checkers[1], seen, answer) = KubeletCheck(seen)
            /\ Check(Checkers[2], seen, answer) = ResourceCheck(seen)
            /\ Check(Checkers[3], seen, answer) = NetworkCheck(seen, answer)
        BY <3>0 DEF Check
      <4> QED
        BY <4>1, <4>2, <4>3, <4>4
    <3>5. /\ Len(results') = Len(results) + 1
          /\ \A i \in 1 .. Len(results) : results'[i] = results[i]
          /\ results'[Len(results) + 1] = r
      BY <3>1, <3>2, <3>3
    <3>6. CASE Len(results) = 0
      BY <3>1, <3>4, <3>5, <3>6 DEF Traced
    <3>7. CASE Len(results) = 1
      BY <3>1, <3>4, <3>5, <3>7 DEF Traced
    <3>8. CASE Len(results) = 2
      <4>1. seen.address => dialed' = answer
        BY <2>5, <3>0, <3>2, <3>8 DEF RunChecker
      <4>2. NetworkCheck(seen, answer) = NetworkCheck(seen, dialed')
        BY <4>1 DEF NetworkCheck
      <4> QED
        BY <3>1, <3>4, <3>5, <3>8, <4>2 DEF Traced
    <3> QED
      BY <3>1, <3>6, <3>7, <3>8
  <2>6. CASE UpdateStatus
    <3>1. /\ pc = "check" /\ pc' = "write" /\ UNCHANGED <<seen, dialed, results>>
          /\ Len(results) = 3 /\ copy \in ObjectType
      BY <2>0, <2>6 DEF UpdateStatus, WorkerOK, Checkers
    <3>2. copy'.status = UpdatedStatus(copy.status, seen, results)
      BY <2>6, <3>1 DEF UpdateStatus, ObjectType
    <3>3. copy'.status.overall = GetOverallStatus(results)
      BY <3>2 DEF UpdatedStatus
    <3> QED
      BY <3>1, <3>3 DEF Traced
  <2>7. CASE Tick
    <3>1. UNCHANGED <<pc, seen, dialed, results>>
      BY <2>7 DEF Tick
    <3>2. pc = "write" => copy'.status.overall = copy.status.overall
      <4>1. pc = "write" => copy \in ObjectType /\ copy # None
        BY <2>0, NoObjectIsNone DEF WorkerOK
      <4> QED
        BY <2>7, <4>1, AgedObject DEF Tick
    <3> QED
      BY <3>1, <3>2 DEF Traced
  <2>8. \/ UNCHANGED <<pc, copy, seen, dialed, results>>
        \/ pc' = "idle" /\ results' = << >>
        \/ pc = "node" /\ pc' = "check" /\ results' = results
        \/ RunChecker \/ UpdateStatus \/ Tick
        \/ \E o \in Objects : Fetch(o)
    BY DEF Next, vars, Reconcile, GetNode, GetFails, WriteStatus, WriteConflict, WriteFails, Restart,
           NodeChanges, LinkChanges, Deliver, EditSpec, Release, worker
  <2> QED
    BY <2>1, <2>2, <2>3, <2>4, <2>5, <2>6, <2>7, <2>8
<1>3. TypeOK /\ Traced => VerdictJustified
  <2> SUFFICES ASSUME TypeOK, Traced, pc = "write" PROVE VerdictJustified
    BY DEF VerdictJustified
  <2>1. /\ results \in Seq(Statuses) /\ Len(results) = 3
        /\ copy.status.overall = GetOverallStatus(results)
        /\ results[1] = KubeletCheck(seen) /\ results[2] = ResourceCheck(seen)
        /\ results[3] = NetworkCheck(seen, dialed)
    <3>1. results \in Seq(Statuses)
      BY DEF TypeOK, WorkerOK
    <3>2. Len(results) = 3 /\ copy.status.overall = GetOverallStatus(results)
      BY DEF Traced
    <3>3. /\ Len(results) >= 1 => results[1] = KubeletCheck(seen)
          /\ Len(results) >= 2 => results[2] = ResourceCheck(seen)
          /\ Len(results) >= 3 => results[3] = NetworkCheck(seen, dialed)
      BY DEF Traced
    <3> QED
      BY <3>1, <3>2, <3>3
  <2>2. seen \in FactsType
    BY NodeHealthAssumption DEF TypeOK, WorkerOK
  <2> DEFINE k == KubeletCheck(seen)
             s == ResourceCheck(seen)
             n == NetworkCheck(seen, dialed)
             verdict == copy.status.overall
  <2>3. Failed <=> "Unhealthy" \in {k, s, n}
    BY <2>2, KubeletAnswer, ResourceAnswer, NetworkAnswer DEF Failed, Short
  <2>4. ~Failed => (Strained <=> "Degraded" \in {k, s, n})
    BY <2>2, KubeletAnswer, ResourceAnswer, NetworkAnswer DEF Failed, Strained, Short, Scarce
  <2>5. Undecided <=> "Unknown" \in {k, s, n}
    BY <2>2, KubeletAnswer, ResourceAnswer, NetworkAnswer DEF Undecided
  <2>6. /\ {k, s, n} \subseteq Statuses
        /\ verdict = "Unhealthy" <=> "Unhealthy" \in {k, s, n}
        /\ verdict = "Degraded" <=> "Degraded" \in {k, s, n} /\ "Unhealthy" \notin {k, s, n}
        /\ verdict = "Unknown" <=>
              "Unknown" \in {k, s, n} /\ {"Unhealthy", "Degraded"} \cap {k, s, n} = {}
        /\ verdict = "Healthy" <=> {k, s, n} = {"Healthy"}
    BY <2>1, OverallOfThree
  <2>7. verdict = "Unhealthy" <=> Failed
    BY <2>3, <2>6
  <2>8. verdict = "Degraded" <=> Strained /\ ~Failed
    BY <2>3, <2>4, <2>6
  <2>9. verdict = "Unknown" <=> Undecided /\ ~Strained /\ ~Failed
    BY <2>3, <2>4, <2>5, <2>6
  <2>10. verdict = "Healthy" <=> ~Undecided /\ ~Strained /\ ~Failed
    BY <2>3, <2>4, <2>5, <2>6 DEF Statuses
  <2> QED
    BY <2>7, <2>8, <2>9, <2>10 DEF VerdictJustified
<1> QED
  BY <1>1, <1>2, <1>3, TypeCorrect, PTL DEF Spec

=============================================================================
