----------------------------- MODULE HealthRecord -----------------------------
(***************************************************************************)
(* What the NodeHealthStatus controller promises to those who read its     *)
(* objects, such as the failover policies: each object carries the record  *)
(* of one check after the other.  There is no queue here, no cache, no     *)
(* copy, no conflict and no crash; a check is recorded in one step, on top *)
(* of the record that is there.  NodeHealth implements this specification. *)
(***************************************************************************)
EXTENDS Integers

CONSTANTS
    Objects,      \* the NodeHealthStatus objects
    Verdicts,     \* what a check may come to
    MaxFailures,  \* bound: ConsecutiveFailures saturates here
    MaxAge        \* bound: the age of LastTransitionTime saturates here

VARIABLE
    records  \* records[o]: [overall, failures, age]

UpTo(n, bound) == IF n < bound THEN n + 1 ELSE bound

Init == records = [o \in Objects |-> [overall |-> "unset", failures |-> 0, age |-> MaxAge]]

\* One more check of o came to this verdict.  It is Unhealthy once more, or the
\* count starts again; the transition time is kept if it is the verdict there was,
\* and otherwise moves to a moment not before the last transition.
Record(o, verdict) ==
    \E age \in 0 .. MaxAge :
       /\ IF verdict = records[o].overall THEN age = records[o].age
                                          ELSE age <= records[o].age
       /\ records' = [records EXCEPT ![o] =
             [overall |-> verdict,
              failures |-> IF verdict = "Unhealthy"
                             THEN UpTo(records[o].failures, MaxFailures) ELSE 0,
              age |-> age]]

\* Time passes.
Tick == records' = [o \in Objects |->
                       [records[o] EXCEPT !.age = UpTo(@, MaxAge)]]

Next == Tick \/ \E o \in Objects, v \in Verdicts : Record(o, v)

Spec == Init /\ [][Next]_records

=============================================================================
