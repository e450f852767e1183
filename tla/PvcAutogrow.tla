----------------------------- MODULE PvcAutogrow -----------------------------
(***************************************************************************)
(* The job of deployments/examples/autoscaling/pvc-autogrow-cronjob.yaml   *)
(* that enlarges volumes which fill up.  Every ten minutes it lists the    *)
(* claims once and goes through them; of each it reads the usage and may   *)
(* ask for more.  Meanwhile users enlarge claims too, and the file systems *)
(* follow the requests later.                                              *)
(*                                                                         *)
(* Sizes are whole MiB.  Claims that do not opt in are left out, and those *)
(* whose annotations are wrong: they are skipped.                          *)
(***************************************************************************)
EXTENDS Integers, TLAPS

CONSTANTS
    Claims,     \* claims that opt in
    MaxSize, MinGrowth, Threshold, Growth, Headroom,  \* their annotations, by claim
    None

VARIABLES
    request,   \* request[c]: the size asked for
    capacity,  \* capacity[c]: the size of the file system, 0 when nobody reports it
    used,      \* used[c]: how much of it is used
    usable,    \* usable[c]: bound, in a storage class that can be enlarged
    todo,      \* the claims the running job has not looked at
    listed     \* the requests as it listed them, None between two jobs

vars == <<request, capacity, used, usable, todo, listed>>

AtLeast(a, b) == IF a < b THEN b ELSE a
AtMost(a, b) == IF a < b THEN a ELSE b

\* format_quantity: from 1Gi on, whole Gi are rounded up to.
Formatted(size) ==
    IF size >= 1024 THEN ((size + 1023) \div 1024) * 1024 ELSE AtLeast(1, size)

\* The size wanted for c, given what was listed.
Target(c) ==
    AtMost(MaxSize[c],
           AtLeast(AtLeast((listed[c] * (100 + Growth[c])) \div 100,
                           (used[c] * (100 + Headroom[c])) \div 100),
                   listed[c] + MinGrowth[c]))

Init ==
    /\ request \in [Claims -> Nat \ {0}]
    /\ capacity \in [Claims -> Nat]
    /\ used \in [Claims -> Nat]
    /\ usable \in [Claims -> BOOLEAN]
    /\ todo = {}
    /\ listed = None

\* The cron job starts a job unless one is running.
Start ==
    /\ listed = None
    /\ listed' = request
    /\ todo' = Claims
    /\ UNCHANGED <<request, capacity, used, usable>>

\* A claim that cannot be enlarged, is not reported, not full enough or at its
\* maximum is passed over.
Full(c) == capacity[c] > 0 /\ 100 * used[c] >= Threshold[c] * capacity[c]
Grows(c) == usable[c] /\ Full(c) /\ Target(c) > listed[c]

\* A patch does not fail on an outdated copy, but the API server refuses to make a
\* request smaller.  A patch that fails, for this or another reason, is only logged.
Look(c) ==
    /\ c \in todo
    /\ todo' = todo \ {c}
    /\ \/ /\ Grows(c)
          /\ Formatted(Target(c)) >= request[c]
          /\ request' = [request EXCEPT ![c] = Formatted(Target(c))]
       \/ UNCHANGED request
    /\ UNCHANGED <<capacity, used, usable, listed>>

\* It is done, or one of the queries of storage class and usage raised an error that
\* nothing catches, and the remaining claims are left for the next job.
Finish ==
    /\ listed # None
    /\ listed' = None
    /\ todo' = {}
    /\ UNCHANGED <<request, capacity, used, usable>>

\* Users enlarge requests; file systems follow, and fill up or empty.
UserGrows(c) ==
    /\ \E size \in Nat : size > request[c] /\ request' = [request EXCEPT ![c] = size]
    /\ UNCHANGED <<capacity, used, usable, todo, listed>>
VolumesChange ==
    /\ capacity' \in [Claims -> Nat] /\ used' \in [Claims -> Nat]
    /\ usable' \in [Claims -> BOOLEAN]
    /\ UNCHANGED <<request, todo, listed>>

Next ==
    \/ Start \/ Finish
    \/ VolumesChange
    \/ \E c \in Claims : Look(c) \/ UserGrows(c)

Spec == Init /\ [][Next]_vars

----------------------------------------------------------------------------
\* What the annotations may hold: any numbers.
Annotated ==
    /\ MaxSize \in [Claims -> Int] /\ MinGrowth \in [Claims -> Int]
    /\ Threshold \in [Claims -> Int]
    /\ Growth \in [Claims -> Int] /\ Headroom \in [Claims -> Int]
    /\ None \notin [Claims -> Nat \ {0}]

TypeOK ==
    /\ request \in [Claims -> Nat \ {0}]
    /\ capacity \in [Claims -> Nat] /\ used \in [Claims -> Nat]
    /\ usable \in [Claims -> BOOLEAN]
    /\ todo \subseteq Claims
    /\ IF listed = None THEN todo = {} ELSE listed \in [Claims -> Nat \ {0}]

\* The job never makes a claim smaller, though it goes by a list that may be outdated
\* and a usage that lags behind.  What it asks for exceeds the maximum the claim
\* allows by less than one Gi: the cap comes before the rounding to whole Gi.
GrowthBounded ==
    [][\A c \in Claims :
          todo' = todo \ {c} /\ todo' # todo /\ request'[c] # request[c] /\ listed' # None
             => request'[c] \in request[c] + 1 .. MaxSize[c] + 1023]_vars

\* Rounding adds less than one Gi, and nothing below one.
LEMMA FormattedBound ==
    ASSUME NEW a \in Nat \ {0}
    PROVE  Formatted(a) \in a .. a + 1023
  BY DEF Formatted, AtLeast

\* The target is a number, and the maximum caps it.
LEMMA TargetCapped ==
    ASSUME Annotated, TypeOK, NEW c \in todo
    PROVE  Target(c) \in Int /\ Target(c) <= MaxSize[c]
  <1>1. /\ c \in Claims /\ listed[c] \in Nat /\ used[c] \in Nat
        /\ MaxSize[c] \in Int /\ MinGrowth[c] \in Int
        /\ Growth[c] \in Int /\ Headroom[c] \in Int
    BY DEF Annotated, TypeOK
  <1>2. \A x, y \in Int : x * y \in Int
    OBVIOUS
  <1>3. /\ listed[c] * (100 + Growth[c]) \in Int
        /\ used[c] * (100 + Headroom[c]) \in Int
    BY <1>1, <1>2
  <1>4. \A x \in Int : x \div 100 \in Int
    OBVIOUS
  <1>5. /\ (listed[c] * (100 + Growth[c])) \div 100 \in Int
        /\ (used[c] * (100 + Headroom[c])) \div 100 \in Int
    BY <1>3, <1>4
  <1> QED
    BY <1>1, <1>5 DEF Target, AtLeast, AtMost

\* The variables keep their types: a request that is raised is a positive number.
LEMMA TypeCorrect == ASSUME Annotated PROVE Spec => []TypeOK
<1>1. Init => TypeOK
  BY DEF Init, TypeOK
<1>2. TypeOK /\ [Next]_vars => TypeOK'
  <2> SUFFICES ASSUME TypeOK, [Next]_vars PROVE TypeOK'
    OBVIOUS
  <2>1. CASE Start
    BY <2>1, Annotated DEF Start, TypeOK, Annotated
  <2>2. CASE Finish
    BY <2>2 DEF Finish, TypeOK
  <2>3. CASE VolumesChange
    BY <2>3 DEF VolumesChange, TypeOK
  <2>4. ASSUME NEW c \in Claims, Look(c) PROVE TypeOK'
    <3>1. request' \in [Claims -> Nat \ {0}]
      <4>1. CASE UNCHANGED request
        BY <4>1 DEF TypeOK
      <4>2. CASE /\ Formatted(Target(c)) >= request[c] /\ Grows(c)
                 /\ request' = [request EXCEPT ![c] = Formatted(Target(c))]
        <5>1. Target(c) \in Nat \ {0}
          BY <2>4, <4>2, Annotated, TargetCapped DEF Look, Grows, TypeOK
        <5>2. Formatted(Target(c)) \in Nat \ {0}
          BY <5>1, FormattedBound
        <5> QED
          BY <4>2, <5>2 DEF TypeOK
      <4> QED
        BY <2>4, <4>1, <4>2 DEF Look
    <3> QED
      BY <2>4, <3>1 DEF Look, TypeOK
  <2>5. ASSUME NEW c \in Claims, UserGrows(c) PROVE TypeOK'
    BY <2>5 DEF UserGrows, TypeOK
  <2>6. CASE UNCHANGED vars
    BY <2>6 DEF vars, TypeOK
  <2> QED
    BY <2>1, <2>2, <2>3, <2>4, <2>5, <2>6 DEF Next
<1> QED
  BY <1>1, <1>2, PTL DEF Spec

\* GrowthBounded holds for any number of claims and any annotations.
THEOREM GrowthIsBounded == ASSUME Annotated PROVE Spec => GrowthBounded
<1> DEFINE Bounded == \A c \in Claims :
              todo' = todo \ {c} /\ todo' # todo /\ request'[c] # request[c] /\ listed' # None
                 => request'[c] \in request[c] + 1 .. MaxSize[c] + 1023
<1>1. TypeOK /\ [Next]_vars => [Bounded]_vars
  <2> SUFFICES ASSUME TypeOK, Next, NEW c \in Claims, todo' = todo \ {c}, todo' # todo,
                      request'[c] # request[c], listed' # None
               PROVE  request'[c] \in request[c] + 1 .. MaxSize[c] + 1023
    OBVIOUS
  <2>1. PICK d \in Claims : Look(d)
    BY DEF Next, Start, Finish, VolumesChange, UserGrows
  <2>2. d = c /\ c \in todo
    BY <2>1 DEF Look
  <2>3. /\ Grows(c) /\ Formatted(Target(c)) >= request[c]
        /\ request' = [request EXCEPT ![c] = Formatted(Target(c))]
    BY <2>1, <2>2 DEF Look
  <2>4. /\ request[c] \in Nat /\ MaxSize[c] \in Int /\ listed[c] \in Nat
        /\ request'[c] = Formatted(Target(c))
    BY <2>2, <2>3, Annotated DEF TypeOK, Annotated
  <2>5. Target(c) \in Nat \ {0} /\ Target(c) <= MaxSize[c]
    BY <2>2, <2>3, <2>4, Annotated, TargetCapped DEF Grows
  <2>6. Formatted(Target(c)) \in Target(c) .. Target(c) + 1023
    BY <2>5, FormattedBound
  <2> QED
    BY <2>3, <2>4, <2>5, <2>6
<1> QED
  BY <1>1, TypeCorrect, Annotated, PTL DEF Spec, GrowthBounded

=============================================================================
