------------------------ MODULE VirtualTimersProofs ------------------------
(***************************************************************************)
(* Proofs about VirtualTimers, for every set of callbacks, tasks and        *)
(* targets and every combination of habits of an application.               *)
(***************************************************************************)
EXTENDS VirtualTimers, FiniteSetTheorems, SequenceTheorems, TLAPS

Injective(s) == \A j, k \in DOMAIN s : s[j] = s[k] => j = k

-----------------------------------------------------------------------------
(* The operations on lists. *)

LEMMA KeptProperties ==
  ASSUME NEW T, NEW s \in Seq(T), NEW S
  PROVE  /\ Kept(s, S) \in Seq(T)
         /\ ToSet(Kept(s, S)) = ToSet(s) \cap S
         /\ Injective(s) => Injective(Kept(s, S))
<1> DEFINE I        == {k \in DOMAIN s : s[k] \in S}
           n        == Cardinality(I)
           Below(j) == {h \in I : h <= j}
           Nth(k)   == CHOOSE j \in I : Cardinality(Below(j)) = k
           rank     == [j \in I |-> Cardinality(Below(j))]
<1>1. /\ Len(s) \in Nat /\ DOMAIN s = 1..Len(s) /\ \A k \in 1..Len(s) : s[k] \in T
  BY LenProperties, ElementOfSeq
<1>2. I \subseteq 1..Len(s) /\ I \subseteq Int /\ IsFiniteSet(I) /\ n \in Nat
  <2>1. IsFiniteSet(1..Len(s)) /\ I \subseteq 1..Len(s)
    BY <1>1, FS_Interval
  <2>2. IsFiniteSet(I)
    BY <2>1, FS_Subset
  <2> QED BY <2>1, <2>2, FS_CardinalityType
<1>3. ASSUME NEW j \in I
      PROVE  /\ IsFiniteSet(Below(j))
             /\ Cardinality(Below(j)) \in 1..n /\ Cardinality(Below(j)) \in Int
  <2>1. Below(j) \subseteq I /\ Below(j) # {}
    BY <1>2
  <2>2. IsFiniteSet(Below(j)) /\ Cardinality(Below(j)) <= n
    BY <1>2, <2>1, FS_Subset
  <2>3. Cardinality(Below(j)) # 0 /\ Cardinality(Below(j)) \in Nat
    BY <2>1, <2>2, FS_EmptySet, FS_CardinalityType
  <2> QED BY <1>2, <2>2, <2>3
<1>4. ASSUME NEW j \in I, NEW k \in I, j < k
      PROVE  Cardinality(Below(j)) < Cardinality(Below(k))
  <2>1. Below(j) \subseteq Below(k) /\ k \in Below(k) /\ k \notin Below(j)
    BY <1>2, <1>4
  <2>2. Cardinality(Below(j)) <= Cardinality(Below(k)) /\ Cardinality(Below(j)) # Cardinality(Below(k))
    BY <1>3, <2>1, FS_Subset
  <2>3. Cardinality(Below(j)) \in Int /\ Cardinality(Below(k)) \in Int
    BY <1>3
  <2> DEFINE a == Cardinality(Below(j))
             b == Cardinality(Below(k))
  <2> HIDE DEF a, b
  <2>4. a \in Int /\ b \in Int /\ a <= b /\ a # b
    BY <2>2, <2>3 DEF a, b
  <2>5. a < b
    BY <2>4
  <2> QED BY <2>5 DEF a, b
<1>5. ASSUME NEW j \in I, NEW k \in I, Cardinality(Below(j)) = Cardinality(Below(k))
      PROVE  j = k
  <2>1. ~(j < k) /\ ~(k < j)
    <3>1. j < k => Cardinality(Below(j)) < Cardinality(Below(k))
      BY <1>4
    <3>2. k < j => Cardinality(Below(k)) < Cardinality(Below(j))
      BY <1>4
    <3>3. Cardinality(Below(j)) \in Int /\ Cardinality(Below(k)) \in Int
      BY <1>3
    <3> DEFINE a == Cardinality(Below(j))
               b == Cardinality(Below(k))
    <3> HIDE DEF a, b
    <3>4. a \in Int /\ b \in Int /\ a = b /\ (j < k => a < b) /\ (k < j => b < a)
      BY <1>5, <3>1, <3>2, <3>3 DEF a, b
    <3> QED BY <3>4
  <2> QED BY <1>2, <2>1
<1>6. ASSUME NEW k \in 1..n
      PROVE  \E j \in I : Cardinality(Below(j)) = k
  <2>1. rank \in [I -> 1..n]
    BY <1>3
  <2>2. \A j, h \in I : rank[j] = rank[h] => j = h
    BY <1>5
  <2>3. rank \in Injection(I, 1..n)
    BY <2>1, <2>2 DEF Injection, IsInjective
  <2>4. IsFiniteSet(1..n) /\ Cardinality(1..n) = n
    BY <1>2, FS_Interval
  <2>5. rank \in Surjection(I, 1..n)
    BY <2>3, <2>4, FS_Injection
  <2>6. \E j \in I : rank[j] = k
    BY <2>5 DEF Surjection
  <2> QED BY <2>6
<1>7. ASSUME NEW k \in 1..n
      PROVE  Nth(k) \in I /\ Cardinality(Below(Nth(k))) = k
  BY <1>6
<1>8. Kept(s, S) = [k \in 1..n |-> s[Nth(k)]]
  BY DEF Kept
<1> HIDE DEF I, n, Below, Nth, rank
<1>9. \A k \in 1..n : s[Nth(k)] \in T
  BY <1>1, <1>2, <1>7
<1>10. Kept(s, S) \in Seq(T)
  BY <1>2, <1>8, <1>9, IsASeq
<1>11. ToSet(Kept(s, S)) = ToSet(s) \cap S
  <2>1. ASSUME NEW d \in ToSet(Kept(s, S)) PROVE d \in ToSet(s) /\ d \in S
    <3>1. PICK k \in 1..n : d = s[Nth(k)]
      BY <1>8, <2>1 DEF ToSet
    <3> QED BY <1>7, <3>1 DEF I, ToSet
  <2>2. ASSUME NEW d \in ToSet(s), d \in S PROVE d \in ToSet(Kept(s, S))
    <3>1. PICK j \in DOMAIN s : d = s[j]
      BY <2>2 DEF ToSet
    <3>2. j \in I
      BY <2>2, <3>1 DEF I
    <3> DEFINE k == Cardinality(Below(j))
    <3>3. k \in 1..n
      BY <1>3, <3>2
    <3>4. Nth(k) = j
      BY <1>5, <1>7, <3>2, <3>3
    <3> QED BY <1>8, <3>1, <3>3, <3>4 DEF ToSet
  <2> QED BY <2>1, <2>2
<1>12. Injective(s) => Injective(Kept(s, S))
  <2> SUFFICES ASSUME Injective(s), NEW j \in 1..n, NEW k \in 1..n, s[Nth(j)] = s[Nth(k)]
               PROVE  j = k
    BY <1>8 DEF Injective
  <2>1. Nth(j) \in DOMAIN s /\ Nth(k) \in DOMAIN s
    BY <1>7 DEF I
  <2>2. Nth(j) = Nth(k)
    BY <2>1 DEF Injective
  <2> QED BY <1>7, <2>2
<1> QED BY <1>10, <1>11, <1>12

LEMMA OneMore ==
  ASSUME NEW n \in Nat, NEW s, NEW r, NEW d, DOMAIN s = 1..n, DOMAIN r = 1..(n + 1),
         \A k \in 1..n : r[k] = s[k], r[n + 1] = d
  PROVE  /\ ToSet(r) = ToSet(s) \cup {d}
         /\ Injective(s) /\ d \notin ToSet(s) => Injective(r)
<1>1. \A k \in 1..(n + 1) : k \in 1..n \/ k = n + 1
  OBVIOUS
<1>2. 1..n \subseteq 1..(n + 1) /\ n + 1 \in 1..(n + 1)
  OBVIOUS
<1>3. ToSet(r) = ToSet(s) \cup {d}
  BY <1>1, <1>2, Zenon DEF ToSet
<1>4. Injective(s) /\ d \notin ToSet(s) => Injective(r)
  BY <1>1, <1>2, Zenon DEF Injective, ToSet
<1> QED BY <1>3, <1>4

LEMMA AppendItems ==
  ASSUME NEW T, NEW s \in Seq(T), NEW d \in T
  PROVE  /\ Append(s, d) \in Seq(T) /\ Len(Append(s, d)) = Len(s) + 1 /\ Len(s) \in Nat
         /\ DOMAIN s = 1..Len(s) /\ DOMAIN Append(s, d) = 1..(Len(s) + 1)
         /\ \A k \in 1..Len(s) : Append(s, d)[k] = s[k]
         /\ Append(s, d)[Len(s) + 1] = d
  OBVIOUS

LEMMA AppendSet ==
  ASSUME NEW T, NEW s \in Seq(T), NEW d \in T
  PROVE  /\ ToSet(Append(s, d)) = ToSet(s) \cup {d}
         /\ Injective(s) /\ d \notin ToSet(s) => Injective(Append(s, d))
<1>1. /\ Len(s) \in Nat /\ DOMAIN s = 1..Len(s) /\ DOMAIN Append(s, d) = 1..(Len(s) + 1)
      /\ \A k \in 1..Len(s) : Append(s, d)[k] = s[k]
      /\ Append(s, d)[Len(s) + 1] = d
  BY AppendItems
<1> QED BY <1>1, OneMore, Zenon

LEMMA ElementsOf ==
  ASSUME NEW s \in Seq(Items)
  PROVE  /\ Len(s) \in Nat /\ DOMAIN s = 1..Len(s)
         /\ \A k \in 1..Len(s) : s[k] \in Items /\ s[k] \in ToSet(s)
         /\ \A d \in ToSet(s) : d \in Items /\ \E k \in 1..Len(s) : d = s[k]
  BY LenProperties, ElementOfSeq DEF ToSet

LEMMA Bounds ==
  /\ MaxTarget \in Nat /\ MaxTarget \in Targets /\ PosCap = MaxTarget + 2 /\ PosCap \in Nat
  /\ \A t \in Targets : t \in Nat /\ t <= MaxTarget
<1>1. MaxTarget \in Targets /\ \A t \in Targets : t <= MaxTarget
  BY ConstantAssumption DEF MaxTarget
<1>2. Targets \subseteq Nat
  BY ConstantAssumption
<1>3. PosCap = MaxTarget + 2
  BY <1>1, <1>2 DEF PosCap, period
<1> QED BY <1>1, <1>2, <1>3

-----------------------------------------------------------------------------
(***************************************************************************)
(* The inductive invariant.                                                 *)
(***************************************************************************)
Task == [cb : Callbacks \cup {"none"}, pos : -1..PosCap, target : -1..MaxTarget]

TickType == [at : {"idle", "loop", "cb", "called"}, i : Nat, n : Nat, task : SUBSET Items]

MainType == [at : {"idle", "search", "collect", "update"}, cb : Callbacks \cup {"none"},
             i : Nat, n : Nat, list : Seq(Items), same : BOOLEAN]

Shape ==
  /\ app \in Apps
  /\ item \in [Items -> Task]
  /\ sched \in Seq(Items)
  /\ tick \in TickType
  /\ main \in MainType
  /\ alive \subseteq Items
  /\ tick.at # "idle" => 1 <= tick.i
  /\ main.at \in {"search", "update"} => 1 <= main.i

Deletes == "delete" \in app
Silent  == "none" \in app
InCall  == tick.at \in {"cb", "called"}

\* delete() collects from the list it has found, which is the current one until a tick
\* binds another; and no list has a task twice.
ListOK ==
  /\ main.same => main.at = "collect" /\ main.list = sched
  /\ main.at # "collect" => main.list = <<>>
  /\ Injective(sched) /\ Injective(main.list)

\* Without callbacks that delete, the list only grows during a tick: the index stays
\* inside and on the task that was called.
RangeOK ==
  ~Deletes /\ tick.at # "idle" =>
    /\ tick.n <= Len(sched)
    /\ InCall => tick.i <= tick.n /\ tick.task = {sched[tick.i]}

\* Only the task that is being called is beyond its target.
TimingOK ==
  ~Deletes /\ ~Silent => \A d \in Items :
    item[d].pos <= item[d].target + (IF InCall /\ d \in tick.task THEN 1 ELSE 0)

\* Which tasks have ended: none if none does, and otherwise only tasks that this tick
\* has passed, unless the main program deletes or a tick may end early.
EndedOK ==
  /\ "end" \notin app => \A d \in Items : item[d].pos >= 0
  /\ "main" \notin app => main.at \in {"idle", "update"}
  /\ ~Deletes /\ ~Silent /\ "main" \notin app =>
       \A k \in 1..Len(sched) : tick.at = "idle" \/ tick.i <= k => item[sched[k]].pos >= 0

\* The live tasks are those in the list that have not ended.
AliveOK == Orderly => alive = {d \in ToSet(sched) : item[d].pos >= 0}

IInv == Shape /\ ListOK /\ RangeOK /\ TimingOK /\ EndedOK /\ AliveOK

-----------------------------------------------------------------------------
(* The steps.  A callback runs inside a tick, the others outside. *)
TickStays == tick' = tick \/ (tick.at = "cb" /\ tick' = [tick EXCEPT !.at = "called"])

MainMoves ==
  delete_start \/ delete_search \/ update_start \/ update_end \/ main_index_error

LEMMA NextCases ==
  ASSUME [Next]_vars
  PROVE  /\ app' = app
         /\ \/ TickStart \/ TickIndexError \/ TickAdvance \/ TaskReturns \/ TaskEnds \/ TickEnd
            \/ TaskReturnsNone /\ Silent
            \/ TickStays /\ UNCHANGED <<item, sched, main, alive>>
            \/ \E c \in Callbacks, t \in Targets : New(c, t) /\ TickStays
            \/ \E c \in Callbacks, t \in Targets : Update(c, t) /\ TickStays
            \/ \E c \in Callbacks : Delete(c) /\ Deletes /\ TickStays
            \/ MainMoves \/ delete_collect \/ delete_rebind \/ update_step
<1>1. CASE UNCHANGED vars
  BY <1>1 DEF vars, TickStays
<1>2. CASE Next
  <2>1. app' = app
    BY <1>2 DEF Next
  <2>2. CASE TaskBody
    BY <2>1, <2>2 DEF TaskBody, TickStays, Deletes
  <2>3. CASE main_new \/ button_feed
    BY <2>1, <2>3 DEF main_new, button_feed, TickStays
  <2>4. CASE TaskReturnsNone
    BY <2>1, <2>4 DEF TaskReturnsNone, Silent
  <2> QED BY <1>2, <2>1, <2>2, <2>3, <2>4 DEF Next, Step, MainMoves
<1> QED BY <1>1, <1>2

\* What a callback, or the call of an operation outside a tick, leaves of the tick.
LEMMA TickStaysFields ==
  ASSUME Shape, TickStays
  PROVE  /\ tick'.i = tick.i /\ tick'.n = tick.n /\ tick'.task = tick.task
         /\ (tick'.at \in {"cb", "called"}) = (tick.at \in {"cb", "called"})
         /\ (tick'.at = "idle") = (tick.at = "idle")
         /\ tick' \in TickType
  BY DEF Shape, TickType, TickStays

\* new(): the dict is fresh.
LEMMA NewProperties ==
  ASSUME Shape, NEW c \in Callbacks, NEW t \in Targets, New(c, t)
  PROVE  \E d \in Items :
           /\ d \notin ToSet(sched) /\ d \notin ToSet(main.list)
           /\ item' = [item EXCEPT ![d] = [cb |-> c, pos |-> 0, target |-> t]]
           /\ sched' = Append(sched, d)
           /\ main' = IF main.same THEN [main EXCEPT !.list = Append(@, d)] ELSE main
           /\ alive' = (alive \cap Used) \cup {d}
<1> DEFINE d == CHOOSE x \in Free : TRUE
<1>1. d \in Free
  BY DEF New
<1>2. d \in Items /\ d \notin ToSet(sched) /\ d \notin ToSet(main.list)
  BY <1>1 DEF Free, Used
<1> QED BY <1>2 DEF New

LEMMA NewTask ==
  ASSUME NEW c \in Callbacks, NEW t \in Targets
  PROVE  [cb |-> c, pos |-> 0, target |-> t] \in Task
  BY Bounds DEF Task

\* What the operations on the list do to it.
LEMMA CallShapes ==
  ASSUME Shape
  PROVE  /\ \A c \in Callbacks, t \in Targets : New(c, t) =>
              /\ item' \in [Items -> Task] /\ sched' \in Seq(Items) /\ alive' \subseteq Items
              /\ main' \in MainType
              /\ main'.at = main.at /\ main'.i = main.i
         /\ \A c \in Callbacks, t \in Targets : Update(c, t) =>
              /\ item' \in [Items -> Task] /\ alive' \subseteq Items
              /\ sched' = sched /\ main' = main
         /\ \A c \in Callbacks : Delete(c) =>
              /\ item' = item /\ sched' \in Seq(Items) /\ alive' \subseteq Items
              /\ main' = [main EXCEPT !.same = FALSE]
<1>1. ASSUME NEW c \in Callbacks, NEW t \in Targets, New(c, t)
      PROVE  /\ item' \in [Items -> Task] /\ sched' \in Seq(Items) /\ alive' \subseteq Items
             /\ main' \in MainType
             /\ main'.at = main.at /\ main'.i = main.i
  <2>1. PICK d \in Items :
           /\ item' = [item EXCEPT ![d] = [cb |-> c, pos |-> 0, target |-> t]]
           /\ sched' = Append(sched, d)
           /\ main' = IF main.same THEN [main EXCEPT !.list = Append(@, d)] ELSE main
           /\ alive' = (alive \cap Used) \cup {d}
    BY <1>1, NewProperties
  <2>2. item' \in [Items -> Task] /\ alive' \subseteq Items
    BY <2>1, NewTask DEF Shape
  <2>3. sched' \in Seq(Items) /\ Append(main.list, d) \in Seq(Items)
    BY <2>1, AppendItems DEF Shape, MainType
  <2> QED BY <2>1, <2>2, <2>3 DEF Shape, MainType
<1>2. ASSUME NEW c \in Callbacks, NEW t \in Targets, Update(c, t)
      PROVE  /\ item' \in [Items -> Task] /\ alive' \subseteq Items
             /\ sched' = sched /\ main' = main
  <2>1. ToSet(sched) \subseteq Items
    BY ElementsOf DEF Shape
  <2> QED BY <1>2, <2>1, NewTask DEF Shape, Update
<1>3. ASSUME NEW c \in Callbacks, Delete(c)
      PROVE  /\ item' = item /\ sched' \in Seq(Items) /\ alive' \subseteq Items
             /\ main' = [main EXCEPT !.same = FALSE]
  BY <1>3, KeptProperties DEF Shape, Delete
<1> QED BY <1>1, <1>2, <1>3

\* Setting the fields of one task.
LEMMA SetTask ==
  ASSUME NEW f \in [Items -> Task], NEW d \in Items,
         NEW p \in -1..PosCap, NEW t \in -1..MaxTarget
  PROVE  /\ [f EXCEPT ![d].pos = p] \in [Items -> Task]
         /\ [f EXCEPT ![d].pos = p, ![d].target = t] \in [Items -> Task]
         /\ [f EXCEPT ![d].pos = p][d].pos = p
         /\ [f EXCEPT ![d].pos = p][d].target = f[d].target
         /\ [f EXCEPT ![d].pos = p][d].cb = f[d].cb
         /\ [f EXCEPT ![d].pos = p, ![d].target = t][d].pos = p
         /\ [f EXCEPT ![d].pos = p, ![d].target = t][d].target = t
         /\ [f EXCEPT ![d].pos = p, ![d].target = t][d].cb = f[d].cb
         /\ \A e \in Items : e # d =>
              /\ [f EXCEPT ![d].pos = p][e] = f[e]
              /\ [f EXCEPT ![d].pos = p, ![d].target = t][e] = f[e]
  BY DEF Task

LEMMA TargetRange == 0 \in -1..PosCap /\ -1 \in -1..PosCap /\ -1 \in -1..MaxTarget
                     /\ \A t \in Targets : t \in -1..MaxTarget
  BY Bounds

LEMMA SetTick ==
  ASSUME NEW k \in TickType, NEW S \in SUBSET Items
  PROVE  /\ [k EXCEPT !.at = "cb", !.task = S] \in TickType
         /\ [k EXCEPT !.at = "cb", !.task = S].i = k.i
         /\ [k EXCEPT !.at = "cb", !.task = S].n = k.n
         /\ [k EXCEPT !.at = "cb", !.task = S].task = S
         /\ [k EXCEPT !.at = "cb", !.task = S].at = "cb"
         /\ [k EXCEPT !.i = @ + 1] \in TickType
         /\ [k EXCEPT !.i = @ + 1].at = k.at
         /\ [k EXCEPT !.i = @ + 1].i = k.i + 1
         /\ [k EXCEPT !.i = @ + 1].n = k.n
         /\ [k EXCEPT !.i = @ + 1].task = k.task
         /\ [k EXCEPT !.at = "loop", !.i = @ + 1, !.task = S] \in TickType
         /\ [k EXCEPT !.at = "loop", !.i = @ + 1, !.task = S].at = "loop"
         /\ [k EXCEPT !.at = "loop", !.i = @ + 1, !.task = S].i = k.i + 1
         /\ [k EXCEPT !.at = "loop", !.i = @ + 1, !.task = S].n = k.n
         /\ [k EXCEPT !.at = "loop", !.i = @ + 1, !.task = S].task = S
         /\ k.i \in Nat /\ k.n \in Nat
<1>1. /\ [k EXCEPT !.at = "cb", !.task = S] \in TickType
      /\ [k EXCEPT !.at = "cb", !.task = S].i = k.i
      /\ [k EXCEPT !.at = "cb", !.task = S].n = k.n
      /\ [k EXCEPT !.at = "cb", !.task = S].task = S
      /\ [k EXCEPT !.at = "cb", !.task = S].at = "cb"
  BY DEF TickType
<1>2. /\ [k EXCEPT !.i = @ + 1] \in TickType
      /\ [k EXCEPT !.i = @ + 1].at = k.at
      /\ [k EXCEPT !.i = @ + 1].i = k.i + 1
      /\ [k EXCEPT !.i = @ + 1].n = k.n
      /\ [k EXCEPT !.i = @ + 1].task = k.task
  BY DEF TickType
<1>3. [k EXCEPT !.at = "loop", !.i = @ + 1, !.task = S] \in TickType
  <2>1. ASSUME NEW j \in Nat
        PROVE  [k EXCEPT !.at = "loop", !.i = j, !.task = S] \in TickType
    BY DEF TickType
  <2>2. k.i + 1 \in Nat
    BY DEF TickType
  <2> QED BY <2>1, <2>2
<1>4. /\ [k EXCEPT !.at = "loop", !.i = @ + 1, !.task = S].at = "loop"
      /\ [k EXCEPT !.at = "loop", !.i = @ + 1, !.task = S].i = k.i + 1
      /\ [k EXCEPT !.at = "loop", !.i = @ + 1, !.task = S].n = k.n
      /\ [k EXCEPT !.at = "loop", !.i = @ + 1, !.task = S].task = S
      /\ k.i \in Nat /\ k.n \in Nat
  BY DEF TickType
<1> QED BY <1>1, <1>2, <1>3, <1>4

\* The list's element under a loop variable.
LEMMA AtIndex ==
  ASSUME Shape
  PROVE  /\ Len(sched) \in Nat
         /\ tick.at # "idle" /\ tick.i <= Len(sched) =>
              /\ tick.i \in 1..Len(sched) /\ sched[tick.i] \in Items
              /\ sched[tick.i] \in ToSet(sched) /\ item[sched[tick.i]] \in Task
         /\ main.at \in {"search", "update"} /\ main.i <= Len(sched) =>
              /\ main.i \in 1..Len(sched) /\ sched[main.i] \in Items
              /\ sched[main.i] \in ToSet(sched) /\ item[sched[main.i]] \in Task
<1>1. sched \in Seq(Items) /\ item \in [Items -> Task] /\ tick.i \in Nat /\ main.i \in Nat
  BY DEF Shape, TickType, MainType
<1>2. /\ Len(sched) \in Nat
      /\ \A k \in 1..Len(sched) :
           sched[k] \in Items /\ sched[k] \in ToSet(sched) /\ item[sched[k]] \in Task
  BY <1>1, ElementsOf
<1>3. /\ tick.at # "idle" /\ tick.i <= Len(sched) => tick.i \in 1..Len(sched)
      /\ main.at \in {"search", "update"} /\ main.i <= Len(sched) => main.i \in 1..Len(sched)
  BY <1>1, <1>2 DEF Shape
<1> QED BY <1>2, <1>3

\* What the steps of timer_callback() do to the tasks.
LEMMA TickSteps ==
  ASSUME Shape
  PROVE  /\ TickAdvance =>
              LET d == sched[tick.i]
              IN  \E p \in -1..PosCap :
                    /\ tick.i \in 1..Len(sched) /\ d \in Items /\ d \in ToSet(sched)
                    /\ p = IF item[d].pos < PosCap THEN item[d].pos + 1 ELSE PosCap
                    /\ item' = [item EXCEPT ![d].pos = p]
                    /\ tick' = IF p > item[d].target
                               THEN [tick EXCEPT !.at = "cb", !.task = {d}]
                               ELSE [tick EXCEPT !.i = @ + 1]
                    /\ tick.at = "loop" /\ tick.i <= tick.n
                    /\ UNCHANGED <<sched, main, alive>>
         /\ TaskReturns \/ TaskEnds =>
              LET d == sched[tick.i]
              IN  \E p \in -1..PosCap, t \in -1..MaxTarget :
                    /\ tick.i \in 1..Len(sched) /\ d \in Items /\ d \in ToSet(sched)
                    /\ item' = [item EXCEPT ![d].pos = p, ![d].target = t]
                    /\ tick' = [tick EXCEPT !.at = "loop", !.i = @ + 1, !.task = {}]
                    /\ tick.at = "called"
                    /\ UNCHANGED <<sched, main>>
                    /\ \/ TaskReturns /\ p = 0 /\ t >= 0 /\ alive' = alive
                       \/ TaskEnds /\ p = -1 /\ t = -1 /\ "end" \in app /\ alive' = alive \ tick.task
<1>1. ASSUME TickAdvance
      PROVE  LET d == sched[tick.i]
             IN  \E p \in -1..PosCap :
                    /\ tick.i \in 1..Len(sched) /\ d \in Items /\ d \in ToSet(sched)
                    /\ p = IF item[d].pos < PosCap THEN item[d].pos + 1 ELSE PosCap
                    /\ item' = [item EXCEPT ![d].pos = p]
                    /\ tick' = IF p > item[d].target
                               THEN [tick EXCEPT !.at = "cb", !.task = {d}]
                               ELSE [tick EXCEPT !.i = @ + 1]
                    /\ tick.at = "loop" /\ tick.i <= tick.n
                    /\ UNCHANGED <<sched, main, alive>>
  <2> DEFINE d == sched[tick.i]
             p == IF item[d].pos < PosCap THEN item[d].pos + 1 ELSE PosCap
  <2>1. tick.i \in 1..Len(sched) /\ d \in Items /\ d \in ToSet(sched) /\ item[d] \in Task
    BY <1>1, AtIndex DEF TickAdvance
  <2>2. p \in -1..PosCap
    BY <2>1, Bounds DEF Task
  <2> QED BY <1>1, <2>1, <2>2 DEF TickAdvance, Due, period
<1>2. ASSUME TaskReturns \/ TaskEnds
      PROVE  LET d == sched[tick.i]
              IN  \E p \in -1..PosCap, t \in -1..MaxTarget :
                    /\ tick.i \in 1..Len(sched) /\ d \in Items /\ d \in ToSet(sched)
                    /\ item' = [item EXCEPT ![d].pos = p, ![d].target = t]
                    /\ tick' = [tick EXCEPT !.at = "loop", !.i = @ + 1, !.task = {}]
                    /\ tick.at = "called"
                    /\ UNCHANGED <<sched, main>>
                    /\ \/ TaskReturns /\ p = 0 /\ t >= 0 /\ alive' = alive
                       \/ TaskEnds /\ p = -1 /\ t = -1 /\ "end" \in app /\ alive' = alive \ tick.task
  <2>1. tick.i \in 1..Len(sched) /\ sched[tick.i] \in Items /\ sched[tick.i] \in ToSet(sched)
    BY <1>2, AtIndex DEF TaskReturns, TaskEnds
  <2>2. CASE TaskReturns
    <3>1. PICK t \in Targets :
            item' = [item EXCEPT ![sched[tick.i]].pos = 0, ![sched[tick.i]].target = t]
      BY <2>2 DEF TaskReturns
    <3>2. 0 \in -1..PosCap /\ t \in -1..MaxTarget /\ t >= 0
      BY Bounds
    <3> QED BY <2>1, <2>2, <3>1, <3>2 DEF TaskReturns
  <2>3. CASE TaskEnds
    BY <2>1, <2>3, TargetRange DEF TaskEnds
  <2> QED BY <1>2, <2>2, <2>3
<1> QED BY <1>1, <1>2

LEMMA ShapeStep == Shape /\ [Next]_vars => Shape'
<1> SUFFICES ASSUME Shape, [Next]_vars PROVE Shape'
  OBVIOUS
<1>1. app' = app
  BY NextCases
<1>3. CASE TickStart
  BY <1>1, <1>3, AtIndex DEF Shape, TickType, TickStart
<1>4. CASE TickIndexError \/ TaskReturnsNone
  BY <1>1, <1>4 DEF Shape, TickType, TickIndexError, TaskReturnsNone, IdleTick
<1>5. CASE TickAdvance
  <2> DEFINE d == sched[tick.i]
  <2>1. PICK p \in -1..PosCap :
          /\ d \in Items
          /\ item' = [item EXCEPT ![d].pos = p]
          /\ tick' = IF p > item[d].target
                     THEN [tick EXCEPT !.at = "cb", !.task = {d}]
                     ELSE [tick EXCEPT !.i = @ + 1]
          /\ tick.at = "loop"
          /\ UNCHANGED <<sched, main, alive>>
    BY <1>5, TickSteps
  <2>2. item' \in [Items -> Task]
    BY <2>1, SetTask, TargetRange DEF Shape
  <2>3. tick \in TickType /\ {d} \in SUBSET Items /\ 1 <= tick.i
    BY <2>1 DEF Shape
  <2>4. tick' \in TickType /\ 1 <= tick'.i
    <3>1. CASE tick' = [tick EXCEPT !.at = "cb", !.task = {d}]
      BY <2>3, <3>1, SetTick
    <3>2. CASE tick' = [tick EXCEPT !.i = @ + 1]
      <4>1. /\ [tick EXCEPT !.i = @ + 1] \in TickType /\ tick.i \in Nat
            /\ [tick EXCEPT !.i = @ + 1].i = tick.i + 1
        BY <2>3, SetTick
      <4> QED BY <2>3, <3>2, <4>1
    <3> QED BY <2>1, <3>1, <3>2
  <2> QED BY <1>1, <2>1, <2>2, <2>4 DEF Shape
<1>6. CASE TaskReturns \/ TaskEnds
  <2> DEFINE d == sched[tick.i]
  <2>1. PICK p \in -1..PosCap, t \in -1..MaxTarget :
          /\ d \in Items
          /\ item' = [item EXCEPT ![d].pos = p, ![d].target = t]
          /\ tick' = [tick EXCEPT !.at = "loop", !.i = @ + 1, !.task = {}]
          /\ tick.at = "called"
          /\ UNCHANGED <<sched, main>>
          /\ alive' = alive \/ alive' = alive \ tick.task
    BY <1>6, TickSteps
  <2>2. item' \in [Items -> Task]
    BY <2>1, SetTask DEF Shape
  <2>3. tick \in TickType /\ {} \in SUBSET Items /\ 1 <= tick.i
    BY <2>1 DEF Shape
  <2>4. tick' \in TickType /\ 1 <= tick'.i
    <3>1. /\ [tick EXCEPT !.at = "loop", !.i = @ + 1, !.task = {}] \in TickType
          /\ [tick EXCEPT !.at = "loop", !.i = @ + 1, !.task = {}].i = tick.i + 1
          /\ tick.i \in Nat
      BY <2>3, SetTick
    <3> QED BY <2>1, <2>3, <3>1
  <2> QED BY <1>1, <2>1, <2>2, <2>4 DEF Shape
<1>8. CASE TickEnd
  BY <1>1, <1>8, KeptProperties DEF Shape, TickType, MainType, TickEnd, Cleaned, IdleTick
<1>9. CASE TickStays /\ \/ UNCHANGED <<item, sched, main, alive>>
                        \/ \E c \in Callbacks, t \in Targets : New(c, t) \/ Update(c, t)
                        \/ \E c \in Callbacks : Delete(c)
  <2>1. tick' \in TickType /\ (tick'.at # "idle" => 1 <= tick'.i)
    BY <1>9, TickStaysFields DEF Shape
  <2>2. CASE UNCHANGED <<item, sched, main, alive>>
    BY <1>1, <2>1, <2>2 DEF Shape
  <2>3. CASE \E c \in Callbacks, t \in Targets : New(c, t)
    BY <1>1, <2>1, <2>3, CallShapes DEF Shape
  <2>4. CASE \E c \in Callbacks, t \in Targets : Update(c, t)
    BY <1>1, <2>1, <2>4, CallShapes DEF Shape
  <2>5. CASE \E c \in Callbacks : Delete(c)
    BY <1>1, <2>1, <2>5, CallShapes DEF Shape, MainType
  <2> QED BY <1>9, <2>2, <2>3, <2>4, <2>5
<1>10. CASE MainMoves
  <2>1. UNCHANGED <<item, sched, tick, alive>>
    BY <1>10 DEF MainMoves, delete_start, delete_search, update_start, update_end, main_index_error
  <2>2. Len(sched) \in Nat /\ <<>> \in Seq(Items)
    BY AtIndex
  <2>3. CASE delete_start \/ update_start
    <3>1. PICK c \in Callbacks, a \in {"search", "update"} :
            main' = [IdleMain EXCEPT !.at = a, !.cb = c, !.i = 1, !.n = Len(sched)]
      BY <2>3 DEF delete_start, update_start
    <3>2. main' = [at |-> a, cb |-> c, i |-> 1, n |-> Len(sched), list |-> <<>>, same |-> FALSE]
      BY <3>1 DEF IdleMain
    <3>3. main' \in MainType /\ main'.i = 1
      BY <2>2, <3>2 DEF MainType
    <3> QED BY <1>1, <2>1, <3>3 DEF Shape
  <2>5. CASE delete_search
    BY <1>1, <2>1, <2>5 DEF Shape, MainType, delete_search
  <2>6. CASE update_end \/ main_index_error
    <3>1. main' = IdleMain
      BY <2>6 DEF update_end, main_index_error
    <3>2. main' \in MainType /\ main'.at = "idle"
      BY <2>2, <3>1 DEF MainType, IdleMain
    <3> QED BY <1>1, <2>1, <3>2 DEF Shape
  <2> QED BY <1>10, <2>3, <2>5, <2>6 DEF MainMoves
<1>11. CASE delete_collect
  BY <1>1, <1>11 DEF Shape, MainType, delete_collect
<1>12. CASE delete_rebind
  <2>1. Kept(main.list, {d \in Items : item[d].cb # main.cb}) \in Seq(Items)
    BY KeptProperties DEF Shape, MainType
  <2>2. <<>> \in Seq(Items)
    OBVIOUS
  <2> QED BY <1>1, <1>12, <2>1, <2>2 DEF Shape, MainType, delete_rebind, IdleMain
<1>13. CASE update_step
  <2>1. sched[main.i] \in Items
    BY <1>13, AtIndex DEF update_step
  <2>2. item' \in [Items -> Task] /\ alive' \subseteq Items
    <3>1. CASE UNCHANGED <<item, alive>>
      BY <3>1 DEF Shape
    <3>2. CASE /\ \E t \in Targets : item' = [item EXCEPT ![sched[main.i]].pos = 0,
                                                             ![sched[main.i]].target = t]
               /\ alive' = alive \cup {sched[main.i]}
      <4>1. PICK t \in Targets :
              item' = [item EXCEPT ![sched[main.i]].pos = 0, ![sched[main.i]].target = t]
        BY <3>2
      <4>2. item \in [Items -> Task] /\ 0 \in -1..PosCap /\ t \in -1..MaxTarget
        BY TargetRange DEF Shape
      <4>3. item' \in [Items -> Task]
        BY <2>1, <4>1, <4>2, SetTask
      <4> QED BY <2>1, <3>2, <4>3 DEF Shape
    <3> QED BY <1>13, <3>1, <3>2 DEF update_step
  <2>3. main' = [main EXCEPT !.i = @ + 1] /\ UNCHANGED <<sched, tick>>
    BY <1>13 DEF update_step
  <2> QED BY <1>1, <2>2, <2>3 DEF Shape, MainType
<1> QED BY NextCases, <1>3, <1>4, <1>5, <1>6, <1>8, <1>9, <1>10, <1>11, <1>12, <1>13

-----------------------------------------------------------------------------
(* The same steps, seen field by field. *)
LEMMA AdvanceEffect ==
  ASSUME Shape, TickAdvance
  PROVE  LET d == sched[tick.i]
         IN  /\ tick.i \in 1..Len(sched) /\ d \in Items /\ d \in ToSet(sched)
             /\ tick.at = "loop" /\ tick.i <= tick.n /\ item[d] \in Task
             /\ item'[d].pos = IF item[d].pos < PosCap THEN item[d].pos + 1 ELSE PosCap
             /\ item'[d].target = item[d].target
             /\ \A e \in Items : e # d => item'[e] = item[e]
             /\ IF item'[d].pos > item[d].target
                THEN tick'.at = "cb" /\ tick'.task = {d} /\ tick'.i = tick.i
                ELSE tick'.at = "loop" /\ tick'.i = tick.i + 1
             /\ tick'.n = tick.n
             /\ UNCHANGED <<sched, main, alive>>
<1> DEFINE d == sched[tick.i]
<1>1. PICK p \in -1..PosCap :
        /\ tick.i \in 1..Len(sched) /\ d \in Items /\ d \in ToSet(sched)
        /\ p = IF item[d].pos < PosCap THEN item[d].pos + 1 ELSE PosCap
        /\ item' = [item EXCEPT ![d].pos = p]
        /\ tick' = IF p > item[d].target
                   THEN [tick EXCEPT !.at = "cb", !.task = {d}]
                   ELSE [tick EXCEPT !.i = @ + 1]
        /\ tick.at = "loop" /\ tick.i <= tick.n
        /\ UNCHANGED <<sched, main, alive>>
  BY TickSteps
<1>2. item \in [Items -> Task] /\ tick \in TickType /\ {d} \in SUBSET Items /\ item[d] \in Task
  BY <1>1 DEF Shape
<1>3. /\ item'[d].pos = p /\ item'[d].target = item[d].target
      /\ \A e \in Items : e # d => item'[e] = item[e]
  BY <1>1, <1>2, SetTask, TargetRange
<1>4. CASE p > item[d].target
  <2>1. tick' = [tick EXCEPT !.at = "cb", !.task = {d}]
    BY <1>1, <1>4
  <2>2. tick'.at = "cb" /\ tick'.task = {d} /\ tick'.i = tick.i /\ tick'.n = tick.n
    BY <1>2, <2>1 DEF TickType
  <2> QED BY <1>1, <1>2, <1>3, <1>4, <2>2
<1>5. CASE ~(p > item[d].target)
  <2>1. tick' = [tick EXCEPT !.i = @ + 1]
    BY <1>1, <1>5
  <2>2. tick'.at = tick.at /\ tick'.i = tick.i + 1 /\ tick'.n = tick.n
    BY <1>2, <2>1, SetTick
  <2> QED BY <1>1, <1>2, <1>3, <1>5, <2>2
<1> QED BY <1>4, <1>5

LEMMA ReturnEffect ==
  ASSUME Shape, TaskReturns \/ TaskEnds
  PROVE  LET d == sched[tick.i]
         IN  /\ tick.i \in 1..Len(sched) /\ d \in Items /\ d \in ToSet(sched)
             /\ tick.at = "called"
             /\ \A e \in Items : e # d => item'[e] = item[e]
             /\ tick'.at = "loop" /\ tick'.i = tick.i + 1 /\ tick'.n = tick.n
             /\ UNCHANGED <<sched, main>>
             /\ \/ item'[d].pos = 0 /\ item'[d].target \in Nat /\ alive' = alive
                \/ /\ item'[d].pos = -1 /\ item'[d].target = -1
                   /\ "end" \in app /\ alive' = alive \ tick.task
<1> DEFINE d == sched[tick.i]
<1>1. PICK p \in -1..PosCap, t \in -1..MaxTarget :
        /\ tick.i \in 1..Len(sched) /\ d \in Items /\ d \in ToSet(sched)
        /\ item' = [item EXCEPT ![d].pos = p, ![d].target = t]
        /\ tick' = [tick EXCEPT !.at = "loop", !.i = @ + 1, !.task = {}]
        /\ tick.at = "called"
        /\ UNCHANGED <<sched, main>>
        /\ \/ TaskReturns /\ p = 0 /\ t >= 0 /\ alive' = alive
           \/ TaskEnds /\ p = -1 /\ t = -1 /\ "end" \in app /\ alive' = alive \ tick.task
  BY TickSteps
<1>2. item \in [Items -> Task] /\ tick \in TickType /\ {} \in SUBSET Items
  BY DEF Shape
<1>3. /\ item'[d].pos = p /\ item'[d].target = t
      /\ \A e \in Items : e # d => item'[e] = item[e]
  BY <1>1, <1>2, SetTask
<1>4. tick'.at = "loop" /\ tick'.i = tick.i + 1 /\ tick'.n = tick.n
  <2>1. tick' = [tick EXCEPT !.at = "loop", !.i = @ + 1, !.task = {}]
    BY <1>1
  <2> QED BY <1>2, <2>1 DEF TickType
<1>5. t >= 0 => t \in Nat
  BY Bounds
<1> QED BY <1>1, <1>3, <1>4, <1>5

LEMMA NewEffect ==
  ASSUME Shape, NEW c \in Callbacks, NEW t \in Targets, New(c, t)
  PROVE  \E d \in Items :
           /\ d \notin ToSet(sched) /\ d \notin ToSet(main.list)
           /\ item'[d].pos = 0 /\ item'[d].target = t /\ t \in Nat
           /\ \A e \in Items : e # d => item'[e] = item[e]
           /\ sched' = Append(sched, d) /\ ToSet(sched') = ToSet(sched) \cup {d}
           /\ Len(sched) \in Nat /\ Len(sched') = Len(sched) + 1
           /\ \A k \in 1..Len(sched) : sched'[k] = sched[k] /\ sched[k] \in ToSet(sched)
           /\ sched'[Len(sched) + 1] = d
           /\ main' = IF main.same THEN [main EXCEPT !.list = Append(@, d)] ELSE main
           /\ main'.at = main.at
           /\ alive' = (alive \cap Used) \cup {d}
<1>1. PICK d \in Items :
        /\ d \notin ToSet(sched) /\ d \notin ToSet(main.list)
        /\ item' = [item EXCEPT ![d] = [cb |-> c, pos |-> 0, target |-> t]]
        /\ sched' = Append(sched, d)
        /\ main' = IF main.same THEN [main EXCEPT !.list = Append(@, d)] ELSE main
        /\ alive' = (alive \cap Used) \cup {d}
  BY NewProperties
<1>2. /\ item'[d].pos = 0 /\ item'[d].target = t
      /\ \A e \in Items : e # d => item'[e] = item[e]
  BY <1>1 DEF Shape
<1>3. /\ Len(sched) \in Nat /\ Len(sched') = Len(sched) + 1
      /\ \A k \in 1..Len(sched) : sched'[k] = sched[k]
      /\ sched'[Len(sched) + 1] = d /\ ToSet(sched') = ToSet(sched) \cup {d}
  BY <1>1, AppendItems, AppendSet DEF Shape
<1>4. t \in Nat /\ main'.at = main.at
  BY Bounds, CallShapes
<1>5. \A k \in 1..Len(sched) : sched[k] \in ToSet(sched)
  BY ElementsOf DEF Shape
<1> QED BY <1>1, <1>2, <1>3, <1>4, <1>5

\* update(), whole or one iteration: some tasks of the list start over.
Restart(S) ==
  /\ sched' = sched /\ alive' = alive \cup S /\ S \subseteq ToSet(sched)
  /\ \A d \in S : item'[d].pos = 0 /\ item'[d].target \in Nat
  /\ \A d \in Items \ S : item'[d] = item[d]

LEMMA UpdateEffect ==
  ASSUME Shape
  PROVE  /\ \A c \in Callbacks, t \in Targets : Update(c, t) => \E S \in SUBSET Items : Restart(S)
         /\ update_step =>
              /\ \E S \in SUBSET Items : Restart(S)
              /\ main' = [main EXCEPT !.i = @ + 1] /\ tick' = tick
              /\ main.at = "update" /\ tick.at = "idle"
<1>1. ASSUME NEW c \in Callbacks, NEW t \in Targets, Update(c, t)
      PROVE  \E S \in SUBSET Items : Restart(S)
  <2> DEFINE S == {d \in ToSet(sched) : item[d].cb = c}
  <2>1. S \in SUBSET Items
    BY ElementsOf DEF Shape
  <2>2. t \in Nat
    BY Bounds
  <2>3. Restart(S)
    BY <1>1, <2>1, <2>2 DEF Restart, Update
  <2> QED BY <2>1, <2>3
<1>2. ASSUME update_step
      PROVE  /\ \E S \in SUBSET Items : Restart(S)
             /\ main' = [main EXCEPT !.i = @ + 1] /\ tick' = tick
             /\ main.at = "update" /\ tick.at = "idle"
  <2> DEFINE d == sched[main.i]
  <2>1. d \in Items /\ d \in ToSet(sched)
    BY <1>2, AtIndex DEF update_step
  <2>2. CASE UNCHANGED <<item, alive>>
    <3>1. Restart({})
      BY <1>2, <2>2 DEF Restart, update_step
    <3> QED BY <1>2, <3>1 DEF update_step
  <2>3. CASE /\ \E t \in Targets : item' = [item EXCEPT ![d].pos = 0, ![d].target = t]
             /\ alive' = alive \cup {d}
    <3>1. PICK t \in Targets : item' = [item EXCEPT ![d].pos = 0, ![d].target = t]
      BY <2>3
    <3>2. item \in [Items -> Task] /\ 0 \in -1..PosCap /\ t \in -1..MaxTarget /\ t \in Nat
      BY TargetRange, Bounds DEF Shape
    <3>3. /\ item'[d].pos = 0 /\ item'[d].target = t
          /\ \A e \in Items : e # d => item'[e] = item[e]
      BY <2>1, <3>1, <3>2, SetTask
    <3>4. Restart({d})
      BY <1>2, <2>1, <2>3, <3>2, <3>3 DEF Restart, update_step
    <3> QED BY <1>2, <2>1, <3>4 DEF update_step
  <2> QED BY <1>2, <2>2, <2>3 DEF update_step
<1> QED BY <1>1, <1>2

LEMMA MoveEffect ==
  ASSUME Shape, MainMoves
  PROVE  /\ UNCHANGED <<item, sched, tick, alive>> /\ tick.at = "idle"
         /\ \/ /\ main'.same = main.same /\ main'.at = main.at /\ main'.list = main.list
               /\ main.at = "search"
            \/ /\ main'.same = FALSE /\ main'.list = <<>>
               /\ main'.at \in {"idle", "update"} \/ (main'.at = "search" /\ "main" \in app)
<1>1. UNCHANGED <<item, sched, tick, alive>> /\ tick.at = "idle"
  BY DEF MainMoves, delete_start, delete_search, update_start, update_end, main_index_error, Idle
<1>2. CASE delete_search
  <2>1. main \in MainType /\ main.at = "search"
    BY <1>2 DEF Shape, delete_search
  <2>2. main'.same = main.same /\ main'.at = main.at /\ main'.list = main.list
    BY <1>2, <2>1 DEF MainType, delete_search
  <2> QED BY <1>1, <2>1, <2>2
<1>3. CASE delete_start
  <2>1. main'.same = FALSE /\ main'.list = <<>> /\ main'.at = "search" /\ "main" \in app
    BY <1>3 DEF delete_start, IdleMain
  <2> QED BY <1>1, <2>1
<1>4. CASE update_start
  <2>1. main'.same = FALSE /\ main'.list = <<>> /\ main'.at = "update"
    BY <1>4 DEF update_start, IdleMain
  <2> QED BY <1>1, <2>1
<1>5. CASE update_end \/ main_index_error
  <2>1. main'.same = FALSE /\ main'.list = <<>> /\ main'.at = "idle"
    BY <1>5 DEF update_end, main_index_error, IdleMain
  <2> QED BY <1>1, <2>1
<1> QED BY <1>2, <1>3, <1>4, <1>5 DEF MainMoves

-----------------------------------------------------------------------------
(***************************************************************************)
(* Each part of the invariant is preserved.                                 *)
(***************************************************************************)
LEMMA ListStep == Shape /\ ListOK /\ [Next]_vars => ListOK'
<1> SUFFICES ASSUME Shape, ListOK, [Next]_vars PROVE ListOK'
  OBVIOUS
<1>1. sched \in Seq(Items) /\ main.list \in Seq(Items) /\ main \in MainType
  BY DEF Shape, MainType
<1>2. ASSUME NEW S PROVE /\ Injective(Kept(sched, S)) /\ Injective(Kept(main.list, S))
  BY <1>1, KeptProperties DEF ListOK
<1>3. Injective(<<>>)
  BY DEF Injective
<1>4. CASE UNCHANGED <<sched, main>>
  BY <1>4 DEF ListOK, Injective
<1>5. CASE \/ TickStart \/ TickIndexError \/ TickAdvance
          \/ TaskReturns \/ TaskEnds \/ TaskReturnsNone
  <2>1. UNCHANGED <<sched, main>>
    BY <1>5 DEF TickStart, TickIndexError, TickAdvance, TaskReturns, TaskEnds, TaskReturnsNone
  <2> QED BY <1>4, <2>1
<1>6. ASSUME NEW S, sched' = Kept(sched, S), main' = [main EXCEPT !.same = FALSE]
      PROVE  ListOK'
  <2>1. main'.same = FALSE /\ main'.at = main.at /\ main'.list = main.list
    BY <1>1, <1>6 DEF MainType
  <2> QED BY <1>2, <1>6, <2>1 DEF ListOK
<1>7. CASE TickEnd
  BY <1>6, <1>7 DEF TickEnd, Cleaned
<1>8. CASE \E c \in Callbacks : Delete(c)
  BY <1>6, <1>8 DEF Delete
<1>9. CASE \E c \in Callbacks, t \in Targets : Update(c, t)
  BY <1>4, <1>9 DEF Update
<1>10. ASSUME NEW c \in Callbacks, NEW t \in Targets, New(c, t)
       PROVE  ListOK'
  <2>1. PICK d \in Items :
          /\ d \notin ToSet(sched) /\ d \notin ToSet(main.list)
          /\ sched' = Append(sched, d)
          /\ main' = IF main.same THEN [main EXCEPT !.list = Append(@, d)] ELSE main
          /\ main'.at = main.at
    BY <1>10, NewEffect
  <2>2. Injective(sched')
    BY <1>1, <2>1, AppendSet DEF ListOK
  <2>3. CASE main.same
    <3>1. main'.list = Append(main.list, d) /\ main'.at = "collect"
      BY <1>1, <2>1, <2>3 DEF MainType, ListOK
    <3>2. main'.list = sched'
      BY <2>1, <2>3, <3>1 DEF ListOK
    <3> QED BY <2>2, <3>1, <3>2 DEF ListOK
  <2>4. CASE ~main.same
    BY <2>1, <2>2, <2>4 DEF ListOK
  <2> QED BY <2>3, <2>4
<1>11. CASE MainMoves
  BY <1>3, <1>11, MoveEffect DEF ListOK
<1>12. CASE delete_collect
  <2>1. main'.at = "collect" /\ main'.list = sched /\ sched' = sched
    BY <1>1, <1>12 DEF MainType, delete_collect
  <2> QED BY <2>1 DEF ListOK
<1>13. CASE delete_rebind
  <2>1. main'.same = FALSE /\ main'.list = <<>>
        /\ sched' = Kept(main.list, {d \in Items : item[d].cb # main.cb})
    BY <1>13 DEF delete_rebind, IdleMain
  <2> QED BY <1>2, <1>3, <2>1 DEF ListOK
<1>14. CASE update_step
  <2>1. main'.same = main.same /\ main'.at = main.at /\ main'.list = main.list /\ sched' = sched
    BY <1>1, <1>14 DEF MainType, update_step
  <2> QED BY <2>1 DEF ListOK
<1> QED
  BY NextCases, <1>4, <1>5, <1>7, <1>8, <1>9, <1>10, <1>11, <1>12, <1>13, <1>14

LEMMA RangeStep == Shape /\ RangeOK /\ [Next]_vars => RangeOK'
<1> SUFFICES ASSUME Shape, RangeOK, [Next]_vars, ~Deletes, tick'.at # "idle"
             PROVE  /\ tick'.n <= Len(sched')
                    /\ InCall' => tick'.i <= tick'.n /\ tick'.task = {sched'[tick'.i]}
  BY NextCases DEF RangeOK, Deletes
<1>1. Len(sched) \in Nat /\ tick \in TickType /\ tick.i \in Nat /\ tick.n \in Nat
  BY AtIndex DEF Shape, TickType
<1>2. CASE TickStart
  BY <1>1, <1>2 DEF TickStart, InCall
<1>3. CASE TickIndexError \/ TaskReturnsNone \/ TickEnd
  BY <1>3 DEF TickIndexError, TaskReturnsNone, TickEnd, IdleTick
<1>4. CASE TickAdvance
  BY <1>4, AdvanceEffect DEF RangeOK, InCall
<1>5. CASE TaskReturns \/ TaskEnds
  BY <1>5, ReturnEffect DEF RangeOK, InCall
<1>6. TickStays => /\ tick'.i = tick.i /\ tick'.n = tick.n /\ tick'.task = tick.task
                   /\ tick.at # "idle" /\ InCall' = InCall
  BY TickStaysFields DEF InCall
<1>7. CASE TickStays /\ sched' = sched
  BY <1>6, <1>7 DEF RangeOK
<1>8. CASE TickStays /\ \E c \in Callbacks, t \in Targets : New(c, t)
  <2>1. PICK c \in Callbacks, t \in Targets : New(c, t)
    BY <1>8
  <2>2. Len(sched') = Len(sched) + 1 /\ \A k \in 1..Len(sched) : sched'[k] = sched[k]
    BY <2>1, NewEffect
  <2>3. 1 <= tick.i
    BY <1>6, <1>8 DEF Shape
  <2> QED BY <1>1, <1>6, <1>8, <2>2, <2>3 DEF RangeOK
<1>9. \A c \in Callbacks, t \in Targets : Update(c, t) => sched' = sched
  BY DEF Update
<1>10. CASE MainMoves \/ delete_collect \/ delete_rebind \/ update_step
  BY <1>10 DEF MainMoves, delete_start, delete_search, update_start, update_end, Idle,
               main_index_error, delete_collect, delete_rebind, update_step
<1> QED BY NextCases, <1>2, <1>3, <1>4, <1>5, <1>7, <1>8, <1>9, <1>10

LEMMA TimingStep == Shape /\ RangeOK /\ TimingOK /\ [Next]_vars => TimingOK'
<1> SUFFICES ASSUME Shape, RangeOK, TimingOK, [Next]_vars, ~Deletes, ~Silent, NEW e \in Items
             PROVE  item'[e].pos <= item'[e].target + (IF InCall' /\ e \in tick'.task THEN 1 ELSE 0)
  BY NextCases DEF TimingOK, Deletes, Silent
<1>1. /\ item[e].pos \in Int /\ item[e].target \in Int /\ item[e].target <= MaxTarget
      /\ MaxTarget \in Nat /\ PosCap = MaxTarget + 2
  BY Bounds DEF Shape, Task
<1>2. item[e].pos <= item[e].target + (IF InCall /\ e \in tick.task THEN 1 ELSE 0)
  BY DEF TimingOK
<1>3. CASE item' = item /\ (InCall /\ e \in tick.task => InCall' /\ e \in tick'.task)
  BY <1>1, <1>2, <1>3
<1>4. CASE TickStart \/ TickEnd
  BY <1>3, <1>4 DEF TickStart, TickEnd, InCall
<1>5. CASE TickIndexError
  BY <1>5, AtIndex DEF RangeOK, TickIndexError, Shape, TickType
<1>6. CASE TickAdvance
  <2>1. ~InCall
    BY <1>6 DEF TickAdvance, InCall
  <2>2. CASE e # sched[tick.i]
    BY <1>1, <1>2, <1>6, <2>1, <2>2, AdvanceEffect
  <2>3. CASE e = sched[tick.i]
    <3>1. /\ item'[e].pos = item[e].pos + 1 /\ item'[e].target = item[e].target
      BY <1>1, <1>2, <1>6, <2>1, <2>3, AdvanceEffect
    <3>2. item'[e].pos > item[e].target => InCall' /\ e \in tick'.task
      BY <1>6, <2>3, AdvanceEffect DEF InCall
    <3> QED BY <1>1, <1>2, <2>1, <3>1, <3>2
  <2> QED BY <2>2, <2>3
<1>7. CASE TaskReturns \/ TaskEnds
  <2>1. tick.task = {sched[tick.i]} /\ ~InCall'
    BY <1>7, ReturnEffect DEF RangeOK, InCall
  <2>2. CASE e # sched[tick.i]
    BY <1>1, <1>2, <1>7, <2>1, <2>2, ReturnEffect
  <2>3. CASE e = sched[tick.i]
    BY <1>7, <2>1, <2>3, ReturnEffect
  <2> QED BY <2>2, <2>3
<1>8. TickStays => (InCall /\ e \in tick.task => InCall' /\ e \in tick'.task)
  BY TickStaysFields DEF InCall
<1>9. ASSUME TickStays, NEW c \in Callbacks, NEW t \in Targets, New(c, t)
      PROVE  item'[e].pos <= item'[e].target + (IF InCall' /\ e \in tick'.task THEN 1 ELSE 0)
  <2>1. PICK d \in Items : /\ item'[d].pos = 0 /\ item'[d].target = t /\ t \in Nat
                           /\ \A f \in Items : f # d => item'[f] = item[f]
    BY <1>9, NewEffect
  <2> QED BY <1>1, <1>2, <1>8, <1>9, <2>1
<1>10. ASSUME TickStays \/ tick' = tick, NEW S \in SUBSET Items, Restart(S)
       PROVE  item'[e].pos <= item'[e].target + (IF InCall' /\ e \in tick'.task THEN 1 ELSE 0)
  <2>1. CASE e \in S
    BY <1>10, <2>1 DEF Restart
  <2>2. CASE e \notin S
    BY <1>1, <1>2, <1>8, <1>10, <2>2 DEF Restart, TickStays
  <2> QED BY <2>1, <2>2
<1>11. CASE MainMoves \/ delete_collect \/ delete_rebind
  <2>1. item' = item /\ tick' = tick
    BY <1>11, MoveEffect DEF delete_collect, delete_rebind
  <2> QED BY <1>3, <2>1 DEF InCall
<1> QED BY NextCases, UpdateEffect, <1>3, <1>4, <1>5, <1>6, <1>7, <1>8, <1>9, <1>10, <1>11

LEMMA MainHabit ==
  ASSUME Shape, EndedOK, [Next]_vars, "main" \notin app
  PROVE  /\ main.at \in {"idle", "update"} /\ main'.at \in {"idle", "update"}
         /\ ~delete_collect /\ ~delete_rebind
<1>1. main.at \in {"idle", "update"} /\ main \in MainType
  BY DEF EndedOK, Shape
<1>2. ~delete_collect /\ ~delete_rebind
  BY <1>1 DEF delete_collect, delete_rebind
<1> SUFFICES main'.at \in {"idle", "update"}
  BY <1>1, <1>2
<1>3. CASE main' = main
  BY <1>1, <1>3
<1>4. CASE \/ TickStart \/ TickIndexError \/ TickAdvance
          \/ TaskReturns \/ TaskEnds \/ TaskReturnsNone
  BY <1>3, <1>4 DEF TickStart, TickIndexError, TickAdvance, TaskReturns, TaskEnds, TaskReturnsNone
<1>5. CASE main' = [main EXCEPT !.same = FALSE]
  BY <1>1, <1>5 DEF MainType
<1>6. CASE TickEnd \/ \E c \in Callbacks : Delete(c)
  BY <1>5, <1>6 DEF TickEnd, Delete
<1>7. CASE \E c \in Callbacks, t \in Targets : New(c, t)
  BY <1>1, <1>7, NewEffect
<1>8. CASE \E c \in Callbacks, t \in Targets : Update(c, t)
  BY <1>3, <1>8 DEF Update
<1>9. CASE MainMoves
  BY <1>1, <1>9, MoveEffect
<1>10. CASE update_step
  <2>1. main' = [main EXCEPT !.i = @ + 1]
    BY <1>10 DEF update_step
  <2> QED BY <1>1, <2>1 DEF MainType
<1> QED BY NextCases, <1>1, <1>2, <1>3, <1>4, <1>6, <1>7, <1>8, <1>9, <1>10

\* No step but TaskEnds makes a pos negative.
LEMMA PosStep ==
  ASSUME Shape, [Next]_vars, NEW e \in Items, item[e].pos >= 0
  PROVE  \/ item'[e].pos >= 0
         \/ TaskEnds /\ e = sched[tick.i] /\ "end" \in app
<1>1. item[e].pos \in Int /\ PosCap \in Nat
  BY Bounds DEF Shape, Task
<1>2. CASE item' = item
  BY <1>2
<1>3. CASE TickStart \/ TickIndexError \/ TaskReturnsNone \/ TickEnd
  BY <1>2, <1>3 DEF TickStart, TickIndexError, TaskReturnsNone, TickEnd
<1>4. CASE TickAdvance
  BY <1>1, <1>4, AdvanceEffect
<1>5. CASE TaskReturns
  <2>1. e # sched[tick.i] => item'[e] = item[e]
    BY <1>5, ReturnEffect
  <2>2. item'[sched[tick.i]].pos = 0
    BY <1>5, TickSteps, SetTask, AtIndex DEF TaskReturns, Shape
  <2> QED BY <2>1, <2>2
<1>6. CASE TaskEnds
  BY <1>6, ReturnEffect DEF TaskEnds
<1>7. ASSUME NEW c \in Callbacks, NEW t \in Targets, New(c, t)
      PROVE  item'[e].pos >= 0
  BY <1>7, NewEffect
<1>8. ASSUME NEW S \in SUBSET Items, Restart(S)
      PROVE  item'[e].pos >= 0
  BY <1>8 DEF Restart
<1>9. \A c \in Callbacks : Delete(c) => item' = item
  BY DEF Delete
<1>10. MainMoves \/ delete_collect \/ delete_rebind => item' = item
  BY MoveEffect DEF delete_collect, delete_rebind
<1> QED BY NextCases, UpdateEffect, <1>2, <1>3, <1>4, <1>5, <1>6, <1>7, <1>8, <1>9, <1>10

LEMMA EndedStep == Shape /\ ListOK /\ RangeOK /\ EndedOK /\ [Next]_vars => EndedOK'
<1> SUFFICES ASSUME Shape, ListOK, RangeOK, EndedOK, [Next]_vars PROVE EndedOK'
  OBVIOUS
<1>1. app' = app
  BY NextCases
<1>2. "end" \notin app => \A d \in Items : item'[d].pos >= 0
  BY PosStep DEF EndedOK
<1>3. "main" \notin app => main'.at \in {"idle", "update"}
  BY MainHabit
<1>4. ASSUME ~Deletes, ~Silent, "main" \notin app,
             NEW k \in 1..Len(sched'), tick'.at = "idle" \/ tick'.i <= k
      PROVE  item'[sched'[k]].pos >= 0
  <2>1. /\ Len(sched) \in Nat /\ tick \in TickType /\ tick.i \in Nat
        /\ \A j \in 1..Len(sched) : sched[j] \in Items /\ sched[j] \in ToSet(sched)
    BY ElementsOf DEF Shape, TickType
  <2>2. \A j \in 1..Len(sched) : tick.at = "idle" \/ tick.i <= j => item[sched[j]].pos >= 0
    BY <1>4 DEF EndedOK
  <2>3. ASSUME sched' = sched, tick.at = "idle" \/ tick.i <= k, ~TaskEnds
        PROVE  item'[sched'[k]].pos >= 0
    BY <1>4, <2>1, <2>2, <2>3, PosStep
  <2>4. CASE TickStart
    <3>1. sched' = sched /\ tick.at = "idle" /\ ~TaskEnds
      BY <2>4 DEF TickStart, TaskEnds
    <3> QED BY <2>3, <3>1
  <2>5. CASE TickIndexError
    BY <1>4, <2>5, AtIndex DEF RangeOK, TickIndexError, Shape, TickType
  <2>6. CASE TickAdvance
    <3>1. sched' = sched /\ tick'.at # "idle" /\ (tick'.i = tick.i \/ tick'.i = tick.i + 1) /\ ~TaskEnds
      BY <2>6, AdvanceEffect DEF TaskEnds
    <3>2. tick.i <= k
      BY <1>4, <2>1, <3>1
    <3> QED BY <2>3, <3>1, <3>2
  <2>7. CASE TaskReturns \/ TaskEnds
    <3>1. /\ sched' = sched /\ tick'.at # "idle" /\ tick'.i = tick.i + 1
          /\ tick.i \in 1..Len(sched)
      BY <2>7, ReturnEffect
    <3>2. tick.i <= k /\ tick.i # k
      BY <1>4, <2>1, <3>1
    <3>3. sched[k] # sched[tick.i]
      BY <1>4, <3>1, <3>2, ElementsOf DEF ListOK, Injective, Shape
    <3> QED BY <1>4, <2>1, <2>2, <3>1, <3>2, <3>3, PosStep
  <2>8. CASE TickEnd
    <3>1. /\ sched' = Kept(sched, {d \in Items : item[d].pos >= 0}) /\ item' = item
      BY <2>8 DEF TickEnd, Cleaned
    <3>2. sched' \in Seq(Items) /\ ToSet(sched') \subseteq {d \in Items : item[d].pos >= 0}
      BY <3>1, KeptProperties DEF Shape
    <3>3. sched'[k] \in ToSet(sched')
      BY <1>4, <3>2, ElementsOf
    <3> QED BY <3>1, <3>2, <3>3
  <2>9. TickStays => tick'.i = tick.i /\ (tick'.at = "idle") = (tick.at = "idle")
    BY TickStaysFields
  <2>10. TickStays => ~TaskEnds
    BY <2>1 DEF TaskEnds, TickStays, TickType
  <2>11. CASE TickStays /\ sched' = sched
    BY <1>4, <2>3, <2>9, <2>10, <2>11
  <2>12. CASE TickStays /\ \E c \in Callbacks, t \in Targets : New(c, t)
    <3>1. PICK c \in Callbacks, t \in Targets : New(c, t)
      BY <2>12
    <3>2. PICK d \in Items :
            /\ d \notin ToSet(sched) /\ item'[d].pos = 0
            /\ \A e \in Items : e # d => item'[e] = item[e]
            /\ Len(sched') = Len(sched) + 1
            /\ \A j \in 1..Len(sched) : sched'[j] = sched[j]
            /\ sched'[Len(sched) + 1] = d
      BY <3>1, NewEffect
    <3>3. k \in 1..Len(sched) \/ k = Len(sched) + 1
      BY <1>4, <2>1, <3>2
    <3>4. CASE k \in 1..Len(sched)
      <4>1. sched'[k] = sched[k] /\ sched[k] \in Items /\ sched[k] # d
        BY <2>1, <3>2, <3>4
      <4>2. tick.at = "idle" \/ tick.i <= k
        BY <1>4, <2>9, <2>12
      <4> QED BY <2>2, <3>2, <3>4, <4>1, <4>2
    <3> QED BY <3>2, <3>3, <3>4
  <2>13. \A c \in Callbacks, t \in Targets : Update(c, t) => sched' = sched
    BY DEF Update
  <2>14. CASE MainMoves \/ update_step
    <3>1. sched' = sched /\ tick.at = "idle" /\ ~TaskEnds
      BY <2>14, MoveEffect DEF update_step, TaskEnds
    <3> QED BY <2>3, <3>1
  <2> QED BY <1>4, NextCases, MainHabit, <2>4, <2>5, <2>6, <2>7, <2>8, <2>11, <2>12, <2>13, <2>14
<1> QED BY <1>1, <1>2, <1>3, <1>4 DEF EndedOK, Deletes, Silent

LEMMA AliveStep == Shape /\ ListOK /\ RangeOK /\ EndedOK /\ AliveOK /\ [Next]_vars => AliveOK'
<1> SUFFICES ASSUME Shape, ListOK, RangeOK, EndedOK, AliveOK, [Next]_vars, Orderly
             PROVE  alive' = {d \in ToSet(sched') : item'[d].pos >= 0}
  BY NextCases DEF AliveOK, Orderly
<1> DEFINE Listed == ToSet(sched)
<1>1. alive = {d \in Listed : item[d].pos >= 0} /\ Listed \subseteq Items /\ Used = Listed \cup ToSet(main.list)
  BY ElementsOf DEF AliveOK, Shape, Used
<1>2. "main" \notin app /\ (Deletes \/ Silent => "end" \notin app)
  BY DEF Orderly, Deletes, Silent
<1>3. \A d \in Items : item[d].pos \in Int
  BY DEF Shape, Task
<1>4. ASSUME tick.at # "idle", tick.i \in 1..Len(sched)
      PROVE  item[sched[tick.i]].pos >= 0
  <2>1. sched[tick.i] \in Items /\ tick.i <= tick.i
    BY <1>4, ElementsOf DEF Shape, TickType
  <2>2. CASE Deletes \/ Silent
    BY <1>2, <2>1, <2>2 DEF EndedOK
  <2>3. CASE ~Deletes /\ ~Silent
    BY <1>2, <1>4, <2>1, <2>3 DEF EndedOK
  <2> QED BY <2>2, <2>3
<1>5. CASE UNCHANGED <<item, sched, alive>>
  BY <1>1, <1>5
<1>6. CASE TickStart \/ TickIndexError \/ TaskReturnsNone \/ MainMoves
  BY <1>5, <1>6, MoveEffect DEF TickStart, TickIndexError, TaskReturnsNone
<1>7. CASE TickAdvance
  <2> DEFINE d == sched[tick.i]
  <2>1. /\ d \in Listed /\ sched' = sched /\ alive' = alive
        /\ item'[d].pos = IF item[d].pos < PosCap THEN item[d].pos + 1 ELSE PosCap
        /\ \A e \in Items : e # d => item'[e] = item[e]
        /\ tick.at = "loop" /\ tick.i \in 1..Len(sched)
    BY <1>7, AdvanceEffect
  <2>2. item[d].pos >= 0 /\ item'[d].pos >= 0
    BY <1>1, <1>3, <1>4, <2>1, Bounds
  <2> QED BY <1>1, <2>1, <2>2
<1>8. CASE TaskReturns \/ TaskEnds
  <2> DEFINE d == sched[tick.i]
  <2>1. /\ d \in Listed /\ sched' = sched /\ tick.at = "called" /\ tick.i \in 1..Len(sched)
        /\ \A e \in Items : e # d => item'[e] = item[e]
        /\ \/ item'[d].pos = 0 /\ alive' = alive
           \/ item'[d].pos = -1 /\ "end" \in app /\ alive' = alive \ tick.task
    BY <1>8, ReturnEffect
  <2>2. item[d].pos >= 0
    BY <1>4, <2>1
  <2>3. "end" \in app => tick.task = {d}
    BY <1>2, <2>1 DEF RangeOK, InCall
  <2> QED BY <1>1, <2>1, <2>2, <2>3
<1>9. CASE TickEnd
  <2>1. /\ sched' = Kept(sched, {d \in Items : item[d].pos >= 0})
        /\ item' = item /\ alive' = alive
    BY <1>9 DEF TickEnd, Cleaned
  <2>2. ToSet(sched') = Listed \cap {d \in Items : item[d].pos >= 0}
    BY <2>1, KeptProperties DEF Shape
  <2> QED BY <1>1, <2>1, <2>2
<1>10. ASSUME NEW c \in Callbacks, NEW t \in Targets, New(c, t)
       PROVE  alive' = {d \in ToSet(sched') : item'[d].pos >= 0}
  <2>1. PICK d \in Items : /\ d \notin Listed /\ item'[d].pos = 0
                           /\ \A e \in Items : e # d => item'[e] = item[e]
                           /\ ToSet(sched') = Listed \cup {d}
                           /\ alive' = (alive \cap Used) \cup {d}
    BY <1>10, NewEffect
  <2> QED BY <1>1, <2>1
<1>11. ASSUME NEW S \in SUBSET Items, Restart(S)
       PROVE  alive' = {d \in ToSet(sched') : item'[d].pos >= 0}
  BY <1>1, <1>11 DEF Restart
<1>12. ASSUME NEW c \in Callbacks, Delete(c)
       PROVE  alive' = {d \in ToSet(sched') : item'[d].pos >= 0}
  <2>1. /\ sched' = Kept(sched, {d \in Items : item[d].cb # c})
        /\ item' = item /\ alive' = {d \in alive : item[d].cb # c}
    BY <1>12 DEF Delete
  <2>2. ToSet(sched') = Listed \cap {d \in Items : item[d].cb # c}
    BY <2>1, KeptProperties DEF Shape
  <2> QED BY <1>1, <2>1, <2>2
<1>13. ~delete_collect /\ ~delete_rebind
  BY <1>2, MainHabit
<1> QED BY NextCases, UpdateEffect, <1>5, <1>6, <1>7, <1>8, <1>9, <1>10, <1>11, <1>12, <1>13

-----------------------------------------------------------------------------
(* The theorems. *)
LEMMA InitIInv == Init => IInv
<1> SUFFICES ASSUME Init PROVE IInv
  OBVIOUS
<1>1. /\ <<>> \in Seq(Items) /\ Len(<<>>) = 0 /\ DOMAIN <<>> = {} /\ ToSet(<<>>) = {}
      /\ Injective(<<>>)
  BY DEF ToSet, Injective
<1>2. sched = <<>> /\ main.list = <<>> /\ main.at = "idle" /\ main.same = FALSE
      /\ tick.at = "idle" /\ alive = {}
  BY DEF Init, IdleTick, IdleMain
<1>3. \A d \in Items : item[d] = NoItem /\ NoItem.pos = 0 /\ NoItem.target = 0
  BY DEF Init, NoItem
<1>4. Shape
  <2>1. NoItem \in Task
    BY Bounds DEF NoItem, Task
  <2>2. item \in [Items -> Task] /\ app \in Apps
    BY <2>1 DEF Init
  <2>3. tick \in TickType /\ main \in MainType
    BY <1>1 DEF Init, IdleTick, IdleMain, TickType, MainType
  <2> QED BY <1>1, <1>2, <2>2, <2>3 DEF Shape
<1>5. ListOK /\ RangeOK
  BY <1>1, <1>2 DEF ListOK, RangeOK
<1>6. TimingOK /\ EndedOK
  BY <1>1, <1>2, <1>3 DEF TimingOK, EndedOK, InCall
<1>7. AliveOK
  BY <1>1, <1>2 DEF AliveOK
<1> QED BY <1>4, <1>5, <1>6, <1>7 DEF IInv

(* In every state reached: without callbacks that delete, timer_callback()     *)
(* never takes an index beyond the list and disables or re-arms the very task  *)
(* it has called; and without deleting in the main program, no task that ended *)
(* is ahead of its loop (virtualtimers.py:89-109), if each callback returns a  *)
(* number.                                                                     *)
THEOREM TimersInvariance == Spec => []IInv
<1>1. Init => IInv
  BY InitIInv
<1>2. IInv /\ [Next]_vars => IInv'
  BY ShapeStep, ListStep, RangeStep, TimingStep, EndedStep, AliveStep DEF IInv
<1> QED BY <1>1, <1>2, PTL DEF Spec

(* The dicts, the list and both loops are well formed, and no pos reaches the  *)
(* bound of the model unless callbacks delete or return no number              *)
(* (virtualtimers.py:10-109).                                                  *)
THEOREM TimersTypes == Spec => []TypeOK
<1>1. IInv => TypeOK
  <2> SUFFICES ASSUME IInv PROVE TypeOK
    OBVIOUS
  <2>1. Shape /\ TimingOK
    BY DEF IInv
  <2>2. ASSUME NEW d \in Items
        PROVE  /\ item[d].cb \in Callbacks \cup {"none"}
               /\ item[d].pos \in -1 .. PosCap
               /\ app \cap {"delete", "none"} = {} => item[d].pos < PosCap
               /\ item[d].target \in -1 .. MaxTarget
    <3>1. /\ item[d] \in Task /\ item[d].pos \in -1 .. PosCap /\ item[d].target \in -1 .. MaxTarget
          /\ item[d].cb \in Callbacks \cup {"none"}
      BY <2>1 DEF Shape, Task
    <3>2. app \cap {"delete", "none"} = {} => item[d].pos <= item[d].target + 1
      BY <2>1, <3>1 DEF TimingOK, Deletes, Silent
    <3> QED BY <3>1, <3>2, Bounds
  <2>3. tick.at \in {"idle", "loop", "cb", "called"} /\ main.at \in {"idle", "search", "collect", "update"}
    BY <2>1 DEF Shape, TickType, MainType
  <2> QED BY <2>1, <2>2, <2>3 DEF Shape, TypeOK
<1> QED BY <1>1, TimersInvariance, PTL

(* For every application whose callbacks return a number and do not call       *)
(* delete(): between ticks no task is twice in the list and none has missed   *)
(* its time; and unless it both ends and deletes tasks, none in the list has   *)
(* ended (virtualtimers.py:94-109).                                            *)
THEOREM TasksAreOnTime == Spec => []NoneOverdue
<1>1. IInv => NoneOverdue
  <2> SUFFICES ASSUME IInv, ~Deletes, ~Silent, Idle PROVE NoneOverdue
    BY DEF NoneOverdue, Deletes, Silent
  <2>1. Shape /\ ListOK /\ TimingOK /\ EndedOK /\ tick.at = "idle"
    BY DEF IInv, Idle
  <2>2. \A i, j \in DOMAIN sched : sched[i] = sched[j] => i = j
    BY <2>1 DEF ListOK, Injective
  <2>3. ASSUME NEW d \in ToSet(sched)
        PROVE  /\ item[d].pos <= item[d].target
               /\ {"end", "main"} \subseteq app \/ 0 <= item[d].pos
    <3>1. d \in Items /\ \E k \in 1..Len(sched) : d = sched[k]
      BY <2>1, ElementsOf DEF Shape
    <3>2. item[d].pos \in Int /\ item[d].target \in Int
      BY <2>1, <3>1 DEF Shape, Task
    <3>3. item[d].pos <= item[d].target
      BY <2>1, <3>1, <3>2 DEF TimingOK, InCall
    <3>4. "end" \notin app \/ "main" \notin app => 0 <= item[d].pos
      BY <2>1, <3>1, <3>2 DEF EndedOK
    <3> QED BY <3>3, <3>4
  <2> QED BY <2>2, <2>3 DEF NoneOverdue
<1> QED BY <1>1, TimersInvariance, PTL

(* For applications that do not call delete() in the main program and whose    *)
(* callbacks either end or delete tasks or return no number: between ticks the *)
(* list is exactly the live tasks, however new(), update(), delete() and the   *)
(* tasks' results interleave with the loop and the clean-up of                 *)
(* timer_callback() (virtualtimers.py:54-109).                                 *)
THEOREM LiveTasksAreListed == Spec => []ListIsAlive
<1>1. IInv => ListIsAlive
  <2> SUFFICES ASSUME IInv, Orderly, Idle PROVE ToSet(sched) = alive
    BY DEF ListIsAlive
  <2>1. Shape /\ EndedOK /\ alive = {d \in ToSet(sched) : item[d].pos >= 0} /\ tick.at = "idle"
    BY DEF IInv, AliveOK, Idle
  <2>2. ASSUME NEW d \in ToSet(sched) PROVE item[d].pos >= 0
    <3>1. d \in Items /\ \E k \in 1..Len(sched) : d = sched[k]
      BY <2>1, ElementsOf DEF Shape
    <3>2. "main" \notin app /\ ("end" \notin app \/ (~Deletes /\ ~Silent))
      BY DEF Orderly, Deletes, Silent
    <3> QED BY <2>1, <3>1, <3>2 DEF EndedOK
  <2> QED BY <2>1, <2>2
<1> QED BY <1>1, TimersInvariance, PTL

=============================================================================
